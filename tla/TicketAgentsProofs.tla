--------------------------- MODULE TicketAgentsProofs ---------------------------
(***************************************************************************)
(* What module TicketAgents promises of the agents of a ticket run, for    *)
(* every set of file names and any number of uploads, previews, failed     *)
(* calls and crashes: its type invariant, and the properties of the        *)
(* uploads and of the run's files that TLC checks on a small instance.     *)
(*                                                                         *)
(* None of them but the type is about one step, and none is inductive.     *)
(* AgentsInv, which is, has two parts.  In whatever order the agents run,  *)
(*   Course       the handler under way delivers its own files, which are  *)
(*                not there yet, and every file has an agent that has      *)
(*                begun: run_task begins none twice;                       *)
(*   Loads        who may write the catalog: the loader alone, and no      *)
(*                schema is saved meanwhile;                               *)
(*   RowsOnDisk, Listings                                                  *)
(*                what an upload that nobody competes with meets on its    *)
(*                way from its row through the loader to its schema;       *)
(*   OnceRemote   what a push and a pull request find at the remote;       *)
(*   Shapes, Once the shape of the records, and that no row is there twice.*)
(* If every agent has waited for its turn, moreover,                       *)
(*   InDelivery   which files the run has at each position, which of them  *)
(*                are registered, and what is left to write: the handlers  *)
(*                run one after another, each from the file it begins with *)
(*                to the row of its last one;                              *)
(*   LoadsInTurn  the catalog is there if anything was listed, and at rest *)
(*                once the run has a file;                                 *)
(*   Contents     what is in the files the later handlers rely on;         *)
(*   Published    what stands behind a push and a pull request.            *)
(***************************************************************************)
EXTENDS TicketAgents, FiniteSetTheorems, SequenceTheorems, TLAPS

-----------------------------------------------------------------------------
(* The inductive invariant.                                                *)

Elems(s) == {s[i] : i \in DOMAIN s}

(* Tables of a catalog or of an answer of the loader: finitely many names, *)
(* each with the bytes of an upload.                                       *)
Bytewise(tables) ==
    /\ tables \in [DOMAIN tables -> Bytes]
    /\ IsFiniteSet(DOMAIN tables)

(* Positions of the worker: in the ingestion handler, at a step of a       *)
(* handler or between two, delivering the files of a handler, and at the   *)
(* end of a run that stopped.                                              *)
Unread  == {"ingesting", "submitting", "loading", "saving"}
Working == Unread \cup
           {"describing", "intake", "designing", "DESIGN_REVIEW", "profiling",
            "querying", "building", "compiling", "testing", "READY_FOR_REVIEW",
            "pushing", "opening", "done"}
Delivering == {"writing", "registering"}
Stopped    == {"failed", "crashed"}

(* Records keep their fields; an upload under way is the newest.           *)
Shapes ==
    /\ worker = [at |-> worker.at, listed |-> worker.listed,
                 tables |-> worker.tables, queries |-> worker.queries,
                 draft |-> worker.draft, order |-> worker.order,
                 unregistered |-> worker.unregistered, then |-> worker.then]
    /\ worker.at \in Working \cup Delivering \cup Stopped
    /\ catalog = [exists |-> catalog.exists, tables |-> catalog.tables]
    /\ loader = [at |-> loader.at, todo |-> loader.todo, tables |-> loader.tables]
    /\ Bytewise(catalog.tables) /\ Bytewise(loader.tables)
    /\ Bytewise(worker.tables)
    /\ \/ sending = {}
       \/ \E n \in Names : sending = {n} /\ disk[n].upload = sent /\ sent > 0
    /\ \A n \in Names : disk[n].upload <= sent
    /\ preview => previews > 0

(* What the handlers deliver: the position to go on with, and the requests *)
(* left to send ...                                                        *)
Writings ==
   {<<"intake", <<<<"data_dictionary">>, <<"raw_tables">>, <<"requirements">>>>>>,
    <<"intake", <<<<"raw_tables">>, <<"requirements">>>>>>,
    <<"intake", <<<<"requirements">>>>>>,
    <<"designing", <<<<"intake_summary">>>>>>,
    <<"DESIGN_REVIEW", <<<<"design">>>>>>,
    <<"building", <<<<"profile_report", "profiling">>>>>>,
    <<"compiling", <<<<"model", "schema_yml">>>>>>,
    <<"READY_FOR_REVIEW", <<<<"qa_report">>>>>>,
    <<"done", <<<<"pr_summary">>>>>>}

(* ... or the files of the last request still to be registered, and the    *)
(* requests left.                                                          *)
Registrations ==
   {<<"intake", <<"data_dictionary">>, <<<<"raw_tables">>, <<"requirements">>>>>>,
    <<"intake", <<"raw_tables">>, <<<<"requirements">>>>>>,
    <<"intake", <<"requirements">>, <<>>>>,
    <<"designing", <<"intake_summary">>, <<>>>>,
    <<"DESIGN_REVIEW", <<"design">>, <<>>>>,
    <<"building", <<"profile_report", "profiling">>, <<>>>>,
    <<"building", <<"profiling">>, <<>>>>,
    <<"compiling", <<"model", "schema_yml">>, <<>>>>,
    <<"compiling", <<"schema_yml">>, <<>>>>,
    <<"testing", <<"compile_summary">>, <<>>>>,
    <<"READY_FOR_REVIEW", <<"run_results">>, <<<<"qa_report">>>>>>,
    <<"READY_FOR_REVIEW", <<"qa_report">>, <<>>>>,
    <<"done", <<"pr_summary">>, <<>>>>}

(* The handlers have an order, Rank of a position; Turn of a file is the   *)
(* first rank at which it is there.  A run with no upload never has the    *)
(* data dictionary or the raw tables.                                      *)
Rank == [ingesting |-> 0, submitting |-> 0, loading |-> 0, saving |-> 0,
         describing |-> 0, intake |-> 1, designing |-> 2, DESIGN_REVIEW |-> 3,
         profiling |-> 3, querying |-> 3, building |-> 4, compiling |-> 5,
         testing |-> 6, READY_FOR_REVIEW |-> 7, pushing |-> 7, opening |-> 7,
         done |-> 8]
Turn == [data_dictionary |-> 1, raw_tables |-> 1, requirements |-> 1,
         intake_summary |-> 2, design |-> 3, profile_report |-> 4,
         profiling |-> 4, model |-> 5, schema_yml |-> 5, compile_summary |-> 6,
         run_results |-> 7, qa_report |-> 7, pr_summary |-> 8]

Due(at, listed) ==
    {f \in Files : /\ Turn[f] <= Rank[at]
                   /\ f \in {"data_dictionary", "raw_tables"} => listed > 0}

(* The files of the requests that are left.                                *)
InRequests(order) == UNION {Elems(order[i]) : i \in DOMAIN order}

Left == InRequests(worker.order)

(* The agent that writes a file, ...                                       *)
Author == [data_dictionary |-> "ingesting", raw_tables |-> "ingesting",
           requirements |-> "ingesting", intake_summary |-> "intake",
           design |-> "designing", profile_report |-> "profiling",
           profiling |-> "profiling", model |-> "building",
           schema_yml |-> "building", compile_summary |-> "building",
           run_results |-> "testing", qa_report |-> "testing",
           pr_summary |-> "pushing"]

FilesOf(agent) == {f \in Files : Author[f] = agent}

(* ... the files a handler has still to draft at a position, ...           *)
Undrafted(at) ==
    IF at \in {"submitting", "loading", "saving", "describing"}
    THEN {"data_dictionary", "raw_tables", "requirements"}
    ELSE IF at = "querying" THEN {"profile_report", "profiling"}
    ELSE IF at = "compiling" THEN {"compile_summary"}
    ELSE IF at = "opening" THEN {"pr_summary"}
    ELSE {}

(* ... and with them those it has drafted and not sent.                    *)
Coming == IF worker.at \in Delivering THEN Left \cup Undrafted(worker.then)
          ELSE Undrafted(worker.at)

(* A delivery is one of a handler; what it still brings is not there, and  *)
(* what is there or still comes is of agents that have begun.              *)
Course ==
    /\ worker.at = "writing" => <<worker.then, worker.order>> \in Writings
    /\ worker.at = "registering" =>
          /\ <<worker.then, worker.unregistered, worker.order>>
                \in Registrations
          /\ Elems(worker.unregistered) \subseteq DOMAIN workspace \ Registered
    /\ worker.at \in Working => worker.order = <<>>
    /\ Coming \cap DOMAIN workspace = {}
    /\ \A f \in Coming \cup DOMAIN workspace : Author[f] \in sessions

(* Between two handlers the files due so far are all written and           *)
(* registered; while a handler delivers, those it has left are missing,    *)
(* and only those of the request being registered are written and not      *)
(* registered.                                                             *)
InDelivery ==
    /\ worker.at = "writing" =>
          /\ Left \subseteq Due(worker.then, worker.listed)
          /\ Registered = Due(worker.then, worker.listed) \ Left
          /\ DOMAIN workspace = Registered
    /\ worker.at = "registering" =>
          LET now == Elems(worker.unregistered)
          IN  /\ Left \cup now \subseteq Due(worker.then, worker.listed)
              /\ Registered = Due(worker.then, worker.listed) \ (Left \cup now)
              /\ DOMAIN workspace = Registered \cup now
    /\ worker.at \in Working =>
          /\ Registered = Due(worker.at, worker.listed)
          /\ DOMAIN workspace = Registered
    /\ worker.at \in Unread \cup {"describing"} => worker.then = "intake"

(* No upload has its schema yet.                                           *)
AllUnread == \A i \in DOMAIN rows : rows[i].schema = NoBytes

(* Tables the catalog holds with the same bytes.                           *)
Within(tables) ==
    \A t \in DOMAIN tables :
        t \in DOMAIN catalog.tables /\ tables[t] = catalog.tables[t]

(* Positions between the saving of the schemas and the requirements.       *)
Describing == \/ worker.at = "describing"
              \/ worker.at \in Delivering /\ worker.then = "intake"

(* The catalog is made by the one ingestion handler and written by the     *)
(* loader only, before any schema is saved, also when the worker has left  *)
(* it behind; what the loader answers is what the catalog holds.           *)
Loads ==
    /\ "ingesting" \notin sessions => ~catalog.exists /\ AllUnread
    /\ worker.at = "submitting" => ~catalog.exists
    /\ worker.at \in {"submitting", "loading", "saving"} => AllUnread
    /\ ~catalog.exists => catalog.tables = <<>>
    /\ worker.at = "loading" => loader.at = "running"
    /\ loader.at = "running" =>
          /\ worker.at \notin {"submitting", "saving"} /\ ~Describing
          /\ catalog.exists /\ AllUnread /\ Within(loader.tables)
    /\ worker.at = "saving" => Within(worker.tables)

(* The catalog is there if anything was listed, and not written any more   *)
(* when the first file is.                                                 *)
LoadsInTurn ==
    /\ worker.at \in {"ingesting", "submitting"} => ~catalog.exists
    /\ worker.at \in (Working \cup Delivering) \ {"ingesting", "submitting"} =>
          (catalog.exists <=> worker.listed > 0)
    /\ worker.at \in {"submitting", "loading", "saving", "describing"} =>
          worker.listed > 0
    /\ loader.at = "running" =>
          /\ worker.at \in {"loading", "failed", "crashed"}
          /\ DOMAIN workspace = {}

(* Every row of artifact names a file of its own, which is written.        *)
Once ==
    /\ IsFiniteSet(Registered) /\ Cardinality(Registered) = Len(artifacts)
    /\ Registered \subseteq DOMAIN workspace

(* A profile of what was listed, as ProfileMatchesData has it, with the    *)
(* tables of the catalog for those of the dictionary.                      *)
SoundProfile(p) ==
    IF worker.listed = 0 THEN p.source = "fixture"
    ELSE /\ p.source = "catalog" /\ p.tables \subseteq DOMAIN catalog.tables
         /\ \/ p.tables = DOMAIN catalog.tables
            \/ Cardinality(p.tables) = 3
            \/ p.tables = {} /\ faults > 0

(* What a file holds, and the draft it is written from: the dictionary     *)
(* lists the tables of the catalog, the reports say what the runner        *)
(* answered.                                                               *)
Contents ==
    /\ "data_dictionary" \in DOMAIN workspace =>
          workspace["data_dictionary"] = catalog.tables
    /\ worker.at \in Delivering /\ worker.then = "intake" /\ worker.listed > 0 =>
          worker.draft["data_dictionary"] = catalog.tables
    /\ "profile_report" \in DOMAIN workspace =>
          /\ SoundProfile(workspace["profile_report"])
          /\ worker.listed > 0 => "data_dictionary" \in DOMAIN workspace
    /\ worker.at = "querying" => SoundProfile(worker.draft["profile_report"])
    /\ worker.at \in Delivering /\ worker.then = "building" =>
          SoundProfile(worker.draft["profile_report"])
    /\ "compile_summary" \in DOMAIN workspace =>
          workspace["compile_summary"] = [errors |-> ~Compiles]
    /\ "qa_report" \in DOMAIN workspace =>
          /\ "run_results" \in DOMAIN workspace
          /\ workspace["qa_report"] = workspace["run_results"]
    /\ worker.at \in Delivering /\ worker.then = "READY_FOR_REVIEW" =>
          /\ "run_results" \in DOMAIN workspace
          /\ worker.draft["qa_report"] = workspace["run_results"]

Evidence == {"requirements", "design", "profile_report", "compile_summary",
             "run_results", "qa_report"}

(* The remote is reached by the one handler of the last agent.             *)
OnceRemote ==
    /\ remote \in {<<>>, <<"push">>, <<"push", "pull_request">>}
    /\ "pushing" \notin sessions => remote = <<>>
    /\ worker.at = "opening" => remote = <<"push">>

(* The remote is reached by a model that compiles, with the evidence of    *)
(* the handlers before registered.                                         *)
Published ==
    /\ "compile_summary" \in Registered
          \/ (worker.at = "registering" /\ worker.then = "testing") => Compiles
    /\ remote # <<>> => Evidence \subseteq Registered

StartsEarly == \E agent \in Agents : StartEarly(agent)

-----------------------------------------------------------------------------
(* Tables, sequences of files and of requests.                             *)

LEMMA PutTable ==
    ASSUME NEW table, NEW b \in Bytes, NEW tables, Bytewise(tables)
    PROVE  Bytewise(Put(tables, table, b))
<1>1. IsFiniteSet(DOMAIN tables \cup {table})
  BY FS_AddElement DEF Bytewise
<1>2. QED
  BY <1>1 DEF Bytewise, Put

LEMMA NoTables ==
    ASSUME NEW tables, Bytewise(tables)
    PROVE  tables = <<>> <=> DOMAIN tables = {}
  BY DEF Bytewise

LEMMA EmptyTables == Bytewise(<<>>)
  BY FS_EmptySet DEF Bytewise

LEMMA ElemsOf ==
    /\ \A a : Elems(<<a>>) = {a}
    /\ \A a, b : Elems(<<a, b>>) = {a, b}
  BY DEF Elems

LEMMA InRequestsOf ==
    /\ InRequests(<<>>) = {}
    /\ \A a : InRequests(<<<<a>>>>) = {a}
    /\ \A a, b : InRequests(<<<<a, b>>>>) = {a, b}
    /\ \A a, b : InRequests(<<<<a>>, <<b>>>>) = {a, b}
    /\ \A a, b, c : InRequests(<<<<a>>, <<b>>, <<c>>>>) = {a, b, c}
<1>1. InRequests(<<>>) = {}
  BY DEF InRequests
<1>2. ASSUME NEW o, NEW c, o = <<c>> PROVE InRequests(o) = Elems(c)
  BY <1>2 DEF InRequests
<1>3. ASSUME NEW o, NEW c, NEW d, o = <<c, d>>
      PROVE  InRequests(o) = Elems(c) \cup Elems(d)
  BY <1>3 DEF InRequests
<1>4. ASSUME NEW o, NEW c, NEW d, NEW e, o = <<c, d, e>>
      PROVE  InRequests(o) = Elems(c) \cup Elems(d) \cup Elems(e)
  BY <1>4 DEF InRequests
<1>5. QED
  BY <1>1, <1>2, <1>3, <1>4, ElemsOf

(* The sequences a handler walks through are short: what is their first    *)
(* element, and what is left.                                              *)
LEMMA Takes ==
    /\ \A a : Head(<<a>>) = a /\ Tail(<<a>>) = <<>> /\ Len(<<a>>) = 1
    /\ \A a, b : /\ Head(<<a, b>>) = a /\ Tail(<<a, b>>) = <<b>>
                 /\ Len(<<a, b>>) = 2
    /\ \A a, b, c : /\ Head(<<a, b, c>>) = a /\ Tail(<<a, b, c>>) = <<b, c>>
                    /\ Len(<<a, b, c>>) = 3
  OBVIOUS

LEMMA AppendToOne == \A a, b : Append(<<a>>, b) = <<a, b>>
<1> TAKE a, b
<1> DEFINE S == {a, b}
<1>1. <<a>> \in Seq(S) /\ <<a, b>> \in Seq(S) /\ b \in S /\ Len(<<a>>) = 1
  OBVIOUS
<1>2. /\ Append(<<a>>, b) \in Seq(S) /\ Len(Append(<<a>>, b)) = 2
      /\ Append(<<a>>, b)[1] = a /\ Append(<<a>>, b)[2] = b
  BY <1>1
<1>3. Len(<<a, b>>) = 2 /\ <<a, b>>[1] = a /\ <<a, b>>[2] = b
  OBVIOUS
<1>4. \A i \in 1..2 : Append(<<a>>, b)[i] = <<a, b>>[i]
  BY <1>2, <1>3
<1> HIDE DEF S
<1>5. QED
  BY <1>1, <1>2, <1>3, <1>4, SeqEqual

(* Each handler adds its files to those due before it.                     *)
LEMMA NextDue ==
    ASSUME NEW listed \in Nat
    PROVE  /\ Due("ingesting", listed) = {} /\ Due("submitting", listed) = {}
           /\ Due("loading", listed) = {} /\ Due("saving", listed) = {}
           /\ Due("describing", listed) = {}
           /\ listed > 0 => Due("intake", listed) =
                 {"data_dictionary", "raw_tables", "requirements"}
           /\ listed = 0 => Due("intake", listed) = {"requirements"}
           /\ "intake_summary" \notin Due("intake", listed)
           /\ Due("designing", listed) =
                 Due("intake", listed) \cup {"intake_summary"}
           /\ "design" \notin Due("designing", listed)
           /\ Due("DESIGN_REVIEW", listed) =
                 Due("designing", listed) \cup {"design"}
           /\ Due("profiling", listed) = Due("DESIGN_REVIEW", listed)
           /\ Due("querying", listed) = Due("DESIGN_REVIEW", listed)
           /\ {"profile_report", "profiling"} \cap Due("querying", listed) = {}
           /\ Due("building", listed) =
                 Due("querying", listed) \cup {"profile_report", "profiling"}
           /\ {"model", "schema_yml"} \cap Due("building", listed) = {}
           /\ Due("compiling", listed) =
                 Due("building", listed) \cup {"model", "schema_yml"}
           /\ "compile_summary" \notin Due("compiling", listed)
           /\ Due("testing", listed) =
                 Due("compiling", listed) \cup {"compile_summary"}
           /\ {"run_results", "qa_report"} \cap Due("testing", listed) = {}
           /\ Due("READY_FOR_REVIEW", listed) =
                 Due("testing", listed) \cup {"run_results", "qa_report"}
           /\ Due("pushing", listed) = Due("READY_FOR_REVIEW", listed)
           /\ Due("opening", listed) = Due("READY_FOR_REVIEW", listed)
           /\ "pr_summary" \notin Due("opening", listed)
           /\ Due("done", listed) = Due("opening", listed) \cup {"pr_summary"}
  BY DEF Due, Files, Rank, Turn

-----------------------------------------------------------------------------
(* Delivery: the files of a run, step by step.                             *)

LEMMA RegisteredOf ==
    ASSUME artifacts \in Seq(Files), NEW f,
           artifacts' = Append(artifacts, f)
    PROVE  Registered' = Registered \cup {f}
<1>1. /\ DOMAIN artifacts' = 1..Len(artifacts) + 1
      /\ artifacts'[Len(artifacts) + 1] = f
      /\ \A i \in 1..Len(artifacts) : artifacts'[i] = artifacts[i]
      /\ DOMAIN artifacts = 1..Len(artifacts)
      /\ Len(artifacts) \in Nat
  OBVIOUS
<1>2. QED
  BY <1>1 DEF Registered

(* To send the first request leaves its files to be registered; the others *)
(* and what is drafted later are different files.                          *)
LEMMA Requested ==
    ASSUME NEW then, NEW order, <<then, order>> \in Writings
    PROVE  /\ <<then, Head(order), Tail(order)>> \in Registrations
           /\ InRequests(order) =
                 InRequests(Tail(order)) \cup Elems(Head(order))
           /\ Elems(Head(order)) \cap InRequests(Tail(order)) = {}
           /\ Elems(Head(order)) \cap Undrafted(then) = {}
<1>1. CASE /\ then = "intake"
          /\ order = <<<<"data_dictionary">>, <<"raw_tables">>, <<"requirements">>>>
  BY <1>1, Takes, InRequestsOf, ElemsOf DEF Registrations, Undrafted
<1>2. CASE /\ then = "intake"
          /\ order = <<<<"raw_tables">>, <<"requirements">>>>
  BY <1>2, Takes, InRequestsOf, ElemsOf DEF Registrations, Undrafted
<1>3. CASE /\ then = "intake"
          /\ order = <<<<"requirements">>>>
  BY <1>3, Takes, InRequestsOf, ElemsOf DEF Registrations, Undrafted
<1>4. CASE /\ then = "designing"
          /\ order = <<<<"intake_summary">>>>
  BY <1>4, Takes, InRequestsOf, ElemsOf DEF Registrations, Undrafted
<1>5. CASE /\ then = "DESIGN_REVIEW"
          /\ order = <<<<"design">>>>
  BY <1>5, Takes, InRequestsOf, ElemsOf DEF Registrations, Undrafted
<1>6. CASE /\ then = "building"
          /\ order = <<<<"profile_report", "profiling">>>>
  BY <1>6, Takes, InRequestsOf, ElemsOf DEF Registrations, Undrafted
<1>7. CASE /\ then = "compiling"
          /\ order = <<<<"model", "schema_yml">>>>
  BY <1>7, Takes, InRequestsOf, ElemsOf DEF Registrations, Undrafted
<1>8. CASE /\ then = "READY_FOR_REVIEW"
          /\ order = <<<<"qa_report">>>>
  BY <1>8, Takes, InRequestsOf, ElemsOf DEF Registrations, Undrafted
<1>9. CASE /\ then = "done"
          /\ order = <<<<"pr_summary">>>>
  BY <1>9, Takes, InRequestsOf, ElemsOf DEF Registrations, Undrafted
<1>10. QED
  BY <1>1, <1>2, <1>3, <1>4, <1>5, <1>6, <1>7, <1>8, <1>9 DEF Writings

(* To register a file leaves the others, the next request, or nothing; no  *)
(* file is among those left twice.                                         *)
LEMMA Remaining ==
    ASSUME NEW then, NEW now, NEW order, <<then, now, order>> \in Registrations
    PROVE  /\ then \in Working /\ then \notin Unread \cup {"describing"}
           /\ Elems(now) = {Head(now)} \cup Elems(Tail(now))
           /\ Head(now) \notin Elems(Tail(now)) \cup InRequests(order)
           /\ Len(now) > 1 => <<then, Tail(now), order>> \in Registrations
           /\ ~(Len(now) > 1) => Elems(Tail(now)) = {}
           /\ ~(Len(now) > 1) /\ order # <<>> => <<then, order>> \in Writings
<1> USE DEF Working, Unread
<1>1. Elems(<<>>) = {}
  BY DEF Elems
<1>2. CASE /\ then = "intake" /\ now = <<"data_dictionary">>
          /\ order = <<<<"raw_tables">>, <<"requirements">>>>
  BY <1>1, <1>2, Takes, InRequestsOf, ElemsOf DEF Registrations, Writings
<1>3. CASE /\ then = "intake" /\ now = <<"raw_tables">>
          /\ order = <<<<"requirements">>>>
  BY <1>1, <1>3, Takes, InRequestsOf, ElemsOf DEF Registrations, Writings
<1>4. CASE /\ then = "intake" /\ now = <<"requirements">>
          /\ order = <<>>
  BY <1>1, <1>4, Takes, InRequestsOf, ElemsOf DEF Registrations, Writings
<1>5. CASE /\ then = "designing" /\ now = <<"intake_summary">>
          /\ order = <<>>
  BY <1>1, <1>5, Takes, InRequestsOf, ElemsOf DEF Registrations, Writings
<1>6. CASE /\ then = "DESIGN_REVIEW" /\ now = <<"design">>
          /\ order = <<>>
  BY <1>1, <1>6, Takes, InRequestsOf, ElemsOf DEF Registrations, Writings
<1>7. CASE /\ then = "building" /\ now = <<"profile_report", "profiling">>
          /\ order = <<>>
  BY <1>1, <1>7, Takes, InRequestsOf, ElemsOf DEF Registrations, Writings
<1>8. CASE /\ then = "building" /\ now = <<"profiling">>
          /\ order = <<>>
  BY <1>1, <1>8, Takes, InRequestsOf, ElemsOf DEF Registrations, Writings
<1>9. CASE /\ then = "compiling" /\ now = <<"model", "schema_yml">>
          /\ order = <<>>
  BY <1>1, <1>9, Takes, InRequestsOf, ElemsOf DEF Registrations, Writings
<1>10. CASE /\ then = "compiling" /\ now = <<"schema_yml">>
          /\ order = <<>>
  BY <1>1, <1>10, Takes, InRequestsOf, ElemsOf DEF Registrations, Writings
<1>11. CASE /\ then = "testing" /\ now = <<"compile_summary">>
          /\ order = <<>>
  BY <1>1, <1>11, Takes, InRequestsOf, ElemsOf DEF Registrations, Writings
<1>12. CASE /\ then = "READY_FOR_REVIEW" /\ now = <<"run_results">>
          /\ order = <<<<"qa_report">>>>
  BY <1>1, <1>12, Takes, InRequestsOf, ElemsOf DEF Registrations, Writings
<1>13. CASE /\ then = "READY_FOR_REVIEW" /\ now = <<"qa_report">>
          /\ order = <<>>
  BY <1>1, <1>13, Takes, InRequestsOf, ElemsOf DEF Registrations, Writings
<1>14. CASE /\ then = "done" /\ now = <<"pr_summary">>
          /\ order = <<>>
  BY <1>1, <1>14, Takes, InRequestsOf, ElemsOf DEF Registrations, Writings
<1>15. QED
  BY <1>2, <1>3, <1>4, <1>5, <1>6, <1>7, <1>8, <1>9, <1>10, <1>11, <1>12,
     <1>13, <1>14
  DEF Registrations

(* Steps that do not touch the run.                                        *)
WorkspaceFrame == UNCHANGED <<workspace, artifacts, worker>>

LEMMA FrameKeepsDelivery ==
    ASSUME InDelivery, WorkspaceFrame
    PROVE  InDelivery'
  BY DEF InDelivery, WorkspaceFrame, Registered, Left

(* WriteFiles and RegisterArtifact, the two steps of a delivery.           *)
LEMMA WriteKeepsDelivery ==
    ASSUME TypeOK, Shapes, Course, InDelivery, WriteFiles
    PROVE  InDelivery'
<1> DEFINE now == Request
<1>1. /\ worker.at = "writing" /\ worker'.at = "registering"
      /\ worker'.unregistered = Request /\ worker'.order = Tail(worker.order)
      /\ worker'.then = worker.then /\ worker'.listed = worker.listed
  BY DEF WriteFiles, Shapes
<1>2. /\ Registered' = Registered
      /\ DOMAIN workspace' = DOMAIN workspace \cup Elems(Request)
  BY DEF WriteFiles, Registered, Written, Elems
<1>3. /\ <<worker.then, Request, Tail(worker.order)>> \in Registrations
      /\ InRequests(worker.order) =
            InRequests(Tail(worker.order)) \cup Elems(Request)
  BY <1>1, Requested DEF Course, Request
<1>4. /\ "registering" \notin Working /\ "registering" # "writing"
      /\ "registering" \notin Unread \cup {"describing"}
  BY DEF Working, Unread
<1>5. QED
  BY <1>1, <1>2, <1>3, <1>4 DEF InDelivery, Left

LEMMA RegisterKeepsDelivery ==
    ASSUME TypeOK, Shapes, Course, InDelivery, RegisterArtifact
    PROVE  InDelivery'
<1> DEFINE now  == worker.unregistered
           todo == worker.order
           then == worker.then
           due  == Due(worker.then, worker.listed)
<1>1. /\ worker.at = "registering"
      /\ worker'.unregistered = Tail(now) /\ worker'.order = todo
      /\ worker'.then = then /\ worker'.listed = worker.listed
      /\ worker'.at = IF Len(now) > 1 THEN "registering"
                      ELSE IF todo # <<>> THEN "writing" ELSE then
  BY DEF RegisterArtifact, Shapes
<1>2. /\ Registered' = Registered \cup {Head(now)}
      /\ DOMAIN workspace' = DOMAIN workspace
  BY RegisteredOf DEF RegisterArtifact, TypeOK
<1>3. /\ <<then, now, todo>> \in Registrations
      /\ InRequests(todo) \cup Elems(now) \subseteq due
      /\ Registered = due \ (InRequests(todo) \cup Elems(now))
      /\ DOMAIN workspace = Registered \cup Elems(now)
  BY <1>1 DEF Course, InDelivery, Left
<1>4. /\ then \in Working
      /\ then \notin Unread \cup {"describing"}
      /\ Elems(now) = {Head(now)} \cup Elems(Tail(now))
      /\ Head(now) \notin Elems(Tail(now)) \cup InRequests(todo)
      /\ Len(now) > 1 => <<then, Tail(now), todo>> \in Registrations
      /\ ~(Len(now) > 1) => Elems(Tail(now)) = {}
      /\ ~(Len(now) > 1) /\ todo # <<>> => <<then, todo>> \in Writings
      /\ InRequests(<<>>) = {}
  BY <1>3, Remaining, InRequestsOf
<1>5. CASE Len(now) > 1
  BY <1>1, <1>2, <1>3, <1>4, <1>5 DEF InDelivery, Left, Working, Unread
<1>6. CASE ~(Len(now) > 1) /\ todo # <<>>
  BY <1>1, <1>2, <1>3, <1>4, <1>6 DEF InDelivery, Left, Working, Unread
<1>7. CASE ~(Len(now) > 1) /\ todo = <<>>
  <2>1. Registered' = due /\ DOMAIN workspace' = due
    BY <1>2, <1>3, <1>4, <1>7
  <2>2. QED
    BY <1>1, <1>4, <1>7, <2>1 DEF InDelivery, Left, Working, Unread
<1>8. QED
  BY <1>5, <1>6, <1>7

(* The API leaves everything but the uploads and the previews alone.       *)
ApiFrame ==
    UNCHANGED <<catalog, loader, workspace, artifacts, worker, slug, remote>>

LEMMA ApiKeepsRun == ApiStep /\ UNCHANGED <<slug, remote>> => ApiFrame
  BY DEF ApiStep, BeginUpload, EndWrite, InsertRow, OpenPreview, ClosePreview,
         ApiCrash, catalogVars, runVars, uploadVars, ApiFrame

(* So does a start before the turn, but for the worker.                    *)
EarlyFrame ==
    UNCHANGED <<uploadVars, catalogVars, workspace, artifacts, faults, slug,
                remote, sessions>>

LEMMA StartKeepsRun == StartsEarly => EarlyFrame
  BY DEF StartsEarly, StartEarly, EarlyFrame

(* The steps there are.                                                    *)
LEMMA RunSteps ==
    ASSUME [RunStep]_vars
    PROVE  \/ (ApiStep /\ UNCHANGED <<slug, remote>>) \/ UNCHANGED vars
           \/ RunnerStep \/ DataStep \/ AgentStep
  BY DEF RunStep, IngestionNext

LEMMA Steps ==
    ASSUME [Next]_vars
    PROVE  StartsEarly \/ [RunStep]_vars
  BY DEF Next, StartsEarly

(* What a stopped run has written is not looked at any more.               *)
LEMMA StopKeepsDelivery ==
    ASSUME worker'.at \in Stopped
    PROVE  InDelivery'
  BY DEF InDelivery, Stopped, Working, Unread

(* A step to a position of the same rank, and the begin of a delivery.     *)
LEMMA GotoKeepsDelivery ==
    ASSUME TypeOK, Shapes, InDelivery, NEW at \in Working, worker.at \in Working,
           Goto(at), Due(at, worker.listed) = Due(worker.at, worker.listed),
           at \in Unread \cup {"describing"} =>
                worker.at \in Unread \cup {"describing"},
           UNCHANGED <<workspace, artifacts>>
    PROVE  InDelivery'
<1>1. worker' = [worker EXCEPT !.at = at] /\ at \notin Delivering
  BY DEF Goto, Working, Delivering, Unread
<1>2. /\ worker'.at = at /\ worker'.order = worker.order
      /\ worker'.listed = worker.listed /\ worker'.then = worker.then
  BY <1>1 DEF Shapes
<1>3. Registered' = Registered
  BY DEF Registered
<1>4. QED
  BY <1>1, <1>2, <1>3 DEF InDelivery, Delivering

LEMMA DeliverKeepsDelivery ==
    ASSUME TypeOK, Shapes, InDelivery, NEW draft, NEW order, NEW then,
           worker.at \in Working, Deliver(draft, order, then),
           Due(then, worker.listed) =
               Due(worker.at, worker.listed) \cup InRequests(order),
           InRequests(order) \cap Due(worker.at, worker.listed) = {},
           UNCHANGED <<workspace, artifacts>>
    PROVE  InDelivery'
<1>1. /\ worker'.at = "writing" /\ worker'.order = order
      /\ worker'.listed = worker.listed /\ worker'.then = then
  BY DEF Deliver, Shapes
<1>2. Registered' = Registered /\ DOMAIN workspace' = DOMAIN workspace
  BY DEF Registered
<1>3. "writing" \notin Working \cup {"describing", "registering"}
  BY DEF Working, Unread
<1>4. QED
  BY <1>1, <1>2, <1>3 DEF InDelivery, Left, Working

LEMMA ListedRows ==
    ASSUME TypeOK
    PROVE  /\ Len(rows) \in Nat /\ worker.listed \in 0..Len(rows)
           /\ DOMAIN rows = 1..Len(rows) /\ worker.listed \in Nat
           /\ rows = <<>> => Len(rows) = 0
<1>1. /\ rows \in Seq([name : Names, upload : 1..sent, schema : Bytes])
      /\ worker.listed \in 0..Len(rows)
  BY DEF TypeOK
<1>2. QED
  BY <1>1

(* Every step but a start before the turn keeps the files in order.        *)
LEMMA DeliveryStep ==
    TypeOK /\ Shapes /\ Course /\ InDelivery /\ LoadsInTurn /\ [RunStep]_vars
    => InDelivery'
<1> SUFFICES ASSUME TypeOK, Shapes, Course, InDelivery, LoadsInTurn,
                    [RunStep]_vars
             PROVE  InDelivery'
  OBVIOUS
<1> DEFINE listed == worker.listed
<1>0. listed \in Nat
  BY ListedRows
<1>1. CASE ApiFrame \/ LoadFile \/ UNCHANGED vars
  BY <1>1, FrameKeepsDelivery
  DEF ApiFrame, LoadFile, vars, runVars, WorkspaceFrame
<1>2. CASE EndLoad
  <2>1. CASE worker.at = "loading"
    <3>1. /\ worker'.at = "saving" /\ worker'.order = worker.order
          /\ worker'.listed = listed /\ worker'.then = worker.then
          /\ UNCHANGED <<workspace, artifacts>>
      BY <1>2, <2>1 DEF EndLoad, Shapes
    <3>2. Due("saving", listed) = Due("loading", listed)
      BY <1>0, NextDue
    <3>3. QED
      BY <2>1, <3>1, <3>2 DEF InDelivery, Registered, Working, Unread
  <2>2. CASE worker.at # "loading"
    BY <1>2, <2>2, FrameKeepsDelivery DEF EndLoad, WorkspaceFrame
  <2>3. QED
    BY <2>1, <2>2
<1>3. CASE ListUploads
  <2>1. CASE rows # <<>>
    <3>1. /\ worker'.at = "submitting" /\ worker'.order = worker.order
          /\ worker'.then = worker.then
          /\ worker'.listed = Len(rows) /\ worker.at = "ingesting"
          /\ UNCHANGED <<workspace, artifacts>>
      BY <1>3, <2>1 DEF ListUploads, Shapes
    <3>2. Due("submitting", Len(rows)) = {} /\ Due("ingesting", listed) = {}
      BY <1>0, ListedRows, NextDue
    <3>3. QED
      BY <3>1, <3>2 DEF InDelivery, Registered, Working, Unread
  <2>2. CASE rows = <<>>
    <3> DEFINE order == <<<<"requirements">>>>
    <3>1. /\ worker.at = "ingesting" /\ worker'.at = "writing"
          /\ worker'.order = order
          /\ worker'.listed = listed /\ worker'.then = "intake"
          /\ UNCHANGED <<workspace, artifacts>>
      BY <1>3, <2>2 DEF ListUploads, Shapes
    <3>2. listed = 0
      BY <2>2, ListedRows
    <3>3. Registered = {}
      BY <1>0, <3>1, NextDue DEF InDelivery, Working, Unread
    <3>4. InRequests(order) = {"requirements"}
      BY InRequestsOf
    <3>5. Due("intake", 0) = {"requirements"}
      BY NextDue
    <3>6. "writing" \notin Working \cup {"describing", "registering"}
      BY DEF Working, Unread
    <3>7. Registered' = Registered /\ DOMAIN workspace' = DOMAIN workspace
      BY <3>1 DEF Registered
    <3>8. DOMAIN workspace = Registered
      BY <3>1 DEF InDelivery, Working, Unread
    <3>9. /\ worker'.then = "intake" /\ Left' = {"requirements"}
          /\ Due(worker'.then, worker'.listed) = {"requirements"}
      BY <3>1, <3>2, <3>4, <3>5 DEF Left
    <3> HIDE DEF order
    <3>10. QED
      BY <3>1, <3>3, <3>4, <3>6, <3>7, <3>8, <3>9 DEF InDelivery, Working
  <2>3. QED
    BY <2>1, <2>2
<1>4. CASE BeginLoad
  BY <1>0, <1>4, NextDue, GotoKeepsDelivery
  DEF BeginLoad, Working, Unread
<1>5. CASE SaveSchemas
  BY <1>0, <1>5, NextDue, GotoKeepsDelivery
  DEF SaveSchemas, Working, Unread
<1>6. CASE GetDataDictionary
  <2> DEFINE order == <<<<"data_dictionary">>, <<"raw_tables">>,
                        <<"requirements">>>>
  <2>1. /\ worker.at = "describing" /\ worker'.at = "writing"
        /\ worker'.order = order
        /\ worker'.listed = listed /\ worker'.then = "intake"
        /\ UNCHANGED <<workspace, artifacts>>
    BY <1>6 DEF GetDataDictionary, Shapes
  <2>2. InRequests(order) = {"data_dictionary", "raw_tables", "requirements"}
    BY InRequestsOf
  <2>3. Registered' = Registered /\ DOMAIN workspace' = DOMAIN workspace
    BY <2>1 DEF Registered
  <2>4. "writing" \notin Working \cup {"describing", "registering"}
    BY DEF Working, Unread
  <2>5. /\ DOMAIN workspace = Registered
        /\ Registered = Due("describing", listed)
    BY <2>1 DEF InDelivery, Working, Unread
  <2>6. /\ Due("describing", listed) = {}
        /\ Due("intake", listed) = InRequests(order)
    BY <1>0, <2>1, <2>2, NextDue DEF LoadsInTurn
  <2> HIDE DEF order
  <2>7. QED
    BY <2>1, <2>2, <2>3, <2>4, <2>5, <2>6 DEF InDelivery, Left, Working
<1>7. CASE PlanProfile
  <2>1. /\ worker.at = "profiling" /\ worker'.at = "querying"
        /\ worker'.order = worker.order /\ worker'.then = worker.then
        /\ worker'.listed = listed /\ UNCHANGED <<workspace, artifacts>>
    BY <1>7 DEF PlanProfile, Shapes
  <2>2. Due("profiling", listed) = Due("querying", listed)
    BY <1>0, NextDue
  <2>3. QED
    BY <2>1, <2>2 DEF InDelivery, Registered, Working, Unread
<1>8. CASE RunQuery
  <2>0. worker.at = "querying" /\ UNCHANGED <<workspace, artifacts>>
    BY <1>8 DEF RunQuery
  <2>1. CASE worker'.at = "failed"
    BY <2>1, StopKeepsDelivery DEF Stopped
  <2>2. CASE worker' = [worker EXCEPT !.queries = @ - 1]
    <3>1. /\ worker'.at = worker.at /\ worker'.order = worker.order
          /\ worker'.listed = listed /\ worker'.then = worker.then
      BY <2>2 DEF Shapes
    <3>2. QED
      BY <2>0, <3>1 DEF InDelivery, Registered, Working, Unread
  <2>3. CASE worker' = [worker EXCEPT !.at = "writing", !.queries = 0,
                              !.order = <<<<"profile_report", "profiling">>>>,
                              !.then = "building"]
    <3> DEFINE order == <<<<"profile_report", "profiling">>>>
    <3>1. /\ worker'.at = "writing" /\ worker'.order = order
          /\ worker'.listed = listed /\ worker'.then = "building"
      BY <2>3 DEF Shapes
    <3>2. InRequests(order) = {"profile_report", "profiling"}
      BY InRequestsOf
    <3>3. Registered' = Registered /\ DOMAIN workspace' = DOMAIN workspace
      BY <2>0 DEF Registered
    <3>4. "writing" \notin Working \cup {"describing", "registering"}
      BY DEF Working, Unread
    <3>5. /\ DOMAIN workspace = Registered
          /\ Registered = Due("querying", listed)
      BY <2>0 DEF InDelivery, Working, Unread
    <3>6. /\ Due("building", listed) =
                Due("querying", listed) \cup InRequests(order)
          /\ Due("querying", listed) \cap InRequests(order) = {}
      BY <1>0, <3>2, NextDue
    <3> HIDE DEF order
    <3>7. QED
      BY <3>1, <3>2, <3>3, <3>4, <3>5, <3>6 DEF InDelivery, Left, Working
  <2>4. QED
    BY <1>8, <2>1, <2>2, <2>3 DEF RunQuery, Shapes
<1>9. CASE WriteFiles
  BY <1>9, WriteKeepsDelivery
<1>10. CASE RegisterArtifact
  BY <1>10, RegisterKeepsDelivery
<1>11. CASE \/ \E at \in {"submitting", "loading", "describing", "querying"} :
                  CallFails(at)
            \/ WriteFails \/ WorkerCrash \/ JobLost
  <2>1. Goto("failed") \/ Goto("crashed")
    BY <1>11 DEF CallFails, WriteFails, WorkerCrash, JobLost
  <2>2. worker'.at \in Stopped
    BY <2>1 DEF Goto, Shapes, Stopped
  <2>3. QED
    BY <2>2, StopKeepsDelivery
<1>12. CASE RunIntake
  BY <1>0, <1>12, NextDue, InRequestsOf, DeliverKeepsDelivery
  DEF RunIntake, Working
<1>13. CASE RunDesign
  BY <1>0, <1>13, NextDue, InRequestsOf, DeliverKeepsDelivery
  DEF RunDesign, Working
<1>14. CASE ApproveGate
  <2>1. \/ worker.at = "DESIGN_REVIEW" /\ Goto("profiling")
        \/ worker.at = "READY_FOR_REVIEW" /\ Goto("pushing")
    BY <1>14 DEF ApproveGate, Behind
  <2>2. UNCHANGED <<workspace, artifacts>>
    BY <1>14 DEF ApproveGate
  <2>3. QED
    BY <1>0, <2>1, <2>2, NextDue, GotoKeepsDelivery DEF Working, Unread
<1>15. CASE RunBuild
  BY <1>0, <1>15, NextDue, InRequestsOf, DeliverKeepsDelivery
  DEF RunBuild, Working
<1>16. CASE Compile
  <2>1. CASE ~Compiles
    BY <1>16, <2>1, StopKeepsDelivery DEF Compile, Stopped, Shapes
  <2>2. CASE Compiles
    <3>1. /\ worker.at = "compiling" /\ worker'.at = "registering"
          /\ worker'.unregistered = <<"compile_summary">>
          /\ worker'.order = worker.order /\ worker'.then = "testing"
          /\ worker'.listed = listed
          /\ UNCHANGED artifacts
      BY <1>16, <2>2 DEF Compile, Shapes
    <3>2. /\ DOMAIN workspace' = DOMAIN workspace \cup {"compile_summary"}
          /\ Registered' = Registered
      BY <1>16 DEF Compile, Registered, WithFile, Put
    <3>3. /\ worker.order = <<>> /\ Registered = Due("compiling", listed)
          /\ DOMAIN workspace = Registered
      BY <3>1 DEF Course, InDelivery, Working, Unread
    <3>4. /\ InRequests(<<>>) = {}
          /\ Elems(<<"compile_summary">>) = {"compile_summary"}
      BY InRequestsOf, ElemsOf
    <3>5. "registering" \notin Working \cup {"describing", "writing"}
      BY DEF Working, Unread
    <3>6. /\ Due("testing", listed) =
                Due("compiling", listed) \cup {"compile_summary"}
          /\ "compile_summary" \notin Due("compiling", listed)
      BY <1>0, NextDue
    <3>7. QED
      BY <3>1, <3>2, <3>3, <3>4, <3>5, <3>6 DEF InDelivery, Left, Working
  <2>3. QED
    BY <2>1, <2>2
<1>17. CASE Test
  <2>1. /\ worker.at = "testing" /\ worker'.at = "registering"
        /\ worker'.unregistered = <<"run_results">>
        /\ worker'.order = <<<<"qa_report">>>>
        /\ worker'.then = "READY_FOR_REVIEW" /\ worker'.listed = listed
        /\ UNCHANGED artifacts
    BY <1>17 DEF Test, Shapes
  <2>2. /\ DOMAIN workspace' = DOMAIN workspace \cup {"run_results"}
        /\ Registered' = Registered
    BY <1>17 DEF Test, Registered, WithFile, Put
  <2>3. Registered = Due("testing", listed) /\ DOMAIN workspace = Registered
    BY <2>1 DEF InDelivery, Working, Unread
  <2>4. /\ InRequests(<<<<"qa_report">>>>) = {"qa_report"}
        /\ Elems(<<"run_results">>) = {"run_results"}
    BY InRequestsOf, ElemsOf
  <2>5. "registering" \notin Working \cup {"describing", "writing"}
    BY DEF Working, Unread
  <2>6. /\ Due("READY_FOR_REVIEW", listed) =
              Due("testing", listed) \cup {"run_results", "qa_report"}
        /\ {"run_results", "qa_report"} \cap Due("testing", listed) = {}
    BY <1>0, NextDue
  <2>7. QED
    BY <2>1, <2>2, <2>3, <2>4, <2>5, <2>6 DEF InDelivery, Left, Working
<1>18. CASE Push
  BY <1>0, <1>18, NextDue, GotoKeepsDelivery DEF Push, Working, Unread
<1>19. CASE OpenPullRequest
  <2>1. InRequests(<<<<"pr_summary">>>>) = {"pr_summary"}
    BY InRequestsOf
  <2>2. /\ Due("done", listed) = Due("opening", listed) \cup {"pr_summary"}
        /\ Due("opening", listed) \cap {"pr_summary"} = {}
    BY <1>0, NextDue
  <2>3. worker.at = "opening" /\ "opening" \in Working
    BY <1>19 DEF OpenPullRequest, Working
  <2>4. QED
    BY <1>19, <2>1, <2>2, <2>3, DeliverKeepsDelivery DEF OpenPullRequest
<1>20. QED
  BY RunSteps, ApiKeepsRun, <1>1, <1>2, <1>3, <1>4, <1>5, <1>6, <1>7, <1>8, <1>9, <1>10,
     <1>11, <1>12, <1>13, <1>14, <1>15, <1>16, <1>17, <1>18, <1>19
  DEF RunnerStep, DataStep, AgentStep

-----------------------------------------------------------------------------
(* Types.  TypeOK and Shapes together, part by part.                       *)

Row(bound) == [name : Names, upload : 1..bound, schema : Bytes]

UploadTypes ==
    /\ disk \in [Names -> Bytes]
    /\ sent \in 0..MaxUploads /\ good \subseteq 1..sent
    /\ rows \in Seq(Row(sent))
    /\ \/ sending = {}
       \/ \E n \in Names : sending = {n} /\ disk[n].upload = sent /\ sent > 0
    /\ \A n \in Names : disk[n].upload <= sent

(* A file that is finished still holds the bytes of its upload.            *)
LEMMA WholeBytes ==
    ASSUME NEW b \in Bytes
    PROVE  [b EXCEPT !.whole = TRUE] = [upload |-> b.upload, whole |-> TRUE]
<1>1. b = [upload |-> b.upload, whole |-> b.whole]
  BY DEF Bytes
<1>2. \A w : [b EXCEPT !.whole = w] = [upload |-> b.upload, whole |-> w]
  BY <1>1
<1>3. QED
  BY <1>2

LEMMA UploadTypesStep ==
    TypeOK /\ Shapes /\ [Next]_vars => UploadTypes'
<1> SUFFICES ASSUME TypeOK, Shapes, [Next]_vars PROVE UploadTypes'
  OBVIOUS
<1>0. UploadTypes /\ MaxUploads \in Nat /\ sent \in Nat
  <2>1. sent \in 0..MaxUploads /\ MaxUploads \in Nat
    BY IngestionAssumption DEF TypeOK
  <2>2. disk \in [Names -> Bytes] /\ good \subseteq 1..sent
    BY DEF TypeOK
  <2>3. rows \in Seq(Row(sent))
    BY DEF TypeOK, Row
  <2>4. /\ \/ sending = {}
           \/ \E n \in Names : sending = {n} /\ disk[n].upload = sent /\ sent > 0
        /\ \A n \in Names : disk[n].upload <= sent
    BY DEF Shapes
  <2>5. QED
    BY <2>1, <2>2, <2>3, <2>4 DEF UploadTypes
<1>1. ASSUME NEW n \in Names, NEW parses \in BOOLEAN, BeginUpload(n, parses)
      PROVE  UploadTypes'
  <2>1. /\ sent' = sent + 1 /\ sending' = {n}
        /\ disk' = [disk EXCEPT ![n] = [upload |-> sent + 1, whole |-> FALSE]]
        /\ good' \subseteq good \cup {sent + 1} /\ rows' = rows
        /\ sent < MaxUploads
    BY <1>1 DEF BeginUpload
  <2>2. rows' \in Seq(Row(sent'))
    <3>1. Row(sent) \subseteq Row(sent')
      <4>1. 1..sent \subseteq 1..sent'
        BY <1>0, <2>1
      <4>2. QED
        BY <4>1 DEF Row
    <3>2. QED
      BY <1>0, <2>1, <3>1 DEF UploadTypes
  <2>3. [upload |-> sent + 1, whole |-> FALSE] \in Bytes
    BY <1>0, <2>1 DEF Bytes
  <2>4. \A m \in Names : disk[m].upload \in Nat
    BY <1>0 DEF UploadTypes, Bytes
  <2>5. QED
    BY <1>0, <2>1, <2>2, <2>3, <2>4 DEF UploadTypes
<1>2. ASSUME NEW n \in Names, EndWrite(n) PROVE UploadTypes'
  <2>1. disk' = [disk EXCEPT ![n] = [upload |-> disk[n].upload, whole |-> TRUE]]
    <3>1. disk[n] \in Bytes
      BY <1>0 DEF UploadTypes
    <3>2. [disk[n] EXCEPT !.whole = TRUE]
            = [upload |-> disk[n].upload, whole |-> TRUE]
      BY <3>1, WholeBytes
    <3>3. QED
      BY <1>2, <3>2 DEF EndWrite
  <2>2. [upload |-> disk[n].upload, whole |-> TRUE] \in Bytes
    BY <1>0 DEF UploadTypes, Bytes
  <2>3. \A m \in Names : disk'[m].upload = disk[m].upload
    BY <1>0, <2>1 DEF UploadTypes
  <2>4. /\ UNCHANGED <<sent, good, rows, sending>>
        /\ disk' \in [Names -> Bytes]
    BY <1>0, <1>2, <2>1, <2>2 DEF EndWrite, UploadTypes
  <2>5. QED
    BY <1>0, <2>3, <2>4 DEF UploadTypes
<1>3. ASSUME NEW n \in Names, InsertRow(n) PROVE UploadTypes'
  <2> DEFINE row == [name |-> n, upload |-> disk[n].upload, schema |-> NoBytes]
  <2>1. row \in Row(sent)
    BY <1>0, <1>3, IngestionAssumption
    DEF InsertRow, UploadTypes, Bytes, NoBytes, Row
  <2>2. rows' = Append(rows, row) /\ sending' = {} /\ UNCHANGED <<disk, sent, good>>
    BY <1>3 DEF InsertRow
  <2> HIDE DEF row
  <2>3. QED
    BY <1>0, <2>1, <2>2 DEF UploadTypes
<1>4. CASE ApiCrash
  BY <1>0, <1>4 DEF ApiCrash, UploadTypes
<1>5. CASE SaveSchemas
  <2>1. ASSUME NEW i \in DOMAIN rows
        PROVE  rows'[i] \in Row(sent)
    <3>1. rows[i] \in Row(sent)
      BY <1>0 DEF UploadTypes
    <3>2. \/ rows'[i] = rows[i]
          \/ \E b \in Bytes : rows'[i] = [rows[i] EXCEPT !.schema = b]
      BY <1>5 DEF SaveSchemas, Shapes, Bytewise
    <3>3. QED
      BY <3>1, <3>2 DEF Row
  <2>2. /\ DOMAIN rows' = 1..Len(rows)
        /\ rows' = [i \in 1..Len(rows) |-> rows'[i]]
        /\ UNCHANGED <<disk, sent, good, sending>>
    BY <1>0, <1>5 DEF SaveSchemas, UploadTypes
  <2>3. Len(rows) \in Nat /\ DOMAIN rows = 1..Len(rows)
    BY <1>0 DEF UploadTypes
  <2>4. rows' \in Seq(Row(sent))
    BY <2>1, <2>2, <2>3
  <2>5. QED
    BY <1>0, <2>2, <2>4 DEF UploadTypes
<1>6. CASE UNCHANGED uploadVars
  BY <1>0, <1>6 DEF UploadTypes, uploadVars
<1>7. QED
  BY <1>1, <1>2, <1>3, <1>4, <1>5, <1>6, Steps, RunSteps, StartKeepsRun
  DEF vars, EarlyFrame, ApiStep, RunnerStep, DataStep, AgentStep,
      OpenPreview, ClosePreview, LoadFile, EndLoad, ListUploads, BeginLoad,
      GetDataDictionary, PlanProfile, RunQuery, CallFails, WriteFiles,
      WriteFails, RegisterArtifact, WorkerCrash, RunIntake, RunDesign,
      ApproveGate, RunBuild, Compile, Test, Push, OpenPullRequest, JobLost

LEMMA UploadTypesHold ==
    ASSUME UploadTypes
    PROVE  /\ disk \in [Names -> Bytes]
           /\ sent \in 0..MaxUploads /\ good \subseteq 1..sent
           /\ rows \in Seq([name : Names, upload : 1..sent, schema : Bytes])
           /\ sending \subseteq Names /\ Cardinality(sending) <= 1
<1>1. Cardinality({}) = 0 /\ \A n : Cardinality({n}) = 1
  BY FS_EmptySet, FS_Singleton
<1>2. sending \subseteq Names /\ Cardinality(sending) <= 1
  <2>1. CASE sending = {}
    BY <1>1, <2>1
  <2>2. ASSUME NEW n \in Names, sending = {n}
        PROVE  sending \subseteq Names /\ Cardinality(sending) <= 1
    BY <1>1, <2>2
  <2>3. QED
    BY <2>1, <2>2 DEF UploadTypes
<1>3. QED
  BY <1>2 DEF UploadTypes, Row

-----------------------------------------------------------------------------

CatalogTypes ==
    /\ catalog = [exists |-> catalog.exists, tables |-> catalog.tables]
    /\ catalog.exists \in BOOLEAN
    /\ loader = [at |-> loader.at, todo |-> loader.todo, tables |-> loader.tables]
    /\ loader.at \in {"idle", "running"} /\ loader.todo \in Seq(Names)
    /\ Bytewise(catalog.tables) /\ Bytewise(loader.tables)
    /\ preview \in BOOLEAN /\ previews \in 0..MaxPreviews
    /\ preview => previews > 0

LEMMA CatalogTypesStep ==
    TypeOK /\ Shapes /\ [Next]_vars => CatalogTypes'
<1> SUFFICES ASSUME TypeOK, Shapes, [Next]_vars PROVE CatalogTypes'
  OBVIOUS
<1>0. CatalogTypes /\ MaxPreviews \in Nat
  BY IngestionAssumption DEF TypeOK, Shapes, CatalogTypes
<1>1. CASE OpenPreview \/ ClosePreview
  <2>1. UNCHANGED <<catalog, loader>> /\ preview' \in BOOLEAN
    BY <1>1 DEF OpenPreview, ClosePreview
  <2>2. previews \in 0..MaxPreviews
    BY <1>0 DEF CatalogTypes
  <2>3. previews' \in 0..MaxPreviews /\ (preview' => previews' > 0)
    <3>1. CASE OpenPreview
      BY <1>0, <2>2, <3>1 DEF OpenPreview
    <3>2. CASE ClosePreview
      BY <2>2, <3>2 DEF ClosePreview
    <3>3. QED
      BY <1>1, <3>1, <3>2
  <2>4. QED
    BY <1>0, <2>1, <2>2, <2>3 DEF CatalogTypes
<1>2. CASE LoadFile
  <2>1. PICK loads \in CanLoad(NextFile) :
           /\ catalog' = [catalog EXCEPT
                             !.tables = IF loads THEN WithTable(@) ELSE @]
           /\ loader' = [loader EXCEPT
                            !.todo = Tail(@),
                            !.tables = IF loads THEN WithTable(@) ELSE @]
    BY <1>2 DEF LoadFile
  <2>2. NextFile \in Names /\ Tail(loader.todo) \in Seq(Names)
    BY <1>0, <1>2 DEF LoadFile, NextFile, CatalogTypes
  <2>3. disk[NextFile] \in Bytes
    BY <2>2 DEF TypeOK
  <2>4. /\ Bytewise(WithTable(catalog.tables))
        /\ Bytewise(WithTable(loader.tables))
    BY <1>0, <2>3, PutTable DEF WithTable, CatalogTypes
  <2>5. /\ catalog' = [exists |-> catalog.exists,
                       tables |-> IF loads THEN WithTable(catalog.tables)
                                  ELSE catalog.tables]
        /\ loader' = [at |-> loader.at, todo |-> Tail(loader.todo),
                      tables |-> IF loads THEN WithTable(loader.tables)
                                 ELSE loader.tables]
    BY <1>0, <2>1 DEF CatalogTypes
  <2>6. QED
    BY <1>0, <1>2, <2>2, <2>4, <2>5 DEF CatalogTypes, LoadFile
<1>3. CASE EndLoad
  BY <1>0, <1>3, EmptyTables DEF EndLoad, CatalogTypes, IdleLoader
<1>4. CASE BeginLoad
  <2>1. /\ catalog' = [exists |-> TRUE, tables |-> catalog.tables]
        /\ loader' = [at |-> "running", tables |-> <<>>,
                      todo |-> [i \in 1..worker.listed |-> rows[i].name]]
        /\ UNCHANGED <<preview, previews>>
    BY <1>0, <1>4 DEF BeginLoad, CatalogTypes
  <2>2. \A i \in 1..worker.listed : rows[i].name \in Names
    <3>1. rows \in Seq(Row(sent))
      BY DEF TypeOK, Row
    <3>2. \A i \in 1..worker.listed : rows[i] \in Row(sent)
      BY <3>1, ListedRows
    <3>3. QED
      BY <3>2 DEF Row
  <2>3. loader'.todo \in Seq(Names)
    BY <2>1, <2>2, ListedRows
  <2>4. QED
    BY <1>0, <2>1, <2>3, EmptyTables DEF CatalogTypes
<1>5. CASE UNCHANGED catalogVars
  BY <1>0, <1>5 DEF CatalogTypes, catalogVars
<1>6. QED
  BY <1>1, <1>2, <1>3, <1>4, <1>5, Steps, RunSteps, StartKeepsRun
  DEF vars, EarlyFrame, ApiStep, RunnerStep, DataStep, AgentStep,
      BeginUpload, EndWrite, InsertRow, ApiCrash, SaveSchemas, ListUploads,
      GetDataDictionary, PlanProfile, RunQuery, CallFails, WriteFiles,
      WriteFails, RegisterArtifact, WorkerCrash, RunIntake, RunDesign,
      ApproveGate, RunBuild, Compile, Test, Push, OpenPullRequest, JobLost

-----------------------------------------------------------------------------

IsWorker(w) ==
    w = [at |-> w.at, listed |-> w.listed, tables |-> w.tables,
         queries |-> w.queries, draft |-> w.draft, order |-> w.order,
         unregistered |-> w.unregistered, then |-> w.then]

WorkerType(w) ==
    /\ IsWorker(w)
    /\ w.at \in Working \cup Delivering \cup Stopped
    /\ w.queries \in 0..3
    /\ w.order \in Seq(Seq(Files)) /\ w.unregistered \in Seq(Files)
    /\ Bytewise(w.tables)

Kept(w, v) == WorkerType(v) /\ v.listed = w.listed

(* No assignment to a field adds or drops one.                             *)
LEMMA FieldsKept ==
    \A w, x : IsWorker(w) =>
        /\ IsWorker([w EXCEPT !.at = x]) /\ IsWorker([w EXCEPT !.listed = x])
        /\ IsWorker([w EXCEPT !.tables = x])
        /\ IsWorker([w EXCEPT !.queries = x])
        /\ IsWorker([w EXCEPT !.draft = x]) /\ IsWorker([w EXCEPT !.order = x])
        /\ IsWorker([w EXCEPT !.unregistered = x])
        /\ IsWorker([w EXCEPT !.then = x])
<1>1. \A w, x : IsWorker(w) => IsWorker([w EXCEPT !.at = x])
  BY DEF IsWorker
<1>2. \A w, x : IsWorker(w) => IsWorker([w EXCEPT !.listed = x])
  BY DEF IsWorker
<1>3. \A w, x : IsWorker(w) => IsWorker([w EXCEPT !.tables = x])
  BY DEF IsWorker
<1>4. \A w, x : IsWorker(w) => IsWorker([w EXCEPT !.queries = x])
  BY DEF IsWorker
<1>5. \A w, x : IsWorker(w) => IsWorker([w EXCEPT !.draft = x])
  BY DEF IsWorker
<1>6. \A w, x : IsWorker(w) => IsWorker([w EXCEPT !.order = x])
  BY DEF IsWorker
<1>7. \A w, x : IsWorker(w) => IsWorker([w EXCEPT !.unregistered = x])
  BY DEF IsWorker
<1>8. \A w, x : IsWorker(w) => IsWorker([w EXCEPT !.then = x])
  BY DEF IsWorker
<1>9. QED
  BY <1>1, <1>2, <1>3, <1>4, <1>5, <1>6, <1>7, <1>8

(* What is left to write or to register are files, and then comes a        *)
(* position.                                                               *)
LEMMA OrdersTyped ==
    /\ \A then, order : <<then, order>> \in Writings =>
           order \in Seq(Seq(Files)) /\ order # <<>>
    /\ \A then, now, order : <<then, now, order>> \in Registrations =>
           now # <<>> /\ now \in Seq(Files) /\ then \in Working
<1>1. ASSUME NEW f \in Files, NEW g \in Files, NEW h \in Files
      PROVE  /\ <<f>> \in Seq(Files) /\ <<f, g>> \in Seq(Files)
             /\ <<<<f>>>> \in Seq(Seq(Files))
             /\ <<<<f, g>>>> \in Seq(Seq(Files))
             /\ <<<<f>>, <<g>>>> \in Seq(Seq(Files))
             /\ <<<<f>>, <<g>>, <<h>>>> \in Seq(Seq(Files))
  OBVIOUS
<1>2. ASSUME NEW then, NEW order, <<then, order>> \in Writings
      PROVE  \E f, g, h \in Files :
                order \in {<<<<f>>>>, <<<<f, g>>>>, <<<<f>>, <<g>>>>,
                          <<<<f>>, <<g>>, <<h>>>>}
  BY <1>2 DEF Writings, Files
<1>3. ASSUME NEW then, NEW now, NEW order,
             <<then, now, order>> \in Registrations
      PROVE  /\ \E f, g \in Files : now \in {<<f>>, <<f, g>>}
             /\ then \in Working
  BY <1>3 DEF Registrations, Files, Working, Unread
<1>4. \A f, g, h : /\ <<f>> # <<>> /\ <<f, g>> # <<>> /\ <<f, g, h>> # <<>>
  OBVIOUS
<1>5. ASSUME NEW then, NEW order, <<then, order>> \in Writings
      PROVE  order \in Seq(Seq(Files)) /\ order # <<>>
  <2>1. PICK f \in Files, g \in Files, h \in Files :
                order \in {<<<<f>>>>, <<<<f, g>>>>, <<<<f>>, <<g>>>>,
                          <<<<f>>, <<g>>, <<h>>>>}
    BY <1>2, <1>5
  <2>2. QED
    BY <1>1, <1>4, <2>1
<1>6. ASSUME NEW then, NEW now, NEW order,
             <<then, now, order>> \in Registrations
      PROVE  now # <<>> /\ now \in Seq(Files) /\ then \in Working
  <2>1. PICK f \in Files, g \in Files : now \in {<<f>>, <<f, g>>}
    BY <1>3, <1>6
  <2>2. QED
    BY <1>1, <1>3, <1>4, <1>6, <2>1
<1>7. QED
  BY <1>5, <1>6

(* The two ways a handler moves the worker: Goto and Deliver.              *)
LEMMA MoveTypes ==
    ASSUME NEW w, WorkerType(w), NEW at \in Working \cup Delivering \cup Stopped
    PROVE  Kept(w, [w EXCEPT !.at = at])
<1> DEFINE v == [w EXCEPT !.at = at]
<1>1. IsWorker(v)
  BY FieldsKept DEF WorkerType
<1>2. /\ v.at = at /\ v.listed = w.listed /\ v.tables = w.tables
      /\ v.queries = w.queries /\ v.order = w.order
      /\ v.unregistered = w.unregistered
  BY DEF WorkerType, IsWorker
<1>3. Kept(w, v)
  <2> HIDE DEF v
  <2> QED BY <1>1, <1>2 DEF WorkerType, Kept
<1>4. QED
  BY <1>3

LEMMA DeliverTypes ==
    ASSUME NEW w, WorkerType(w), NEW draft, NEW order, NEW then,
           <<then, order>> \in Writings
    PROVE  Kept(w, [w EXCEPT !.at = "writing", !.draft = draft,
                             !.order = order, !.then = then])
<1> DEFINE v == [w EXCEPT !.at = "writing", !.draft = draft,
                          !.order = order, !.then = then]
<1>1. IsWorker(v)
  BY FieldsKept DEF WorkerType
<1>2. /\ v.at = "writing" /\ v.listed = w.listed /\ v.tables = w.tables
      /\ v.queries = w.queries /\ v.order = order
      /\ v.unregistered = w.unregistered
  BY DEF WorkerType, IsWorker
<1>3. order \in Seq(Seq(Files))
  BY OrdersTyped
<1>4. Kept(w, v)
  <2> HIDE DEF v
  <2> QED BY <1>1, <1>2, <1>3 DEF WorkerType, Kept, Delivering
<1>5. QED
  BY <1>4

LEMMA AllOrders ==
    /\ <<"intake", <<<<"data_dictionary">>, <<"raw_tables">>,
                     <<"requirements">>>>>> \in Writings
    /\ <<"intake", <<<<"requirements">>>>>> \in Writings
    /\ <<"designing", <<<<"intake_summary">>>>>> \in Writings
    /\ <<"DESIGN_REVIEW", <<<<"design">>>>>> \in Writings
    /\ <<"building", <<<<"profile_report", "profiling">>>>>> \in Writings
    /\ <<"compiling", <<<<"model", "schema_yml">>>>>> \in Writings
    /\ <<"READY_FOR_REVIEW", <<<<"qa_report">>>>>> \in Writings
    /\ <<"done", <<<<"pr_summary">>>>>> \in Writings
  BY DEF Writings

(* The profiler never plans more than three queries; it leaves out tables  *)
(* of a catalog it could look into only if a call is lost.                 *)
LEMMA PlansCount ==
    ASSUME TypeOK, Shapes, Loads, NEW plan \in ProfilePlans
    PROVE  /\ plan.queries \in 0..3
           /\ plan.tables = {} /\ catalog.tables # <<>> /\ Listable => MayFail
           /\ IF catalog.exists THEN plan.source = "catalog"
              ELSE plan.source = "fixture"
           /\ plan.tables \subseteq DOMAIN catalog.tables
           /\ plan.tables \in {{}, DOMAIN catalog.tables}
                 \/ Cardinality(plan.tables) = 3
<1> DEFINE Found == DOMAIN catalog.tables
           Chosen == {S \in SUBSET Found : \/ Cardinality(S) = 3
                                           \/ S = Found /\ Cardinality(S) < 3}
           Plan(S) == [source |-> "catalog", tables |-> S,
                       queries |-> IF S = {} THEN 1 ELSE Cardinality(S)]
<1>1. CASE ~catalog.exists
  BY <1>1 DEF ProfilePlans, Loads
<1>2. CASE catalog.exists
  <2>1. PICK S \in TablesListed : plan = Plan(S)
    BY <1>2 DEF ProfilePlans
  <2>2. /\ S = {} \/ S \in Chosen
        /\ Listable /\ ~MayFail => S \in Chosen
    BY <2>1 DEF TablesListed
  <2>3. S \subseteq Found
    BY <2>2
  <2>4. IsFiniteSet(S) /\ IsFiniteSet(Found)
    BY <2>3, FS_Subset DEF Shapes, Bytewise
  <2>5. Cardinality(S) \in Nat /\ Cardinality({}) = 0
    BY <2>4, FS_CardinalityType, FS_EmptySet
  <2>6. S = {} \/ Cardinality(S) \in 0..3
    BY <2>2, <2>5
  <2>7. S = {} /\ Listable /\ ~MayFail => Found = {}
    BY <2>2, <2>5
  <2>8. Found = {} <=> catalog.tables = <<>>
    BY NoTables DEF Shapes
  <2>9. plan.source = "catalog" /\ plan.tables = S /\ plan.queries \in 0..3
    BY <2>1, <2>5, <2>6
  <2>10. S \in {{}, Found} \/ Cardinality(S) = 3
    BY <2>2
  <2>11. QED
    BY <1>2, <2>3, <2>7, <2>8, <2>9, <2>10
<1>3. QED
  BY <1>1, <1>2

LEMMA WorkerTypesStep ==
    TypeOK /\ Shapes /\ Course /\ Loads /\ [Next]_vars =>
        WorkerType(worker)' /\ worker'.listed \in 0..Len(rows')
<1> SUFFICES ASSUME TypeOK, Shapes, Course, Loads, [Next]_vars
             PROVE  WorkerType(worker') /\ worker'.listed \in 0..Len(rows')
  BY DEF WorkerType
<1>0. WorkerType(worker) /\ worker.listed \in Nat
  BY ListedRows DEF TypeOK, Shapes, WorkerType, IsWorker
<1>1. Len(rows') \in Nat /\ Len(rows) <= Len(rows')
  <2>1. CASE \E n \in Names : InsertRow(n)
    <3>1. PICK row : rows' = Append(rows, row)
      BY <2>1 DEF InsertRow
    <3>2. rows \in Seq(Row(sent))
      BY DEF TypeOK, Row
    <3>3. QED
      BY <3>1, <3>2
  <2>2. CASE SaveSchemas
    <3>1. DOMAIN rows' = 1..Len(rows) /\ Len(rows) \in Nat
      BY <2>2, ListedRows DEF SaveSchemas
    <3>2. rows' \in Seq(Row(sent'))
      BY UploadTypesStep DEF UploadTypes
    <3>3. Len(rows') = Len(rows)
      BY <3>1, <3>2
    <3>4. QED
      BY <3>1, <3>3
  <2>3. CASE UNCHANGED rows
    BY <2>3, ListedRows DEF Kept
  <2>4. QED
    BY <2>1, <2>2, <2>3, Steps, RunSteps, StartKeepsRun
    DEF vars, EarlyFrame, ApiStep, RunnerStep, DataStep, AgentStep,
        BeginUpload, EndWrite, ApiCrash, OpenPreview, ClosePreview, LoadFile,
        EndLoad, ListUploads, BeginLoad, GetDataDictionary, PlanProfile,
        RunQuery, CallFails, WriteFiles, WriteFails, RegisterArtifact,
        WorkerCrash, RunIntake, RunDesign, ApproveGate, RunBuild, Compile, Test,
        Push, OpenPullRequest, JobLost, uploadVars
<1> DEFINE Typed == Kept(worker, worker')
<1>2. CASE UNCHANGED worker
  BY <1>0, <1>1, <1>2, ListedRows DEF Kept
<1>3. ASSUME NEW at \in Working \cup Delivering \cup Stopped, Goto(at)
      PROVE  Typed
  BY <1>0, <1>3, MoveTypes DEF Goto
<1>4. ASSUME NEW draft, NEW order, NEW then, <<then, order>> \in Writings,
             Deliver(draft, order, then)
      PROVE  Typed
  BY <1>0, <1>4, DeliverTypes DEF Deliver
<1>5. CASE ListUploads
  <2>1. CASE rows # <<>>
    <3>1. worker' = [worker EXCEPT !.at = "submitting", !.listed = Len(rows)]
      BY <1>5, <2>1 DEF ListUploads
    <3>2. WorkerType(worker') /\ worker'.listed = Len(rows)
      <4>1. IsWorker(worker')
        BY <1>0, <3>1, FieldsKept DEF WorkerType
      <4>2. /\ worker'.at = "submitting" /\ worker'.listed = Len(rows)
            /\ worker'.tables = worker.tables
            /\ worker'.queries = worker.queries
            /\ worker'.order = worker.order
            /\ worker'.unregistered = worker.unregistered
        BY <1>0, <3>1 DEF WorkerType, IsWorker
      <4>3. QED
        BY <1>0, <4>1, <4>2 DEF WorkerType, Working, Unread
    <3>3. QED
      BY <1>1, <3>2, ListedRows DEF Kept
  <2>2. CASE rows = <<>>
    <3> DEFINE order == <<<<"requirements">>>>
    <3>1. order \in Seq(Seq(Files))
      BY DEF Files
    <3>2. PICK draft : worker' = [worker EXCEPT
                 !.at = "writing", !.then = "intake", !.draft = draft,
                 !.order = order]
      BY <1>5, <2>2 DEF ListUploads
    <3> HIDE DEF order
    <3>3. Typed
      <4>1. IsWorker(worker')
        BY <1>0, <3>1, <3>2, FieldsKept DEF WorkerType
      <4>2. /\ worker'.at = "writing" /\ worker'.listed = worker.listed
            /\ worker'.tables = worker.tables /\ worker'.queries = worker.queries
            /\ worker'.order = order
            /\ worker'.unregistered = worker.unregistered
        BY <1>0, <3>1, <3>2 DEF WorkerType, IsWorker
      <4>3. QED
        BY <1>0, <3>1, <3>2, <4>1, <4>2
        DEF WorkerType, Kept, Delivering, Working, Unread
    <3>4. QED
      BY <1>1, <3>3, ListedRows DEF Kept
  <2>3. QED
    BY <2>1, <2>2
<1>6. CASE EndLoad /\ worker.at = "loading"
  <2>1. worker' = [worker EXCEPT !.at = "saving", !.tables = loader.tables]
    BY <1>6 DEF EndLoad
  <2>2. Bytewise(loader.tables)
    BY DEF Shapes
  <2>3. Typed
    <3>1. IsWorker(worker')
      BY <1>0, <2>1, <2>2, FieldsKept DEF WorkerType
    <3>2. /\ worker'.at = "saving" /\ worker'.listed = worker.listed
          /\ worker'.tables = loader.tables /\ worker'.queries = worker.queries
          /\ worker'.order = worker.order
          /\ worker'.unregistered = worker.unregistered
      BY <1>0, <2>1, <2>2 DEF WorkerType, IsWorker
    <3>3. QED
      BY <1>0, <2>1, <2>2, <3>1, <3>2
      DEF WorkerType, Kept, Delivering, Working, Unread
  <2>4. QED
    BY <1>1, <2>3, ListedRows DEF Kept
<1>7. CASE GetDataDictionary
  <2> DEFINE order == <<<<"data_dictionary">>, <<"raw_tables">>,
                        <<"requirements">>>>
  <2>1. PICK draft : worker' = [worker EXCEPT
               !.at = "writing", !.then = "intake", !.draft = draft,
               !.order = order]
    BY <1>7 DEF GetDataDictionary
  <2>2. order \in Seq(Seq(Files))
    BY AllOrders, OrdersTyped
  <2> HIDE DEF order
  <2>3. Typed
    <3>1. IsWorker(worker')
      BY <1>0, <2>1, <2>2, FieldsKept DEF WorkerType
    <3>2. /\ worker'.at = "writing" /\ worker'.listed = worker.listed
          /\ worker'.tables = worker.tables /\ worker'.queries = worker.queries
          /\ worker'.order = order
          /\ worker'.unregistered = worker.unregistered
      BY <1>0, <2>1, <2>2 DEF WorkerType, IsWorker
    <3>3. QED
      BY <1>0, <2>1, <2>2, <3>1, <3>2
      DEF WorkerType, Kept, Delivering, Working, Unread
  <2>4. QED
    BY <1>1, <2>3, ListedRows DEF Kept
<1>8. CASE PlanProfile
  <2>1. PICK plan \in ProfilePlans :
            worker' = [worker EXCEPT
                           !.at = "querying", !.queries = plan.queries,
                           !.draft = [profile_report |-> plan,
                                      profiling |-> plan]]
    BY <1>8 DEF PlanProfile
  <2>2. plan.queries \in 0..3
    BY PlansCount
  <2>3. Typed
    <3>1. IsWorker(worker')
      BY <1>0, <2>1, <2>2, FieldsKept DEF WorkerType
    <3>2. /\ worker'.at = "querying" /\ worker'.listed = worker.listed
          /\ worker'.tables = worker.tables /\ worker'.queries = plan.queries
          /\ worker'.order = worker.order
          /\ worker'.unregistered = worker.unregistered
      BY <1>0, <2>1, <2>2 DEF WorkerType, IsWorker
    <3>3. QED
      BY <1>0, <2>1, <2>2, <3>1, <3>2
      DEF WorkerType, Kept, Delivering, Working, Unread
  <2>4. QED
    BY <1>1, <2>3, ListedRows DEF Kept
<1>9. CASE RunQuery
  <2>1. ASSUME worker' = [worker EXCEPT !.at = "failed"] PROVE Typed
    BY <1>0, <2>1, MoveTypes DEF Stopped
  <2>2. ASSUME worker.queries > 1, worker' = [worker EXCEPT !.queries = @ - 1]
        PROVE  Typed
    <3>1. worker.queries - 1 \in 0..3
      BY <1>0, <2>2 DEF WorkerType
    <3>2. QED
      <4>1. IsWorker(worker')
        BY <1>0, <2>2, <3>1, FieldsKept DEF WorkerType
      <4>2. /\ worker'.at = worker.at /\ worker'.listed = worker.listed
            /\ worker'.tables = worker.tables /\ worker'.queries = worker.queries - 1
            /\ worker'.order = worker.order
            /\ worker'.unregistered = worker.unregistered
        BY <1>0, <2>2, <3>1 DEF WorkerType, IsWorker
      <4>3. QED
        BY <1>0, <2>2, <3>1, <4>1, <4>2
        DEF WorkerType, Kept, Delivering, Working, Unread
  <2>3. ASSUME worker' = [worker EXCEPT !.at = "writing", !.queries = 0,
                              !.order = <<<<"profile_report", "profiling">>>>,
                              !.then = "building"]
        PROVE  Typed
    <3> DEFINE order == <<<<"profile_report", "profiling">>>>
    <3>1. order \in Seq(Seq(Files))
      BY AllOrders, OrdersTyped
    <3>2. worker' = [worker EXCEPT !.at = "writing", !.queries = 0,
                                   !.order = order, !.then = "building"]
      BY <2>3
    <3> HIDE DEF order
    <3>3. QED
      <4>1. IsWorker(worker')
        BY <1>0, <3>1, <3>2, FieldsKept DEF WorkerType
      <4>2. /\ worker'.at = "writing" /\ worker'.listed = worker.listed
            /\ worker'.tables = worker.tables /\ worker'.queries = 0
            /\ worker'.order = order
            /\ worker'.unregistered = worker.unregistered
        BY <1>0, <3>1, <3>2 DEF WorkerType, IsWorker
      <4>3. QED
        BY <1>0, <3>1, <3>2, <4>1, <4>2
        DEF WorkerType, Kept, Delivering, Working, Unread
  <2>4. Typed
    BY <1>0, <1>9, <2>1, <2>2, <2>3 DEF RunQuery, WorkerType
  <2>5. QED
    BY <1>1, <2>4, ListedRows DEF Kept
<1>10. CASE WriteFiles
  <2>1. /\ worker' = [worker EXCEPT !.at = "registering",
                          !.unregistered = Request, !.order = Tail(@)]
        /\ <<worker.then, worker.order>> \in Writings
    BY <1>10 DEF WriteFiles, Course
  <2>2. Request \in Seq(Files) /\ Tail(worker.order) \in Seq(Seq(Files))
    BY <1>0, <2>1, OrdersTyped DEF WorkerType, Request
  <2>3. Typed
    <3>1. IsWorker(worker')
      BY <1>0, <2>1, <2>2, FieldsKept DEF WorkerType
    <3>2. /\ worker'.at = "registering" /\ worker'.listed = worker.listed
          /\ worker'.tables = worker.tables /\ worker'.queries = worker.queries
          /\ worker'.order = Tail(worker.order)
          /\ worker'.unregistered = Request
      BY <1>0, <2>1, <2>2 DEF WorkerType, IsWorker
    <3>3. QED
      BY <1>0, <2>1, <2>2, <3>1, <3>2
      DEF WorkerType, Kept, Delivering, Working, Unread
  <2>4. QED
    BY <1>1, <2>3, ListedRows DEF Kept
<1>11. CASE RegisterArtifact
  <2>1. <<worker.then, worker.unregistered, worker.order>> \in Registrations
    BY <1>11 DEF RegisterArtifact, Course
  <2>2. /\ Tail(worker.unregistered) \in Seq(Files) /\ worker.then \in Working
    BY <1>0, <2>1, OrdersTyped DEF WorkerType
  <2>3. PICK at \in {"registering", "writing", worker.then} :
            worker' = [worker EXCEPT !.unregistered = Tail(@), !.at = at]
    BY <1>11 DEF RegisterArtifact
  <2>4. Typed
    <3>1. IsWorker(worker')
      BY <1>0, <2>2, <2>3, FieldsKept DEF WorkerType
    <3>2. /\ worker'.at = at /\ worker'.listed = worker.listed
          /\ worker'.tables = worker.tables /\ worker'.queries = worker.queries
          /\ worker'.order = worker.order
          /\ worker'.unregistered = Tail(worker.unregistered)
      BY <1>0, <2>2, <2>3 DEF WorkerType, IsWorker
    <3>3. QED
      BY <1>0, <2>2, <2>3, <3>1, <3>2
      DEF WorkerType, Kept, Delivering, Working, Unread
  <2>5. QED
    BY <1>1, <2>4, ListedRows DEF Kept
<1>12. CASE Compile /\ Compiles
  <2>1. worker' = [worker EXCEPT !.at = "registering", !.then = "testing",
                                 !.unregistered = <<"compile_summary">>]
    BY <1>12 DEF Compile
  <2>2. <<"compile_summary">> \in Seq(Files)
    BY DEF Files
  <2>3. Typed
    <3>1. IsWorker(worker')
      BY <1>0, <2>1, <2>2, FieldsKept DEF WorkerType
    <3>2. /\ worker'.at = "registering" /\ worker'.listed = worker.listed
          /\ worker'.tables = worker.tables /\ worker'.queries = worker.queries
          /\ worker'.order = worker.order
          /\ worker'.unregistered = <<"compile_summary">>
      BY <1>0, <2>1, <2>2 DEF WorkerType, IsWorker
    <3>3. QED
      BY <1>0, <2>1, <2>2, <3>1, <3>2
      DEF WorkerType, Kept, Delivering, Working, Unread
  <2>4. QED
    BY <1>1, <2>3, ListedRows DEF Kept
<1>13. CASE Test
  <2> DEFINE now == <<"run_results">>
             order == <<<<"qa_report">>>>
  <2>1. PICK draft :
            worker' = [worker EXCEPT !.at = "registering",
                            !.unregistered = now, !.draft = draft,
                            !.order = order, !.then = "READY_FOR_REVIEW"]
    BY <1>13 DEF Test
  <2>2. now \in Seq(Files) /\ order \in Seq(Seq(Files))
    BY DEF Files
  <2> HIDE DEF now, order
  <2>3. Typed
    <3>1. IsWorker(worker')
      BY <1>0, <2>1, <2>2, FieldsKept DEF WorkerType
    <3>2. /\ worker'.at = "registering" /\ worker'.listed = worker.listed
          /\ worker'.tables = worker.tables /\ worker'.queries = worker.queries
          /\ worker'.order = order
          /\ worker'.unregistered = now
      BY <1>0, <2>1, <2>2 DEF WorkerType, IsWorker
    <3>3. QED
      BY <1>0, <2>1, <2>2, <3>1, <3>2
      DEF WorkerType, Kept, Delivering, Working, Unread
  <2>4. QED
    BY <1>1, <2>3, ListedRows DEF Kept
<1>14. CASE \E at \in Working \cup Delivering \cup Stopped : Goto(at)
  BY <1>1, <1>3, <1>14, ListedRows DEF Kept
<1>15. CASE \E draft, order, then : /\ <<then, order>> \in Writings
                                    /\ Deliver(draft, order, then)
  BY <1>1, <1>4, <1>15, ListedRows DEF Kept
<1>16. ASSUME RunIntake \/ RunDesign \/ RunBuild \/ OpenPullRequest
       PROVE  \E draft, order, then : /\ <<then, order>> \in Writings
                                      /\ Deliver(draft, order, then)
  BY <1>16, AllOrders DEF RunIntake, RunDesign, RunBuild, OpenPullRequest
<1>17. ASSUME \/ ApproveGate \/ Push \/ JobLost \/ (Compile /\ ~Compiles)
       PROVE  \E at \in Working \cup Delivering \cup Stopped : Goto(at)
  <2>1. \E at \in {"profiling", "pushing", "opening", "failed"} : Goto(at)
    <3>1. CASE ApproveGate
      BY <3>1 DEF ApproveGate, Behind
    <3>2. CASE Compile /\ ~Compiles
      BY <3>2 DEF Compile, Goto
    <3>3. QED
      BY <1>17, <3>1, <3>2 DEF Push, JobLost
  <2>2. QED
    BY <2>1 DEF Working, Stopped
<1>18. CASE (ApiStep /\ UNCHANGED <<slug, remote>>) \/ UNCHANGED vars
  BY <1>2, <1>18, ApiKeepsRun DEF ApiFrame, vars, runVars
<1>19. CASE RunnerStep
  BY <1>2, <1>6, <1>19 DEF RunnerStep, LoadFile, EndLoad, runVars
<1>20. CASE DataStep
  <2>1. CASE \/ BeginLoad \/ SaveSchemas \/ WriteFails \/ WorkerCrash
             \/ \E at \in {"submitting", "loading", "describing", "querying"} :
                    CallFails(at)
    <3>1. \E at \in {"loading", "describing", "failed", "crashed"} : Goto(at)
      BY <2>1 DEF BeginLoad, SaveSchemas, WriteFails, WorkerCrash, CallFails
    <3>2. \E at \in Working \cup Delivering \cup Stopped : Goto(at)
      BY <3>1 DEF Working, Unread, Stopped
    <3>3. QED
      BY <1>14, <3>2
  <2>2. QED
    BY <1>5, <1>7, <1>8, <1>9, <1>10, <1>11, <1>20, <2>1 DEF DataStep
<1>21. CASE AgentStep
  <2>1. CASE RunIntake \/ RunDesign \/ RunBuild \/ OpenPullRequest
    <3>1. \E draft, order, then : /\ <<then, order>> \in Writings
                                 /\ Deliver(draft, order, then)
      BY <1>16, <2>1
    <3>2. QED
      BY <1>15, <3>1
  <2>2. CASE ApproveGate \/ Push \/ JobLost \/ (Compile /\ ~Compiles)
    <3>1. \E at \in Working \cup Delivering \cup Stopped : Goto(at)
      BY <1>17, <2>2
    <3>2. QED
      BY <1>14, <3>1
  <2>3. CASE Compile
    <3>1. CASE Compiles
      BY <1>12, <2>3, <3>1
    <3>2. CASE ~Compiles
      BY <2>2, <2>3, <3>2
    <3>3. QED
      BY <3>1, <3>2
  <2>4. QED
    BY <1>13, <1>21, <2>1, <2>2, <2>3 DEF AgentStep
<1>22. CASE StartsEarly
  <2>1. PICK agent \in Agents :
           worker' = [worker EXCEPT !.at = agent, !.queries = 0, !.draft = <<>>,
                                    !.order = <<>>, !.unregistered = <<>>,
                                    !.then = agent]
    BY <1>22 DEF StartsEarly, StartEarly
  <2>2. Typed
    <3>1. IsWorker(worker')
      BY <1>0, <2>1, FieldsKept DEF WorkerType
    <3>2. /\ worker'.at = agent /\ worker'.listed = worker.listed
          /\ worker'.tables = worker.tables /\ worker'.queries = 0
          /\ worker'.order = <<>> /\ worker'.unregistered = <<>>
      BY <1>0, <2>1 DEF WorkerType, IsWorker
    <3>3. <<>> \in Seq(Files) /\ <<>> \in Seq(Seq(Files)) /\ 0 \in 0..3
      OBVIOUS
    <3>4. agent \in Working
      BY DEF Agents, Working, Unread
    <3>5. QED
      BY <1>0, <3>1, <3>2, <3>3, <3>4 DEF WorkerType, Kept
  <2>3. QED
    BY <1>1, <2>2, ListedRows DEF Kept
<1>23. QED
  BY <1>18, <1>19, <1>20, <1>21, <1>22, Steps, RunSteps

-----------------------------------------------------------------------------

RunTypes ==
    /\ DOMAIN workspace \subseteq Files
    /\ artifacts \in Seq(Files)
    /\ faults \in 0..MaxFaults
    /\ slug \in Slugs
    /\ remote \in Seq({"push", "pull_request"})
    /\ sessions \subseteq Agents /\ rushed \in 0..MaxRushes

(* What a step may do to a variable of the run at all, whichever step it   *)
(* is.                                                                     *)
LEMMA FaultsCounted ==
    ASSUME TypeOK, Shapes, Loads, [Next]_vars
    PROVE  faults' = faults \/ (MayFail /\ faults' = faults + 1)
<1>1. CASE PlanProfile
  BY <1>1, PlansCount DEF PlanProfile
<1>2. CASE UNCHANGED vars \/ StartsEarly
  BY <1>2, StartKeepsRun DEF vars, runVars, EarlyFrame
<1>3. CASE ApiStep \/ RunnerStep
  BY <1>3 DEF ApiStep, BeginUpload, EndWrite, InsertRow, OpenPreview,
              ClosePreview, ApiCrash, RunnerStep, LoadFile, EndLoad, runVars
<1>4. CASE AgentStep
  BY <1>4 DEF AgentStep, RunIntake, RunDesign, ApproveGate, RunBuild, Compile,
              Test, Push, OpenPullRequest, JobLost
<1>5. CASE DataStep
  BY <1>1, <1>5
  DEF DataStep, ListUploads, BeginLoad, SaveSchemas, GetDataDictionary,
      RunQuery, CallFails, WriteFiles, WriteFails, RegisterArtifact, WorkerCrash
<1>6. QED
  BY <1>2, <1>3, <1>4, <1>5, Steps, RunSteps

LEMMA SlugFixed == [Next]_vars => slug' = slug
  BY StartKeepsRun
  DEF Next, RunStep, StartsEarly, EarlyFrame, vars, AgentStep, RunIntake, RunDesign, ApproveGate, RunBuild,
         Compile, Test, Push, OpenPullRequest, JobLost

LEMMA RemoteGrows ==
    ASSUME [Next]_vars
    PROVE  \/ remote' = remote
           \/ worker.at = "pushing" /\ remote' = Append(remote, "push")
           \/ worker.at = "opening" /\ remote' = Append(remote, "pull_request")
  BY StartKeepsRun
  DEF Next, RunStep, StartsEarly, EarlyFrame, vars, AgentStep, RunIntake, RunDesign, ApproveGate, RunBuild,
         Compile, Test, Push, OpenPullRequest, JobLost

LEMMA ArtifactsGrow ==
    ASSUME [Next]_vars
    PROVE  artifacts' = artifacts \/ RegisterArtifact
<1>1. CASE \/ (ApiStep /\ UNCHANGED <<slug, remote>>) \/ UNCHANGED vars
           \/ StartsEarly
  BY <1>1, ApiKeepsRun, StartKeepsRun DEF ApiFrame, EarlyFrame, vars, runVars
<1>2. CASE RunnerStep \/ AgentStep
  BY <1>2 DEF RunnerStep, LoadFile, EndLoad, runVars, AgentStep, RunIntake,
              RunDesign, ApproveGate, RunBuild, Compile, Test, Push,
              OpenPullRequest, JobLost
<1>3. CASE DataStep
  BY <1>3
  DEF DataStep, ListUploads, BeginLoad, SaveSchemas, GetDataDictionary,
      PlanProfile, RunQuery, CallFails, WriteFiles, WriteFails, WorkerCrash
<1>4. QED
  BY <1>1, <1>2, <1>3, Steps, RunSteps

LEMMA WorkspaceGrows ==
    ASSUME [Next]_vars
    PROVE  \/ workspace' = workspace
           \/ WriteFiles
           \/ /\ worker.at = "writing" /\ worker' = [worker EXCEPT !.at = "failed"]
              /\ \E k \in 0..Len(Request) :
                    workspace' = Written({Request[i] : i \in 1..k})
           \/ /\ worker.at = "compiling"
              /\ workspace' = WithFile("compile_summary", [errors |-> ~Compiles])
           \/ /\ worker.at = "testing" /\ (Test \/ JobLost)
              /\ workspace' = WithFile("run_results", Results)
<1>1. CASE \/ (ApiStep /\ UNCHANGED <<slug, remote>>) \/ UNCHANGED vars
           \/ StartsEarly
  BY <1>1, ApiKeepsRun, StartKeepsRun DEF ApiFrame, EarlyFrame, vars, runVars
<1>2. CASE RunnerStep
  BY <1>2 DEF RunnerStep, LoadFile, EndLoad, runVars
<1>3. CASE AgentStep
  BY <1>3 DEF AgentStep, RunIntake, RunDesign, ApproveGate, RunBuild, Compile,
              Test, Push, OpenPullRequest, JobLost
<1>4. CASE DataStep
  BY <1>4
  DEF DataStep, ListUploads, BeginLoad, SaveSchemas, GetDataDictionary,
      PlanProfile, RunQuery, CallFails, WriteFails, WorkerCrash,
      RegisterArtifact, Goto
<1>5. QED
  BY <1>1, <1>2, <1>3, <1>4, Steps, RunSteps

LEMMA RequestTyped ==
    ASSUME Course, worker.at = "writing"
    PROVE  /\ Request \in Seq(Files) /\ Request # <<>>
           /\ <<worker.then, Request, Tail(worker.order)>> \in Registrations
<1>1. <<worker.then, Request, Tail(worker.order)>> \in Registrations
  BY Requested DEF Course, Request
<1>2. QED
  BY <1>1, OrdersTyped

LEMMA RunTypesStep ==
    TypeOK /\ Shapes /\ Course /\ Loads /\ [Next]_vars => RunTypes'
<1> SUFFICES ASSUME TypeOK, Shapes, Course, Loads, [Next]_vars
             PROVE  RunTypes'
  OBVIOUS
<1>0. /\ DOMAIN workspace \subseteq Files
      /\ artifacts \in Seq(Files)
      /\ faults \in 0..MaxFaults /\ MaxFaults \in Nat
      /\ slug \in Slugs
      /\ remote \in Seq({"push", "pull_request"})
      /\ sessions \subseteq Agents /\ rushed \in 0..MaxRushes
      /\ MaxRushes \in Nat
  BY IngestionAssumption, TicketAssumption DEF TypeOK
<1>1. faults' \in 0..MaxFaults
  BY <1>0, FaultsCounted DEF MayFail
<1>2. slug' \in Slugs
  BY <1>0, SlugFixed
<1>3. remote' \in Seq({"push", "pull_request"})
  <2>1. \A S, e : e \in S /\ remote \in Seq(S) => Append(remote, e) \in Seq(S)
    OBVIOUS
  <2>2. CASE remote' = remote
    BY <1>0, <2>2
  <2>3. CASE remote' = Append(remote, "push")
    BY <1>0, <2>1, <2>3
  <2>4. CASE remote' = Append(remote, "pull_request")
    BY <1>0, <2>1, <2>4
  <2>5. QED
    BY <2>2, <2>3, <2>4, RemoteGrows
<1>4. artifacts' \in Seq(Files)
  <2>1. CASE RegisterArtifact
    <3>1. /\ artifacts' = Append(artifacts, Head(worker.unregistered))
          /\ worker.unregistered \in Seq(Files) /\ worker.unregistered # <<>>
      BY <2>1 DEF RegisterArtifact, TypeOK
    <3>2. QED
      BY <1>0, <3>1
  <2>2. QED
    BY <1>0, <2>1, ArtifactsGrow
<1>5. DOMAIN workspace' \subseteq Files
  <2>1. CASE WriteFiles
    BY <1>0, <2>1, RequestTyped DEF WriteFiles, Written
  <2>2. ASSUME worker.at = "writing", NEW k \in 0..Len(Request),
               workspace' = Written({Request[i] : i \in 1..k})
        PROVE  DOMAIN workspace' \subseteq Files
    BY <1>0, <2>2, RequestTyped DEF Written
  <2>3. ASSUME NEW f \in Files, NEW x, workspace' = WithFile(f, x)
        PROVE  DOMAIN workspace' \subseteq Files
    BY <1>0, <2>3 DEF WithFile, Put
  <2>4. "compile_summary" \in Files /\ "run_results" \in Files
    BY DEF Files
  <2>5. QED
    BY <1>0, <2>1, <2>2, <2>3, <2>4, WorkspaceGrows
<1>6. sessions' \subseteq Agents /\ rushed' \in 0..MaxRushes
  <2>1. CASE StartsEarly
    <3>1. sessions' = sessions /\ rushed < MaxRushes /\ rushed' = rushed + 1
      BY <2>1 DEF StartsEarly, StartEarly
    <3>2. QED
      BY <1>0, <3>1
  <2>2. CASE [RunStep]_vars
    <3>1. rushed' = rushed /\ (sessions' = sessions \/ InSession)
      BY <2>2 DEF RunStep, vars
    <3>2. QED
      BY <1>0, <3>1 DEF InSession
  <2>3. QED
    BY <2>1, <2>2, Steps
<1>7. QED
  BY <1>1, <1>2, <1>3, <1>4, <1>5, <1>6 DEF RunTypes

-----------------------------------------------------------------------------
(* The course of a handler.                                                *)

(* A session is never given up, and a handler begins with a new one, at a  *)
(* time when none of its files is there.                                   *)
LEMMA SessionsGrow ==
    ASSUME [Next]_vars
    PROVE  sessions \subseteq sessions'
<1>1. CASE [RunStep]_vars
  BY <1>1 DEF RunStep, InSession, vars
<1>2. CASE StartsEarly
  BY <1>2, StartKeepsRun DEF EarlyFrame
<1>3. QED
  BY <1>1, <1>2, Steps

LEMMA Begins ==
    ASSUME Course, [RunStep]_vars, worker.at \in Agents, worker'.at # worker.at
    PROVE  /\ worker.at \notin sessions /\ worker.at \in sessions'
           /\ FilesOf(worker.at) \cap DOMAIN workspace = {}
<1>1. InSession
  BY DEF RunStep, vars, runVars
<1>2. worker.at \notin sessions /\ worker.at \in sessions'
  BY <1>1 DEF InSession
<1>3. QED
  BY <1>2 DEF Course, FilesOf

(* The worker as it takes up a task before its turn.                       *)
LEMMA Started ==
    ASSUME Shapes, StartsEarly
    PROVE  /\ worker'.at \in Agents /\ worker'.then = worker'.at
           /\ worker'.order = <<>> /\ worker'.unregistered = <<>>
           /\ worker'.listed = worker.listed /\ worker'.tables = worker.tables
           /\ worker'.at \notin sessions
           /\ worker.at \notin Delivering
           /\ rushed' = rushed + 1
<1>1. PICK agent \in Agents : StartEarly(agent)
  BY DEF StartsEarly
<1>2. /\ worker' = [worker EXCEPT !.at = agent, !.queries = 0, !.draft = <<>>,
                                  !.order = <<>>, !.unregistered = <<>>,
                                  !.then = agent]
      /\ worker.at \in Agents \cup DOMAIN Behind \cup {"done", "failed", "crashed"}
      /\ agent \notin sessions /\ rushed' = rushed + 1
  BY <1>1 DEF StartEarly
<1>3. IsWorker(worker)
  BY DEF Shapes, IsWorker
<1>4. /\ worker'.at = agent /\ worker'.then = agent
      /\ worker'.order = <<>> /\ worker'.unregistered = <<>>
      /\ worker'.listed = worker.listed /\ worker'.tables = worker.tables
  BY <1>2, <1>3 DEF IsWorker
<1>5. worker.at \notin Delivering
  BY <1>2 DEF Agents, Behind, Delivering
<1>6. QED
  BY <1>2, <1>4, <1>5

LEMMA AgentFiles ==
    /\ FilesOf("ingesting") = {"data_dictionary", "raw_tables", "requirements"}
    /\ FilesOf("intake") = {"intake_summary"}
    /\ FilesOf("designing") = {"design"}
    /\ FilesOf("profiling") = {"profile_report", "profiling"}
    /\ FilesOf("building") = {"model", "schema_yml", "compile_summary"}
    /\ FilesOf("testing") = {"run_results", "qa_report"}
    /\ FilesOf("pushing") = {"pr_summary"}
  BY DEF FilesOf, Files, Author

(* Every file of the run has an agent that has begun.                      *)
LEMMA AuthorsStep ==
    ASSUME TypeOK, Shapes, Course, [Next]_vars
    PROVE  \A f \in DOMAIN workspace' : Author[f] \in sessions'
<1>1. sessions \subseteq sessions'
  BY SessionsGrow
<1>2. ASSUME NEW files, DOMAIN workspace' \subseteq DOMAIN workspace \cup files,
             files \subseteq Coming
      PROVE  \A f \in DOMAIN workspace' : Author[f] \in sessions'
  BY <1>1, <1>2 DEF Course
<1>3. CASE workspace' = workspace
  BY <1>1, <1>3 DEF Course
<1>4. worker.at = "writing" =>
         /\ Elems(Request) \subseteq Coming
         /\ \A k \in 0..Len(Request) :
               {Request[i] : i \in 1..k} \subseteq Elems(Request)
  <2>1. ASSUME worker.at = "writing" PROVE Elems(Request) \subseteq Coming
    <3>1. Coming = InRequests(worker.order) \cup Undrafted(worker.then)
      BY <2>1 DEF Coming, Left, Delivering
    <3>2. <<worker.then, worker.order>> \in Writings
      BY <2>1 DEF Course
    <3>3. InRequests(worker.order) =
             InRequests(Tail(worker.order)) \cup Elems(Head(worker.order))
      BY <3>2, Requested
    <3>4. QED
      BY <3>1, <3>3 DEF Request
  <2>2. worker.at = "writing" => Request \in Seq(Files)
    BY RequestTyped
  <2>3. QED
    BY <2>1, <2>2 DEF Elems
<1>5. CASE WriteFiles
  <2>1. DOMAIN workspace' = DOMAIN workspace \cup Elems(Request)
    BY <1>5 DEF WriteFiles, Written, Elems
  <2>2. QED
    BY <1>2, <1>4, <1>5, <2>1 DEF WriteFiles
<1>6. ASSUME worker.at = "writing", NEW k \in 0..Len(Request),
             workspace' = Written({Request[i] : i \in 1..k})
      PROVE  \A f \in DOMAIN workspace' : Author[f] \in sessions'
  <2>1. DOMAIN workspace' = DOMAIN workspace \cup {Request[i] : i \in 1..k}
    BY <1>6 DEF Written
  <2>2. QED
    BY <1>2, <1>4, <1>6, <2>1
<1>7. ASSUME worker.at = "compiling",
             workspace' = WithFile("compile_summary", [errors |-> ~Compiles])
      PROVE  \A f \in DOMAIN workspace' : Author[f] \in sessions'
  <2>1. /\ DOMAIN workspace' = DOMAIN workspace \cup {"compile_summary"}
        /\ "compile_summary" \in Coming
    BY <1>7 DEF WithFile, Put, Coming, Undrafted, Delivering
  <2>2. QED
    BY <1>2, <2>1
<1>8. ASSUME worker.at = "testing", Test \/ JobLost,
             workspace' = WithFile("run_results", Results)
      PROVE  \A f \in DOMAIN workspace' : Author[f] \in sessions'
  <2>1. worker'.at \in {"registering", "failed"} /\ worker.at \in Agents
    <3>1. IsWorker(worker)
      BY DEF Shapes, IsWorker
    <3>2. QED
      BY <1>8, <3>1 DEF Test, JobLost, Goto, IsWorker, Agents
  <2>2. [RunStep]_vars
    BY <2>1, Started, Steps DEF Agents
  <2>3. "testing" \in sessions'
    BY <1>8, <2>1, <2>2, Begins
  <2>4. /\ DOMAIN workspace' = DOMAIN workspace \cup {"run_results"}
        /\ Author["run_results"] = "testing"
    BY <1>8 DEF WithFile, Put, Author
  <2>5. QED
    BY <1>1, <2>3, <2>4 DEF Course
<1>9. QED
  BY <1>3, <1>5, <1>6, <1>7, <1>8, WorkspaceGrows

(* The four ways a step leaves a handler on its course: a delivery begun,  *)
(* a move to another position, a stop, and a delivery going on.            *)
LEMMA DeliverKeepsCourse ==
    ASSUME TypeOK, Shapes, Course, [Next]_vars, worker'.at = "writing",
           NEW then, NEW order, <<then, order>> \in Writings,
           worker'.then = then, worker'.order = order, workspace' = workspace,
           (InRequests(order) \cup Undrafted(then)) \cap DOMAIN workspace = {},
           \A f \in InRequests(order) \cup Undrafted(then) :
               Author[f] \in sessions'
    PROVE  Course'
<1>1. Coming' = InRequests(order) \cup Undrafted(then)
  BY DEF Coming, Left, Delivering
<1>2. "writing" \notin Working
  BY DEF Working, Unread
<1>3. QED
  BY <1>1, <1>2, AuthorsStep DEF Course

LEMMA GotoKeepsCourse ==
    ASSUME TypeOK, Shapes, Course, [Next]_vars, NEW at, worker'.at = at,
           at \in Working, worker'.order = <<>>, workspace' = workspace,
           Undrafted(at) \cap DOMAIN workspace = {},
           \A f \in Undrafted(at) : Author[f] \in sessions'
    PROVE  Course'
<1>1. at \notin Delivering
  BY DEF Working, Unread, Delivering
<1>2. Coming' = Undrafted(at)
  BY <1>1 DEF Coming
<1>3. QED
  BY <1>1, <1>2, AuthorsStep DEF Course, Delivering

LEMMA StopKeepsCourse ==
    ASSUME TypeOK, Shapes, Course, [Next]_vars, worker'.at \in Stopped
    PROVE  Course'
<1>1. worker'.at \notin Working \cup Delivering
  BY DEF Working, Unread, Delivering, Stopped
<1>2. Coming' = {}
  BY <1>1 DEF Coming, Undrafted, Stopped
<1>3. QED
  BY <1>1, <1>2, AuthorsStep DEF Course, Delivering

LEMMA WriteKeepsCourse ==
    ASSUME TypeOK, Shapes, Course, Once, [Next]_vars, WriteFiles
    PROVE  Course'
<1>1. /\ worker.at = "writing" /\ worker'.at = "registering"
      /\ worker'.unregistered = Request /\ worker'.order = Tail(worker.order)
      /\ worker'.then = worker.then
  BY DEF WriteFiles, Shapes
<1>2. /\ Registered' = Registered
      /\ DOMAIN workspace' = DOMAIN workspace \cup Elems(Request)
  BY DEF WriteFiles, Registered, Written, Elems
<1>3. /\ <<worker.then, Request, Tail(worker.order)>> \in Registrations
      /\ InRequests(worker.order) =
            InRequests(Tail(worker.order)) \cup Elems(Request)
      /\ Elems(Request) \cap InRequests(Tail(worker.order)) = {}
      /\ Elems(Request) \cap Undrafted(worker.then) = {}
  BY <1>1, Requested DEF Course, Request
<1>4. /\ Coming = InRequests(worker.order) \cup Undrafted(worker.then)
      /\ Coming' = InRequests(Tail(worker.order)) \cup Undrafted(worker.then)
  BY <1>1 DEF Coming, Left, Delivering
<1>5. "registering" \notin Working
  BY DEF Working, Unread
<1>6. Coming \cap DOMAIN workspace = {} /\ Registered \subseteq DOMAIN workspace
  BY DEF Course, Once
<1>7. \A f \in Coming' : Author[f] \in sessions'
  BY <1>3, <1>4, SessionsGrow DEF Course
<1>8. QED
  BY <1>1, <1>2, <1>3, <1>4, <1>5, <1>6, <1>7, AuthorsStep DEF Course

LEMMA RegisterKeepsCourse ==
    ASSUME TypeOK, Shapes, Course, [Next]_vars, RegisterArtifact
    PROVE  Course'
<1> DEFINE now  == worker.unregistered
           todo == worker.order
           then == worker.then
<1>1. /\ worker.at = "registering"
      /\ worker'.unregistered = Tail(now) /\ worker'.order = todo
      /\ worker'.then = then
      /\ worker'.at = IF Len(now) > 1 THEN "registering"
                      ELSE IF todo # <<>> THEN "writing" ELSE then
      /\ workspace' = workspace
  BY DEF RegisterArtifact, Shapes
<1>2. Registered' = Registered \cup {Head(now)}
  BY RegisteredOf DEF RegisterArtifact, TypeOK
<1>3. /\ <<then, now, todo>> \in Registrations
      /\ Elems(now) \subseteq DOMAIN workspace \ Registered
      /\ Coming = InRequests(todo) \cup Undrafted(then)
  BY <1>1 DEF Course, Coming, Left, Delivering
<1>4. /\ then \in Working /\ then \notin Delivering
      /\ Elems(now) = {Head(now)} \cup Elems(Tail(now))
      /\ Head(now) \notin Elems(Tail(now))
      /\ Len(now) > 1 => <<then, Tail(now), todo>> \in Registrations
      /\ ~(Len(now) > 1) /\ todo # <<>> => <<then, todo>> \in Writings
  BY <1>3, Remaining DEF Working, Unread, Delivering
<1>5. Coming' \subseteq Coming
  BY <1>1, <1>3, <1>4 DEF Coming, Left, Delivering
<1>6. /\ Coming' \cap DOMAIN workspace' = {}
      /\ \A f \in Coming' \cup DOMAIN workspace' : Author[f] \in sessions'
  BY <1>1, <1>5, SessionsGrow DEF Course
<1>7. /\ worker'.at = "writing" => <<then, todo>> \in Writings
      /\ worker'.at = "registering" =>
            /\ <<then, Tail(now), todo>> \in Registrations
            /\ Elems(Tail(now)) \subseteq DOMAIN workspace' \ Registered'
      /\ worker'.at \in Working => todo = <<>>
  BY <1>1, <1>2, <1>3, <1>4 DEF Delivering, Working, Unread
<1>8. QED
  BY <1>1, <1>6, <1>7 DEF Course

(* Every step keeps every handler on its course.                           *)
LEMMA CourseStep ==
    TypeOK /\ Shapes /\ Course /\ Loads /\ Once /\ [Next]_vars => Course'
<1> SUFFICES ASSUME TypeOK, Shapes, Course, Loads, Once, [Next]_vars
             PROVE  Course'
  OBVIOUS
<1>0. IsWorker(worker) /\ sessions \subseteq sessions'
  BY SessionsGrow DEF Shapes, IsWorker
<1>1. ASSUME UNCHANGED <<workspace, artifacts, worker>> PROVE Course'
  <2>1. Registered' = Registered /\ Coming' = Coming
    BY <1>1 DEF Registered, Coming, Left
  <2>2. QED
    BY <1>0, <1>1, <2>1 DEF Course
<1>2. ASSUME NEW at, NEW v, at \in Working, worker.at \in Working,
             worker' = v, v.at = at, v.order = worker.order,
             Undrafted(at) = {} \/ Undrafted(at) = Undrafted(worker.at),
             workspace' = workspace
      PROVE  Course'
  <2>1. worker.order = <<>> /\ Coming = Undrafted(worker.at)
    BY <1>2 DEF Course, Coming, Working, Unread, Delivering
  <2>2. /\ Undrafted(at) \cap DOMAIN workspace = {}
        /\ \A f \in Undrafted(at) : Author[f] \in sessions'
    BY <1>0, <1>2, <2>1 DEF Course
  <2>3. QED
    BY <1>2, <2>1, <2>2, GotoKeepsCourse
<1>3. ASSUME NEW at, Goto(at), at \in Working, worker.at \in Working,
             Undrafted(at) = {} \/ Undrafted(at) = Undrafted(worker.at),
             workspace' = workspace
      PROVE  Course'
  <2>1. worker'.at = at /\ worker'.order = worker.order
    BY <1>0, <1>3 DEF Goto, IsWorker
  <2>2. QED
    BY <1>2, <1>3, <2>1
<1>4. CASE StartsEarly
  <2>1. /\ worker'.at \in Agents /\ worker'.order = <<>>
        /\ workspace' = workspace
    BY <1>4, Started, StartKeepsRun DEF EarlyFrame
  <2>2. worker'.at \in Working /\ Undrafted(worker'.at) = {}
    BY <2>1 DEF Agents, Working, Unread, Undrafted
  <2>3. QED
    BY <2>1, <2>2, GotoKeepsCourse
<1>5. ASSUME [RunStep]_vars PROVE Course'
  <2>1. worker.at \in Agents /\ worker'.at # worker.at =>
           /\ FilesOf(worker.at) \cap DOMAIN workspace = {}
           /\ \A f \in FilesOf(worker.at) : Author[f] \in sessions'
    BY <1>5, Begins DEF FilesOf
  <2>2. ASSUME NEW then, NEW order, <<then, order>> \in Writings,
               worker.at \in Agents, worker'.at = "writing",
               worker'.then = then, worker'.order = order,
               workspace' = workspace,
               InRequests(order) \cup Undrafted(then) \subseteq FilesOf(worker.at)
        PROVE  Course'
    <3>1. worker'.at # worker.at
      BY <2>2 DEF Agents
    <3>2. QED
      BY <2>1, <2>2, <3>1, DeliverKeepsCourse
  <2>3. ASSUME NEW then, NEW order, <<then, order>> \in Writings,
               worker.at \in Working, worker'.at = "writing",
               worker'.then = then, worker'.order = order,
               workspace' = workspace,
               InRequests(order) \cup Undrafted(then) \subseteq Undrafted(worker.at)
        PROVE  Course'
    <3>1. Coming = Undrafted(worker.at)
      BY <2>3 DEF Coming, Working, Unread, Delivering
    <3>2. QED
      BY <1>0, <2>3, <3>1, DeliverKeepsCourse DEF Course
  <2>4. ASSUME NEW at, worker.at \in Agents, worker'.at = at, at \in Working,
               worker'.order = worker.order, workspace' = workspace,
               at # worker.at, Undrafted(at) \subseteq FilesOf(worker.at)
        PROVE  Course'
    <3>1. worker.order = <<>>
      BY <2>4 DEF Course, Agents, Working, Unread
    <3>2. QED
      BY <2>1, <2>4, <3>1, GotoKeepsCourse
  <2>5. CASE (ApiStep /\ UNCHANGED <<slug, remote>>) \/ UNCHANGED vars
    BY <1>1, <2>5, ApiKeepsRun DEF ApiFrame, vars, runVars
  <2>6. CASE RunnerStep
    <3>1. CASE EndLoad /\ worker.at = "loading"
      <4>1. /\ worker'.at = "saving" /\ worker'.order = worker.order
            /\ workspace' = workspace
        BY <1>0, <3>1 DEF EndLoad, IsWorker
      <4>2. QED
        BY <1>2, <3>1, <4>1 DEF Undrafted, Working, Unread
    <3>2. QED
      BY <1>1, <2>6, <3>1 DEF RunnerStep, LoadFile, EndLoad, runVars
  <2>7. CASE ListUploads
    <3>1. CASE rows # <<>>
      <4>1. /\ worker.at = "ingesting" /\ worker'.at = "submitting"
            /\ worker'.order = worker.order /\ workspace' = workspace
        BY <1>0, <2>7, <3>1 DEF ListUploads, IsWorker
      <4>2. Undrafted("submitting") \subseteq FilesOf("ingesting")
        BY AgentFiles DEF Undrafted
      <4>3. QED
        BY <2>4, <4>1, <4>2 DEF Agents, Working, Unread
    <3>2. CASE rows = <<>>
      <4> DEFINE order == <<<<"requirements">>>>
      <4>1. /\ worker.at = "ingesting" /\ worker'.at = "writing"
            /\ worker'.then = "intake" /\ worker'.order = order
            /\ workspace' = workspace
        BY <1>0, <2>7, <3>2 DEF ListUploads, IsWorker
      <4>2. InRequests(order) \cup Undrafted("intake") \subseteq FilesOf("ingesting")
        BY AgentFiles, InRequestsOf DEF Undrafted
      <4>3. <<"intake", order>> \in Writings /\ "ingesting" \in Agents
        BY AllOrders DEF Agents
      <4> HIDE DEF order
      <4>4. QED
        BY <2>2, <4>1, <4>2, <4>3
    <3>3. QED
      BY <3>1, <3>2
  <2>8. CASE GetDataDictionary
    <3> DEFINE order == <<<<"data_dictionary">>, <<"raw_tables">>,
                          <<"requirements">>>>
    <3>1. /\ worker.at = "describing" /\ worker'.at = "writing"
          /\ worker'.then = "intake" /\ worker'.order = order
          /\ workspace' = workspace
      BY <1>0, <2>8 DEF GetDataDictionary, IsWorker
    <3>2. InRequests(order) \cup Undrafted("intake") \subseteq Undrafted("describing")
      BY InRequestsOf DEF Undrafted
    <3>3. <<"intake", order>> \in Writings /\ "describing" \in Working
      BY AllOrders DEF Working
    <3> HIDE DEF order
    <3>4. QED
      BY <2>3, <3>1, <3>2, <3>3
  <2>9. CASE PlanProfile
    <3>1. /\ worker.at = "profiling" /\ worker'.at = "querying"
          /\ worker'.order = worker.order /\ workspace' = workspace
      BY <1>0, <2>9 DEF PlanProfile, IsWorker
    <3>2. Undrafted("querying") \subseteq FilesOf("profiling")
      BY AgentFiles DEF Undrafted
    <3>3. QED
      BY <2>4, <3>1, <3>2 DEF Agents, Working
  <2>10. CASE RunQuery
    <3>0. worker.at = "querying" /\ workspace' = workspace
      BY <2>10 DEF RunQuery
    <3>1. CASE worker' = [worker EXCEPT !.at = "failed"]
      BY <1>0, <3>1, StopKeepsCourse DEF Stopped, IsWorker
    <3>2. CASE worker' = [worker EXCEPT !.queries = @ - 1]
      <4>1. worker'.at = worker.at /\ worker'.order = worker.order
        BY <1>0, <3>2 DEF IsWorker
      <4>2. QED
        BY <1>2, <3>0, <4>1 DEF Working
    <3>3. CASE worker' = [worker EXCEPT !.at = "writing", !.queries = 0,
                              !.order = <<<<"profile_report", "profiling">>>>,
                              !.then = "building"]
      <4> DEFINE order == <<<<"profile_report", "profiling">>>>
      <4>1. /\ worker'.at = "writing" /\ worker'.order = order
            /\ worker'.then = "building"
        BY <1>0, <3>3 DEF IsWorker
      <4>2. InRequests(order) \cup Undrafted("building") \subseteq Undrafted("querying")
        BY InRequestsOf DEF Undrafted
      <4>3. <<"building", order>> \in Writings /\ "querying" \in Working
        BY AllOrders DEF Working
      <4> HIDE DEF order
      <4>4. QED
        BY <2>3, <3>0, <4>1, <4>2, <4>3
    <3>4. QED
      BY <2>10, <3>1, <3>2, <3>3 DEF RunQuery
  <2>11. CASE BeginLoad \/ SaveSchemas
    <3>1. \/ worker.at = "submitting" /\ Goto("loading")
          \/ worker.at = "saving" /\ Goto("describing")
      BY <2>11 DEF BeginLoad, SaveSchemas
    <3>2. workspace' = workspace
      BY <2>11 DEF BeginLoad, SaveSchemas
    <3>3. QED
      BY <1>3, <3>1, <3>2 DEF Undrafted, Working, Unread
  <2>12. CASE \/ \E at \in {"submitting", "loading", "describing", "querying"} :
                    CallFails(at)
              \/ WriteFails \/ WorkerCrash \/ JobLost
    <3>1. Goto("failed") \/ Goto("crashed")
      BY <2>12 DEF CallFails, WriteFails, WorkerCrash, JobLost
    <3>2. QED
      BY <1>0, <3>1, StopKeepsCourse DEF Goto, IsWorker, Stopped
  <2>13. CASE DataStep
    BY <2>7, <2>8, <2>9, <2>10, <2>11, <2>12, <2>13, WriteKeepsCourse,
       RegisterKeepsCourse
    DEF DataStep
  <2>14. ASSUME NEW then, NEW order, <<then, order>> \in Writings, NEW draft,
                worker.at \in Agents, Deliver(draft, order, then),
                workspace' = workspace,
                InRequests(order) \cup Undrafted(then) \subseteq FilesOf(worker.at)
         PROVE  Course'
    BY <1>0, <2>2, <2>14 DEF Deliver, IsWorker
  <2>15. CASE RunIntake
    <3>1. InRequests(<<<<"intake_summary">>>>) \cup Undrafted("designing")
             \subseteq FilesOf("intake")
      BY AgentFiles, InRequestsOf DEF Undrafted
    <3>2. QED
      BY <2>14, <2>15, <3>1, AllOrders DEF RunIntake, Agents
  <2>16. CASE RunDesign
    <3>1. InRequests(<<<<"design">>>>) \cup Undrafted("DESIGN_REVIEW")
             \subseteq FilesOf("designing")
      BY AgentFiles, InRequestsOf DEF Undrafted
    <3>2. QED
      BY <2>14, <2>16, <3>1, AllOrders DEF RunDesign, Agents
  <2>17. CASE RunBuild
    <3>1. InRequests(<<<<"model", "schema_yml">>>>) \cup Undrafted("compiling")
             \subseteq FilesOf("building")
      BY AgentFiles, InRequestsOf DEF Undrafted
    <3>2. QED
      BY <2>14, <2>17, <3>1, AllOrders DEF RunBuild, Agents
  <2>18. CASE OpenPullRequest
    <3> DEFINE order == <<<<"pr_summary">>>>
    <3>1. /\ worker.at = "opening" /\ worker'.at = "writing"
          /\ worker'.then = "done" /\ worker'.order = order
          /\ workspace' = workspace
      BY <1>0, <2>18 DEF OpenPullRequest, Deliver, IsWorker
    <3>2. InRequests(order) \cup Undrafted("done") \subseteq Undrafted("opening")
      BY InRequestsOf DEF Undrafted
    <3>3. <<"done", order>> \in Writings /\ "opening" \in Working
      BY AllOrders DEF Working
    <3> HIDE DEF order
    <3>4. QED
      BY <2>3, <3>1, <3>2, <3>3
  <2>19. CASE ApproveGate
    <3>1. /\ worker.at \in {"DESIGN_REVIEW", "READY_FOR_REVIEW"}
          /\ \E at \in {"profiling", "pushing"} : Goto(at)
          /\ workspace' = workspace
      BY <2>19 DEF ApproveGate, Behind
    <3>2. QED
      BY <1>3, <3>1 DEF Undrafted, Working
  <2>20. CASE Push
    <3>1. /\ worker.at = "pushing" /\ worker'.at = "opening"
          /\ worker'.order = worker.order /\ workspace' = workspace
      BY <1>0, <2>20 DEF Push, Goto, IsWorker
    <3>2. Undrafted("opening") \subseteq FilesOf("pushing")
      BY AgentFiles DEF Undrafted
    <3>3. QED
      BY <2>4, <3>1, <3>2 DEF Agents, Working
  <2>21. CASE Compile /\ Compiles
    <3> DEFINE now == <<"compile_summary">>
    <3>1. /\ worker.at = "compiling" /\ worker'.at = "registering"
          /\ worker'.unregistered = now
          /\ worker'.order = worker.order /\ worker'.then = "testing"
          /\ artifacts' = artifacts
      BY <1>0, <2>21 DEF Compile, IsWorker
    <3>2. worker.order = <<>> /\ "compile_summary" \in Coming
      BY <3>1 DEF Course, Working, Coming, Undrafted, Delivering
    <3>3. /\ DOMAIN workspace' = DOMAIN workspace \cup {"compile_summary"}
          /\ Registered' = Registered /\ "compile_summary" \notin DOMAIN workspace
          /\ Registered \subseteq DOMAIN workspace
      BY <2>21, <3>2 DEF Compile, Registered, WithFile, Put, Course, Once
    <3>4. /\ <<"testing", now, <<>>>> \in Registrations
          /\ Elems(now) = {"compile_summary"} /\ InRequests(<<>>) = {}
      BY ElemsOf, InRequestsOf DEF Registrations
    <3>5. Coming' = {}
      BY <3>1, <3>2, <3>4 DEF Coming, Left, Undrafted, Delivering
    <3>6. "registering" \notin Working
      BY DEF Working, Unread
    <3> HIDE DEF now
    <3>7. QED
      BY <3>1, <3>2, <3>3, <3>4, <3>5, <3>6, AuthorsStep DEF Course
  <2>22. CASE Compile /\ ~Compiles
    <3>1. worker'.at = "failed"
      BY <1>0, <2>22 DEF Compile, IsWorker
    <3>2. QED
      BY <3>1, StopKeepsCourse DEF Stopped
  <2>23. CASE Test
    <3> DEFINE now == <<"run_results">>
               order == <<<<"qa_report">>>>
    <3>1. /\ worker.at = "testing" /\ worker'.at = "registering"
          /\ worker'.unregistered = now
          /\ worker'.order = order /\ worker'.then = "READY_FOR_REVIEW"
          /\ artifacts' = artifacts
      BY <1>0, <2>23 DEF Test, IsWorker
    <3>2. /\ FilesOf("testing") = {"run_results", "qa_report"}
          /\ FilesOf("testing") \cap DOMAIN workspace = {}
          /\ \A f \in FilesOf("testing") : Author[f] \in sessions'
      BY <2>1, <3>1, AgentFiles DEF Agents
    <3>3. /\ DOMAIN workspace' = DOMAIN workspace \cup {"run_results"}
          /\ Registered' = Registered
          /\ Registered \subseteq DOMAIN workspace
      BY <2>23 DEF Test, Registered, WithFile, Put, Once
    <3>4. /\ <<"READY_FOR_REVIEW", now, order>> \in Registrations
          /\ Elems(now) = {"run_results"} /\ InRequests(order) = {"qa_report"}
      BY ElemsOf, InRequestsOf DEF Registrations
    <3>5. Coming' = {"qa_report"}
      BY <3>1, <3>4 DEF Coming, Left, Undrafted, Delivering
    <3>6. "registering" \notin Working
      BY DEF Working, Unread
    <3> HIDE DEF now, order
    <3>7. QED
      BY <3>1, <3>2, <3>3, <3>4, <3>5, <3>6, AuthorsStep DEF Course
  <2>24. CASE AgentStep
    BY <2>12, <2>15, <2>16, <2>17, <2>18, <2>19, <2>20, <2>21, <2>22, <2>23,
       <2>24
    DEF AgentStep
  <2>25. QED
    BY <1>5, <2>5, <2>6, <2>13, <2>24, RunSteps
<1>6. QED
  BY <1>4, <1>5, Steps

-----------------------------------------------------------------------------
(* Type correctness of every step.                                         *)
LEMMA TypeStep ==
    TypeOK /\ Shapes /\ Course /\ Loads /\ Once /\ [Next]_vars =>
        TypeOK' /\ Shapes'
<1> SUFFICES ASSUME TypeOK, Shapes, Course, Loads, Once, [Next]_vars
             PROVE  TypeOK' /\ Shapes'
  OBVIOUS
<1>1. UploadTypes' /\ CatalogTypes' /\ RunTypes'
  BY UploadTypesStep, CatalogTypesStep, RunTypesStep
<1>2. WorkerType(worker)' /\ worker'.listed \in 0..Len(rows')
  BY WorkerTypesStep
<1>3. /\ worker'.at = "registering" => worker'.unregistered # <<>>
      /\ worker'.at = "writing" => worker'.order # <<>>
  BY CourseStep, OrdersTyped DEF Course
<1>4. /\ disk' \in [Names -> Bytes]
      /\ sent' \in 0..MaxUploads /\ good' \subseteq 1..sent'
      /\ rows' \in Seq([name : Names, upload : 1..sent', schema : Bytes])
      /\ sending' \subseteq Names /\ Cardinality(sending') <= 1
  <2>1. Cardinality({}) = 0 /\ \A n : Cardinality({n}) = 1
    BY FS_EmptySet, FS_Singleton
  <2>2. sending' = {} \/ \E n \in Names : sending' = {n}
    BY <1>1 DEF UploadTypes
  <2>3. sending' \in SUBSET Names
    BY <2>2
  <2>4. Cardinality(sending') <= 1
    <3>1. CASE sending' = {}
      BY <2>1, <3>1
    <3>2. ASSUME NEW n \in Names, sending' = {n} PROVE Cardinality(sending') <= 1
      BY <2>1, <3>2
    <3>3. QED
      BY <2>2, <3>1, <3>2
  <2>5. QED
    BY <1>1, <2>3, <2>4 DEF UploadTypes, Row
<1>5. TypeOK'
  BY <1>1, <1>2, <1>3, <1>4
  DEF TypeOK, CatalogTypes, RunTypes, WorkerType, Bytewise
<1>6. Shapes'
  BY <1>1, <1>2 DEF Shapes, UploadTypes, CatalogTypes, WorkerType, IsWorker
<1>7. QED
  BY <1>5, <1>6

-----------------------------------------------------------------------------

(* No file is ever removed from a run.                                     *)
LEMMA DomainGrows ==
    ASSUME [Next]_vars
    PROVE  DOMAIN workspace \subseteq DOMAIN workspace'
  BY WorkspaceGrows DEF WriteFiles, Written, WithFile, Put

(* Every file is registered once: the handler that writes it has one turn. *)
LEMMA OnceStep ==
    TypeOK /\ Shapes /\ Course /\ Once /\ [Next]_vars => Once'
<1> SUFFICES ASSUME TypeOK, Shapes, Course, Once, [Next]_vars
             PROVE  Once'
  OBVIOUS
<1>1. CASE artifacts' = artifacts
  BY <1>1, DomainGrows DEF Once, Registered
<1>2. CASE RegisterArtifact
  <2> DEFINE f == Head(worker.unregistered)
  <2>1. /\ <<worker.then, worker.unregistered, worker.order>> \in Registrations
        /\ artifacts' = Append(artifacts, f)
        /\ Elems(worker.unregistered) \subseteq DOMAIN workspace \ Registered
    BY <1>2 DEF RegisterArtifact, Course
  <2>2. f \in Elems(worker.unregistered)
    <3>1. Elems(worker.unregistered) =
             {Head(worker.unregistered)} \cup Elems(Tail(worker.unregistered))
      BY <2>1, Remaining
    <3>2. QED
      BY <3>1
  <2>3. Registered' = Registered \cup {f} /\ Len(artifacts') = Len(artifacts) + 1
    BY <2>1, RegisteredOf DEF TypeOK
  <2>4. /\ IsFiniteSet(Registered \cup {f})
        /\ Cardinality(Registered \cup {f}) = Cardinality(Registered) + 1
    BY <2>1, <2>2, FS_AddElement DEF Once
  <2> HIDE DEF f
  <2>5. QED
    BY <2>1, <2>2, <2>3, <2>4, DomainGrows DEF Once
<1>3. QED
  BY <1>1, <1>2, ArtifactsGrow

(* Which handler writes a file the later ones look into.                   *)
LEMMA RequestFiles ==
    ASSUME NEW then, NEW order, <<then, order>> \in Writings,
           NEW f \in Elems(Head(order))
    PROVE  /\ f \in InRequests(order)
           /\ f \in {"data_dictionary", "raw_tables"} => then = "intake"
           /\ f = "profile_report" => then = "building"
           /\ f = "qa_report" => then = "READY_FOR_REVIEW"
           /\ f \notin {"compile_summary", "run_results"}
<1>1. CASE /\ then = "intake"
          /\ order = <<<<"data_dictionary">>, <<"raw_tables">>, <<"requirements">>>>
  BY <1>1, Takes, InRequestsOf, ElemsOf
<1>2. CASE /\ then = "intake"
          /\ order = <<<<"raw_tables">>, <<"requirements">>>>
  BY <1>2, Takes, InRequestsOf, ElemsOf
<1>3. CASE /\ then = "intake"
          /\ order = <<<<"requirements">>>>
  BY <1>3, Takes, InRequestsOf, ElemsOf
<1>4. CASE /\ then = "designing"
          /\ order = <<<<"intake_summary">>>>
  BY <1>4, Takes, InRequestsOf, ElemsOf
<1>5. CASE /\ then = "DESIGN_REVIEW"
          /\ order = <<<<"design">>>>
  BY <1>5, Takes, InRequestsOf, ElemsOf
<1>6. CASE /\ then = "building"
          /\ order = <<<<"profile_report", "profiling">>>>
  BY <1>6, Takes, InRequestsOf, ElemsOf
<1>7. CASE /\ then = "compiling"
          /\ order = <<<<"model", "schema_yml">>>>
  BY <1>7, Takes, InRequestsOf, ElemsOf
<1>8. CASE /\ then = "READY_FOR_REVIEW"
          /\ order = <<<<"qa_report">>>>
  BY <1>8, Takes, InRequestsOf, ElemsOf
<1>9. CASE /\ then = "done"
          /\ order = <<<<"pr_summary">>>>
  BY <1>9, Takes, InRequestsOf, ElemsOf
<1>10. QED
  BY <1>1, <1>2, <1>3, <1>4, <1>5, <1>6, <1>7, <1>8, <1>9 DEF Writings

(* Where the contents of a file come from: from before, from the draft of  *)
(* the handler, or from dbt.                                               *)
LEMMA ContentOf ==
    ASSUME Course, [Next]_vars, NEW f \in DOMAIN workspace'
    PROVE  \/ f \in DOMAIN workspace /\ workspace'[f] = workspace[f]
           \/ /\ worker.at = "writing" /\ f \in Elems(Request)
              /\ workspace'[f] = worker.draft[f]
           \/ f = "compile_summary" /\ workspace'[f] = [errors |-> ~Compiles]
           \/ /\ f = "run_results" /\ workspace'[f] = Results
              /\ worker.at = "testing" /\ (Test \/ JobLost)
<1>1. CASE workspace' = workspace
  BY <1>1
<1>2. CASE WriteFiles
  BY <1>2 DEF WriteFiles, Written, Elems
<1>3. ASSUME worker.at = "writing", NEW k \in 0..Len(Request),
             workspace' = Written({Request[i] : i \in 1..k})
      PROVE  \/ f \in DOMAIN workspace /\ workspace'[f] = workspace[f]
             \/ f \in Elems(Request) /\ workspace'[f] = worker.draft[f]
  <2>1. {Request[i] : i \in 1..k} \subseteq Elems(Request)
    BY <1>3, RequestTyped DEF Elems
  <2>2. QED
    BY <1>3, <2>1 DEF Written
<1>4. ASSUME NEW g, NEW x, workspace' = WithFile(g, x)
      PROVE  \/ f \in DOMAIN workspace /\ workspace'[f] = workspace[f]
             \/ f = g /\ workspace'[f] = x
  BY <1>4 DEF WithFile, Put
<1>5. CASE /\ worker.at = "writing"
           /\ \E k \in 0..Len(Request) :
                 workspace' = Written({Request[i] : i \in 1..k})
  BY <1>3, <1>5
<1>6. CASE workspace' = WithFile("compile_summary", [errors |-> ~Compiles])
  BY <1>4, <1>6
<1>7. CASE /\ worker.at = "testing" /\ (Test \/ JobLost)
           /\ workspace' = WithFile("run_results", Results)
  BY <1>4, <1>7
<1>8. QED
  BY <1>1, <1>2, <1>5, <1>6, <1>7, WorkspaceGrows

-----------------------------------------------------------------------------

(* How the worker moves, and with what draft: enough of every step to      *)
(* follow what the handlers know of each other's files.                    *)
SameErrand == worker'.then = worker.then /\ worker'.draft = worker.draft

Forward == {<<"ingesting", "submitting">>, <<"submitting", "loading">>,
            <<"loading", "saving">>, <<"saving", "describing">>,
            <<"DESIGN_REVIEW", "profiling">>, <<"READY_FOR_REVIEW", "pushing">>}

Errands == {<<"intake", "designing">>, <<"designing", "DESIGN_REVIEW">>,
            <<"building", "compiling">>, <<"opening", "done">>}

Moves ==
    \/ worker'.at = worker.at /\ SameErrand
    \/ worker'.at \in Stopped /\ SameErrand
    \/ <<worker.at, worker'.at>> \in Forward /\ SameErrand
    \/ Push /\ worker.at = "pushing" /\ worker'.at = "opening" /\ SameErrand
    \/ PlanProfile /\ worker.at = "profiling" /\ worker'.at = "querying"
    \/ /\ worker.at = "querying" /\ worker'.at = "writing"
       /\ worker'.then = "building" /\ worker'.draft = worker.draft
    \/ /\ worker.at = "ingesting" /\ worker'.at = "writing"
       /\ worker'.then = "intake" /\ worker'.listed = 0
    \/ /\ worker.at = "describing" /\ worker'.at = "writing"
       /\ worker'.then = "intake"
       /\ worker'.draft["data_dictionary"] = catalog.tables
    \/ worker.at = "writing" /\ worker'.at = "registering" /\ SameErrand
    \/ /\ worker.at = "registering" /\ SameErrand
       /\ worker'.at \in {"registering", "writing", worker.then}
    \/ /\ <<worker.at, worker'.then>> \in Errands /\ worker'.at = "writing"
    \/ /\ worker.at = "compiling" /\ worker'.at = "registering"
       /\ worker'.then = "testing" /\ Compiles
    \/ /\ worker.at = "testing" /\ worker'.at = "registering"
       /\ worker'.then = "READY_FOR_REVIEW"
       /\ worker'.draft["qa_report"] = Results
       /\ workspace' = WithFile("run_results", Results)

LEMMA MovesStep ==
    ASSUME TypeOK, Shapes, [RunStep]_vars
    PROVE  /\ Moves
           /\ \/ worker'.listed = worker.listed
              \/ worker.at = "ingesting" /\ worker'.at # "ingesting"
<1> DEFINE Goal == /\ Moves
                   /\ \/ worker'.listed = worker.listed
                      \/ worker.at = "ingesting" /\ worker'.at # "ingesting"
<1>0. IsWorker(worker)
  BY DEF Shapes, IsWorker
<1>1. CASE UNCHANGED worker
  BY <1>1 DEF Moves, SameErrand
<1>2. ASSUME NEW x, Goto(x), x \in Stopped \/ <<worker.at, x>> \in Forward
      PROVE  Goal
  BY <1>0, <1>2 DEF Goto, Moves, SameErrand, IsWorker
<1>3. CASE ListUploads
  <2>1. worker.at = "ingesting"
    BY <1>3 DEF ListUploads
  <2>2. CASE rows # <<>>
    BY <1>0, <1>3, <2>1, <2>2
    DEF ListUploads, Moves, SameErrand, IsWorker, Forward
  <2>3. CASE rows = <<>>
    <3>1. worker.listed = 0
      BY <2>3, ListedRows
    <3>2. /\ worker'.at = "writing" /\ worker'.then = "intake"
          /\ worker'.listed = worker.listed
      BY <1>0, <1>3, <2>3 DEF ListUploads, IsWorker
    <3>3. QED
      BY <2>1, <3>1, <3>2 DEF Moves
  <2>4. QED
    BY <2>2, <2>3
<1>4. CASE EndLoad /\ worker.at = "loading"
  BY <1>0, <1>4 DEF EndLoad, Moves, SameErrand, IsWorker, Forward
<1>5. CASE GetDataDictionary
  <2>1. /\ worker.at = "describing" /\ worker'.at = "writing"
        /\ worker'.then = "intake" /\ worker'.listed = worker.listed
        /\ worker'.draft = [data_dictionary |-> catalog.tables,
                            raw_tables |-> catalog.tables,
                            requirements |-> Requirements(worker.listed,
                                                          worker.tables)]
    BY <1>0, <1>5 DEF GetDataDictionary, IsWorker
  <2>2. QED
    BY <2>1 DEF Moves
<1>6. CASE PlanProfile
  <2>1. /\ worker.at = "profiling" /\ worker'.at = "querying"
        /\ worker'.listed = worker.listed
    BY <1>0, <1>6 DEF PlanProfile, IsWorker
  <2>2. QED
    BY <1>6, <2>1 DEF Moves
<1>7. CASE RunQuery
  <2>1. worker.at = "querying"
    BY <1>7 DEF RunQuery
  <2>2. \/ /\ worker'.at = "failed" /\ SameErrand
        \/ /\ worker'.at = worker.at /\ SameErrand
        \/ /\ worker'.at = "writing" /\ worker'.then = "building"
           /\ worker'.draft = worker.draft
    BY <1>0, <1>7 DEF RunQuery, SameErrand, IsWorker
  <2>3. worker'.listed = worker.listed
    BY <1>0, <1>7 DEF RunQuery, IsWorker
  <2>4. QED
    BY <2>1, <2>2, <2>3 DEF Moves, Stopped
<1>8. CASE WriteFiles
  BY <1>0, <1>8 DEF WriteFiles, Moves, SameErrand, IsWorker
<1>9. CASE RegisterArtifact
  BY <1>0, <1>9 DEF RegisterArtifact, Moves, SameErrand, IsWorker
<1>10. ASSUME NEW draft, NEW order, NEW then, Deliver(draft, order, then),
              <<worker.at, then>> \in Errands
       PROVE  Goal
  BY <1>0, <1>10 DEF Deliver, Moves, IsWorker
<1>11. CASE RunIntake \/ RunDesign \/ RunBuild \/ OpenPullRequest
  <2>1. \E draft, order, then : /\ Deliver(draft, order, then)
                                /\ <<worker.at, then>> \in Errands
    BY <1>11 DEF RunIntake, RunDesign, RunBuild, OpenPullRequest, Errands
  <2>2. QED
    BY <1>10, <2>1
<1>12. CASE Compile
  <2>1. CASE Compiles
    BY <1>0, <1>12, <2>1 DEF Compile, Moves, IsWorker
  <2>2. CASE ~Compiles
    BY <1>2, <1>12, <2>2 DEF Compile, Goto, Stopped
  <2>3. QED
    BY <2>1, <2>2
<1>13. CASE Test
  <2>1. /\ worker.at = "testing" /\ worker'.at = "registering"
        /\ worker'.then = "READY_FOR_REVIEW" /\ worker'.listed = worker.listed
        /\ worker'.draft = [qa_report |-> Results]
        /\ workspace' = WithFile("run_results", Results)
    BY <1>0, <1>13 DEF Test, IsWorker
  <2>2. QED
    BY <2>1 DEF Moves
<1>14. ASSUME \/ BeginLoad \/ SaveSchemas \/ WriteFails \/ WorkerCrash
              \/ ApproveGate \/ JobLost
              \/ \E at \in {"submitting", "loading", "describing", "querying"} :
                     CallFails(at)
       PROVE  Goal
  <2>1. \E x : Goto(x) /\ (x \in Stopped \/ <<worker.at, x>> \in Forward)
    <3>1. CASE ApproveGate
      BY <3>1 DEF ApproveGate, Behind, Forward
    <3>2. QED
      BY <1>14, <3>1
      DEF BeginLoad, SaveSchemas, WriteFails, WorkerCrash, JobLost,
          CallFails, Forward, Stopped
  <2>2. QED
    BY <1>2, <2>1
<1>15. CASE (ApiStep /\ UNCHANGED <<slug, remote>>) \/ UNCHANGED vars
  BY <1>1, <1>15, ApiKeepsRun DEF ApiFrame, vars, runVars
<1>16. CASE Push
  <2>1. /\ worker.at = "pushing" /\ worker'.at = "opening"
        /\ SameErrand /\ worker'.listed = worker.listed
    BY <1>0, <1>16 DEF Push, Goto, SameErrand, IsWorker
  <2>2. QED
    BY <1>16, <2>1 DEF Moves
<1>17. CASE RunnerStep
  BY <1>1, <1>4, <1>17 DEF RunnerStep, LoadFile, EndLoad, runVars
<1>18. CASE DataStep
  BY <1>3, <1>5, <1>6, <1>7, <1>8, <1>9, <1>14, <1>18 DEF DataStep
<1>19. CASE AgentStep
  BY <1>11, <1>12, <1>13, <1>14, <1>16, <1>19 DEF AgentStep
<1>20. QED
  BY <1>15, <1>17, <1>18, <1>19, RunSteps

(* The uploads are listed once, by the step that begins the ingestion.     *)
LEMMA ListedKept ==
    ASSUME TypeOK, Shapes, Course, [Next]_vars
    PROVE  \/ worker'.listed = worker.listed
           \/ worker.at = "ingesting" /\ "ingesting" \notin sessions
<1>1. CASE StartsEarly
  BY <1>1, Started
<1>2. CASE [RunStep]_vars
  BY <1>2, MovesStep, Begins DEF Agents
<1>3. QED
  BY <1>1, <1>2, Steps

(* The files of the ingestion handler are drafted by its own steps.        *)
LEMMA DescribingFrom ==
    ASSUME TypeOK, Shapes, Course, [Next]_vars, Describing'
    PROVE  \/ Describing
           \/ worker.at = "saving" /\ worker'.at = "describing"
           \/ worker.at = "ingesting" /\ worker'.listed = 0
<1>1. ~StartsEarly
  BY Started DEF Describing, Delivering, Agents
<1>2. Moves
  BY <1>1, MovesStep, Steps
<1>3. worker.at = "registering" => worker.then # "describing"
  BY Remaining DEF Course
<1>4. QED
  BY <1>2, <1>3 DEF Moves, Describing, Delivering, SameErrand, Forward, Errands,
                    Stopped

(* The catalog is written when it is made and by the loader.               *)
LEMMA CatalogSettled ==
    ASSUME [Next]_vars
    PROVE  catalog' = catalog \/ BeginLoad \/ LoadFile
<1>1. CASE \/ (ApiStep /\ UNCHANGED <<slug, remote>>) \/ UNCHANGED vars
           \/ StartsEarly
  BY <1>1, ApiKeepsRun, StartKeepsRun DEF ApiFrame, EarlyFrame, vars, catalogVars
<1>2. CASE RunnerStep \/ AgentStep
  BY <1>2 DEF RunnerStep, EndLoad, catalogVars, AgentStep, RunIntake,
              RunDesign, ApproveGate, RunBuild, Compile, Test, Push,
              OpenPullRequest, JobLost
<1>3. CASE DataStep
  BY <1>3
  DEF DataStep, ListUploads, SaveSchemas, GetDataDictionary, PlanProfile,
      RunQuery, CallFails, WriteFiles, WriteFails, WorkerCrash,
      RegisterArtifact, catalogVars
<1>4. QED
  BY <1>1, <1>2, <1>3, Steps, RunSteps

-----------------------------------------------------------------------------

(* The positions of the ingestion handler once it has begun.               *)
Reading == {"submitting", "loading", "saving", "describing"}

(* A step that leaves the catalog, the loader and the rows alone, and      *)
(* does not go on with the ingestion handler.                              *)
BesideLoading ==
    /\ UNCHANGED <<catalog, loader, rows>>
    /\ worker'.at \notin Reading

(* The steps Loads and Listings have to look at, one by one, and all the   *)
(* others together.                                                        *)
LEMMA BesideLoadingOf ==
    ASSUME TypeOK, Shapes, Course, [Next]_vars
    PROVE  \/ UNCHANGED <<catalog, loader, workspace, artifacts, worker>>
              /\ (rows' = rows \/ \E n \in Names : InsertRow(n))
           \/ ListUploads \/ BeginLoad \/ LoadFile \/ EndLoad \/ SaveSchemas
           \/ BesideLoading
<1>0. IsWorker(worker)
  BY DEF Shapes, IsWorker
<1> USE DEF Reading
<1>1. CASE UNCHANGED vars
  BY <1>1 DEF vars, uploadVars, catalogVars, runVars
<1>2. CASE ApiStep /\ UNCHANGED <<slug, remote>>
  <2>1. rows' = rows \/ \E n \in Names : InsertRow(n)
    BY <1>2 DEF ApiStep, BeginUpload, EndWrite, OpenPreview, ClosePreview,
                ApiCrash, uploadVars
  <2>2. QED
    BY <1>2, <2>1, ApiKeepsRun DEF ApiFrame
<1>3. CASE RunnerStep
  BY <1>3 DEF RunnerStep
<1>4. ASSUME NEW x, Goto(x), x \notin Reading PROVE worker'.at \notin Reading
  BY <1>0, <1>4 DEF Goto, IsWorker
<1>5. CASE GetDataDictionary \/ PlanProfile \/ WriteFiles
  <2>1. worker'.at \notin Reading
    BY <1>0, <1>5 DEF GetDataDictionary, PlanProfile, WriteFiles, IsWorker
  <2>2. QED
    BY <1>5, <2>1 DEF GetDataDictionary, PlanProfile, WriteFiles, BesideLoading,
                      uploadVars, catalogVars
<1>6. CASE RunQuery
  <2>1. worker'.at \notin Reading
    BY <1>0, <1>6 DEF RunQuery, IsWorker
  <2>2. QED
    BY <1>6, <2>1 DEF RunQuery, BesideLoading, uploadVars, catalogVars
<1>7. CASE RegisterArtifact
  <2>1. worker.then \notin Reading
    BY <1>7, Remaining DEF RegisterArtifact, Course, Unread
  <2>2. worker'.at \notin Reading
    BY <1>0, <1>7, <2>1 DEF RegisterArtifact, IsWorker
  <2>3. QED
    BY <1>7, <2>2 DEF RegisterArtifact, BesideLoading, uploadVars, catalogVars
<1>8. CASE \/ WriteFails \/ WorkerCrash
           \/ \E at \in {"submitting", "loading", "describing", "querying"} :
                  CallFails(at)
  BY <1>4, <1>8 DEF WriteFails, WorkerCrash, CallFails, BesideLoading,
                    uploadVars, catalogVars
<1>9. CASE DataStep
  BY <1>5, <1>6, <1>7, <1>8, <1>9 DEF DataStep
<1>10. CASE AgentStep
  <2>1. UNCHANGED <<catalog, loader, rows>>
    BY <1>10 DEF AgentStep, RunIntake, RunDesign, ApproveGate, RunBuild, Compile,
                 Test, Push, OpenPullRequest, JobLost, uploadVars, catalogVars
  <2>2. CASE ApproveGate \/ Push \/ JobLost
    <3>1. \E x \in {"profiling", "pushing", "opening", "failed"} : Goto(x)
      <4>1. CASE ApproveGate
        BY <4>1 DEF ApproveGate, Behind
      <4>2. QED
        BY <2>2, <4>1 DEF Push, JobLost
    <3>2. QED
      BY <1>4, <2>1, <3>1 DEF BesideLoading
  <2>3. CASE RunIntake \/ RunDesign \/ RunBuild \/ OpenPullRequest
    BY <1>0, <2>1, <2>3 DEF RunIntake, RunDesign, RunBuild, OpenPullRequest,
                            Deliver, IsWorker, BesideLoading
  <2>4. CASE Compile
    BY <1>0, <2>1, <2>4 DEF Compile, IsWorker, BesideLoading
  <2>5. CASE Test
    BY <1>0, <2>1, <2>5 DEF Test, IsWorker, BesideLoading
  <2>6. QED
    BY <1>10, <2>2, <2>3, <2>4, <2>5 DEF AgentStep
<1>11. CASE StartsEarly
  <2>1. worker'.at \notin Reading
    BY <1>11, Started DEF Agents
  <2>2. QED
    BY <1>11, <2>1, StartKeepsRun
    DEF EarlyFrame, BesideLoading, uploadVars, catalogVars
<1>12. QED
  BY <1>1, <1>2, <1>3, <1>9, <1>10, <1>11, Steps, RunSteps

(* An upload is stored without a schema, so it may arrive at any time.     *)
LEMMA InsertedUnread ==
    ASSUME TypeOK, AllUnread, NEW n \in Names, InsertRow(n)
    PROVE  AllUnread'
<1>1. rows \in Seq(Row(sent))
  BY DEF TypeOK, Row
<1>2. rows' = Append(rows, [name |-> n, upload |-> disk[n].upload,
                            schema |-> NoBytes])
  BY DEF InsertRow
<1>3. /\ DOMAIN rows' = 1..Len(rows) + 1
      /\ rows'[Len(rows) + 1].schema = NoBytes
      /\ \A i \in 1..Len(rows) : rows'[i] = rows[i]
      /\ DOMAIN rows = 1..Len(rows)
      /\ Len(rows) \in Nat
  BY <1>1, <1>2
<1>4. QED
  BY <1>3 DEF AllUnread, NoBytes

(* A table is replaced in the catalog and in the answer at once.           *)
LEMMA LoadedWithin ==
    ASSUME TypeOK, Shapes, LoadFile, Within(loader.tables)
    PROVE  /\ Within(loader.tables)'
           /\ catalog'.exists = catalog.exists /\ loader'.at = loader.at
           /\ loader'.todo = Tail(loader.todo)
           /\ \E loads \in CanLoad(NextFile) :
                 /\ catalog'.tables = IF loads THEN WithTable(catalog.tables)
                                      ELSE catalog.tables
                 /\ loader'.tables = IF loads THEN WithTable(loader.tables)
                                     ELSE loader.tables
<1>1. PICK loads \in CanLoad(NextFile) :
         /\ catalog' = [catalog EXCEPT
                           !.tables = IF loads THEN WithTable(@) ELSE @]
         /\ loader' = [loader EXCEPT
                          !.todo = Tail(@),
                          !.tables = IF loads THEN WithTable(@) ELSE @]
  BY DEF LoadFile
<1>2. /\ catalog = [exists |-> catalog.exists, tables |-> catalog.tables]
      /\ loader = [at |-> loader.at, todo |-> loader.todo,
                   tables |-> loader.tables]
  BY DEF Shapes
<1>3. /\ catalog'.exists = catalog.exists /\ loader'.at = loader.at
      /\ catalog'.tables = IF loads THEN WithTable(catalog.tables)
                           ELSE catalog.tables
      /\ loader'.tables = IF loads THEN WithTable(loader.tables)
                          ELSE loader.tables
      /\ loader'.todo = Tail(loader.todo)
  BY <1>1, <1>2
<1>4. NextFile \in Names /\ disk[NextFile] \in Bytes
  BY DEF LoadFile, TypeOK, NextFile
<1>5. CASE loads
  <2> DEFINE t == TableName(NextFile)
             b == disk[NextFile]
  <2>1. Bytewise(catalog.tables) /\ Bytewise(loader.tables)
    BY DEF Shapes
  <2>2. /\ catalog'.tables = Put(catalog.tables, t, b) /\ b \in Bytes
        /\ loader'.tables = Put(loader.tables, t, b)
    BY <1>3, <1>4, <1>5 DEF WithTable
  <2> HIDE DEF t, b
  <2> DEFINE Added(f, g) ==
                /\ DOMAIN g = DOMAIN f \cup {t} /\ g[t] = b
                /\ \A u \in DOMAIN f : u # t => g[u] = f[u]
  <2>3. ASSUME NEW f, NEW g, Bytewise(f), g = Put(f, t, b) PROVE Added(f, g)
    BY <2>3 DEF Put
  <2>4. Added(catalog.tables, catalog'.tables)
    BY <2>1, <2>2, <2>3
  <2>5. Added(loader.tables, loader'.tables)
    BY <2>1, <2>2, <2>3
  <2>6. Within(loader.tables)'
    BY <2>4, <2>5 DEF Within
  <2>7. QED
    BY <1>1, <1>3, <2>6
<1>6. QED
  BY <1>1, <1>3, <1>5 DEF Within

(* What the catalog owes to there being one ingestion handler.             *)
LEMMA IngestionBegun ==
    ASSUME TypeOK, Shapes, Course, Loads
    PROVE  /\ Describing => "ingesting" \in sessions
           /\ worker.at \in Reading => "ingesting" \in sessions
           /\ catalog.exists \/ ~AllUnread => "ingesting" \in sessions
           /\ loader.at = "running" => "ingesting" \in sessions
<1>1. ASSUME worker.at \in Reading PROVE "ingesting" \in sessions
  <2>1. "requirements" \in Coming
    BY <1>1 DEF Reading, Coming, Undrafted, Delivering
  <2>2. QED
    BY <2>1 DEF Course, Author
<1>2. ASSUME worker.at \in Delivering, worker.then = "intake"
      PROVE  \E f \in FilesOf("ingesting") : f \in Coming \cup DOMAIN workspace
  <2>1. ASSUME NEW order, <<"intake", order>> \in Writings
        PROVE  "requirements" \in InRequests(order)
    BY <2>1, InRequestsOf DEF Writings
  <2>2. ASSUME NEW now, NEW order, <<"intake", now, order>> \in Registrations
        PROVE  \E f \in FilesOf("ingesting") : f \in Elems(now)
    BY <2>2, ElemsOf, AgentFiles DEF Registrations
  <2>3. CASE worker.at = "writing"
    <3>1. "requirements" \in Coming
      BY <1>2, <2>1, <2>3 DEF Course, Coming, Left, Delivering
    <3>2. QED
      BY <3>1, AgentFiles
  <2>4. CASE worker.at = "registering"
    <3>1. /\ Elems(worker.unregistered) \subseteq DOMAIN workspace
          /\ <<"intake", worker.unregistered, worker.order>> \in Registrations
      BY <1>2, <2>4 DEF Course
    <3>2. QED
      BY <2>2, <3>1
  <2>5. QED
    BY <1>2, <2>3, <2>4 DEF Delivering
<1>3. Describing => "ingesting" \in sessions
  <2>1. CASE worker.at = "describing"
    BY <1>1, <2>1 DEF Reading
  <2>2. CASE worker.at \in Delivering /\ worker.then = "intake"
    BY <1>2, <2>2 DEF Course, FilesOf
  <2>3. QED
    BY <2>1, <2>2 DEF Describing
<1>4. QED
  BY <1>1, <1>3 DEF Loads

(* Every step leaves the catalog to the loader.                            *)
LEMMA LoadsStep ==
    TypeOK /\ Shapes /\ Course /\ Loads /\ [Next]_vars => Loads'
<1> SUFFICES ASSUME TypeOK, Shapes, Course, Loads, [Next]_vars
             PROVE  Loads'
  OBVIOUS
<1>0. IsWorker(worker) /\ sessions \subseteq sessions'
  BY SessionsGrow DEF Shapes, IsWorker
<1>1. CASE UNCHANGED <<catalog, loader, workspace, artifacts, worker>>
              /\ (rows' = rows \/ \E n \in Names : InsertRow(n))
  <2>1. AllUnread => AllUnread'
    BY <1>1, InsertedUnread DEF AllUnread
  <2>2. Describing' <=> Describing
    BY <1>1 DEF Describing
  <2>3. QED
    BY <1>0, <1>1, <2>1, <2>2 DEF Loads, Within
<1>2. CASE ListUploads
  <2>1. /\ worker.at = "ingesting" /\ UNCHANGED <<rows, catalog, loader>>
        /\ worker'.at \in {"submitting", "writing"}
    BY <1>0, <1>2 DEF ListUploads, IsWorker, uploadVars, catalogVars
  <2>2. worker'.at # worker.at
    BY <2>1
  <2>3. [RunStep]_vars
    BY <2>1, Started, Steps DEF Agents
  <2>4. "ingesting" \notin sessions /\ "ingesting" \in sessions'
    BY <2>1, <2>2, <2>3, Begins DEF Agents
  <2>5. ~catalog.exists /\ AllUnread /\ loader.at # "running"
    BY <2>4, IngestionBegun
  <2>6. QED
    BY <2>1, <2>4, <2>5 DEF Loads, AllUnread
<1>3. CASE BeginLoad
  <2>1. /\ catalog'.exists = TRUE /\ catalog'.tables = catalog.tables
        /\ loader'.at = "running" /\ loader'.tables = <<>>
        /\ worker.at = "submitting" /\ worker'.at = "loading"
        /\ rows' = rows
    BY <1>0, <1>3 DEF BeginLoad, Shapes, Goto, IsWorker, uploadVars
  <2>2. "ingesting" \in sessions'
    BY <1>0, <2>1, IngestionBegun DEF Reading
  <2>3. QED
    BY <2>1, <2>2 DEF Loads, AllUnread, Within, Describing, Delivering
<1>4. CASE LoadFile
  <2>1. UNCHANGED <<rows, worker>> /\ loader.at = "running"
    BY <1>4 DEF LoadFile, uploadVars, runVars
  <2>2. /\ Within(loader.tables)' /\ catalog'.exists = catalog.exists
        /\ loader'.at = loader.at
    BY <1>4, <2>1, LoadedWithin DEF Loads
  <2>3. catalog.exists /\ AllUnread /\ AllUnread'
    BY <2>1, <2>2 DEF Loads, AllUnread
  <2>4. Describing' <=> Describing
    BY <2>1 DEF Describing
  <2>5. "ingesting" \in sessions'
    BY <1>0, <2>1, IngestionBegun
  <2>6. QED
    BY <2>1, <2>2, <2>3, <2>4, <2>5 DEF Loads
<1>5. CASE EndLoad
  <2>1. /\ loader.at = "running" /\ loader'.at = "idle"
        /\ UNCHANGED <<rows, catalog>>
    BY <1>5 DEF EndLoad, IdleLoader, uploadVars
  <2>2. AllUnread' /\ "ingesting" \in sessions'
    BY <1>0, <2>1, IngestionBegun DEF Loads, AllUnread
  <2>3. CASE worker.at = "loading"
    <3>1. worker'.at = "saving" /\ worker'.tables = loader.tables
      BY <1>0, <1>5, <2>3 DEF EndLoad, IsWorker
    <3>2. QED
      BY <2>1, <2>2, <3>1 DEF Loads, Within
  <2>4. CASE worker.at # "loading"
    BY <1>5, <2>1, <2>2, <2>4 DEF EndLoad, Loads
  <2>5. QED
    BY <2>3, <2>4
<1>6. CASE SaveSchemas
  <2>1. /\ worker.at = "saving" /\ worker'.at = "describing"
        /\ UNCHANGED <<catalog, loader>>
    BY <1>0, <1>6 DEF SaveSchemas, Goto, IsWorker, catalogVars
  <2>2. "ingesting" \in sessions'
    BY <1>0, <2>1, IngestionBegun DEF Reading
  <2>3. QED
    BY <2>1, <2>2 DEF Loads
<1>7. CASE BesideLoading
  <2>1. UNCHANGED <<catalog, loader, rows>> /\ worker'.at \notin Reading
    BY <1>7 DEF BesideLoading
  <2>2. "ingesting" \notin sessions' => ~catalog'.exists /\ AllUnread'
    BY <1>0, <2>1, IngestionBegun DEF AllUnread
  <2>3. Describing' => Describing \/ worker.at \in {"ingesting", "saving"}
    BY DescribingFrom
  <2>4. worker.at = "ingesting" /\ Describing' => loader.at # "running"
    <3> SUFFICES ASSUME worker.at = "ingesting", Describing'
                 PROVE  loader.at # "running"
      OBVIOUS
    <3>1. worker'.at # worker.at /\ worker'.at \notin Agents
      BY DEF Describing, Delivering, Agents
    <3>2. [RunStep]_vars
      BY <3>1, Started, Steps
    <3>3. "ingesting" \notin sessions
      BY <3>1, <3>2, Begins DEF Agents
    <3>4. QED
      BY <3>3, IngestionBegun
  <2>5. QED
    BY <2>1, <2>2, <2>3, <2>4 DEF Loads, Reading, AllUnread, Within
<1>8. QED
  BY <1>1, <1>2, <1>3, <1>4, <1>5, <1>6, <1>7, BesideLoadingOf

(* If the agents take their turns, the catalog is made with the listing    *)
(* and at rest once the run has a file.                                    *)
LEMMA LoadsInTurnStep ==
    TypeOK /\ Shapes /\ Course /\ InDelivery /\ Loads /\ LoadsInTurn
    /\ [RunStep]_vars => LoadsInTurn'
<1> SUFFICES ASSUME TypeOK, Shapes, Course, InDelivery, Loads, LoadsInTurn,
                    [RunStep]_vars
             PROVE  LoadsInTurn'
  OBVIOUS
<1>0. /\ IsWorker(worker) /\ worker.listed \in Nat /\ [Next]_vars
      /\ worker.at \in Working \cup Delivering \cup Stopped
  BY ListedRows DEF Shapes, IsWorker, Next
<1> USE DEF Unread
<1>1. CASE UNCHANGED <<catalog, loader, workspace, artifacts, worker>>
              /\ (rows' = rows \/ \E n \in Names : InsertRow(n))
  BY <1>1 DEF LoadsInTurn
<1>2. CASE ListUploads
  <2>1. /\ worker.at = "ingesting" /\ UNCHANGED <<catalog, loader>>
        /\ worker'.at \in {"submitting", "writing"}
        /\ worker'.at = "submitting" => worker'.listed > 0
        /\ worker'.at = "writing" => worker'.listed = 0
    <3>1. CASE rows # <<>>
      <4>1. rows \in Seq(Row(sent))
        BY DEF TypeOK, Row
      <4>2. Len(rows) > 0
        BY <3>1, <4>1
      <4>3. QED
        BY <1>0, <1>2, <3>1, <4>2
        DEF ListUploads, IsWorker, uploadVars, catalogVars
    <3>2. CASE rows = <<>>
      BY <1>0, <1>2, <3>2, ListedRows
      DEF ListUploads, IsWorker, uploadVars, catalogVars
    <3>3. QED
      BY <3>1, <3>2
  <2>2. QED
    BY <2>1 DEF LoadsInTurn, Working
<1>3. CASE BeginLoad
  <2>1. /\ catalog'.exists = TRUE
        /\ worker.at = "submitting" /\ worker'.at = "loading"
        /\ worker'.listed = worker.listed /\ workspace' = workspace
    BY <1>0, <1>3 DEF BeginLoad, Shapes, Goto, IsWorker
  <2>2. DOMAIN workspace = {}
    <3>1. Due("submitting", worker.listed) = {}
      BY <1>0, NextDue
    <3>2. DOMAIN workspace = Due(worker.at, worker.listed)
      BY <2>1 DEF InDelivery, Working
    <3>3. QED
      BY <2>1, <3>1, <3>2
  <2>3. QED
    BY <2>1, <2>2 DEF LoadsInTurn, Working
<1>4. CASE LoadFile
  <2>1. UNCHANGED <<workspace, worker>> /\ loader.at = "running"
    BY <1>4 DEF LoadFile, runVars
  <2>2. catalog'.exists = catalog.exists
    BY <1>4, <2>1, LoadedWithin DEF Loads
  <2>3. QED
    BY <2>1, <2>2 DEF LoadsInTurn
<1>5. CASE EndLoad
  <2>1. loader.at = "running" /\ loader'.at = "idle" /\ catalog' = catalog
    BY <1>5 DEF EndLoad, IdleLoader
  <2>2. CASE worker.at = "loading"
    <3>1. worker'.at = "saving" /\ worker'.listed = worker.listed
      BY <1>0, <1>5, <2>2 DEF EndLoad, IsWorker
    <3>2. QED
      BY <2>1, <2>2, <3>1 DEF LoadsInTurn, Working
  <2>3. CASE worker.at # "loading"
    BY <1>5, <2>1, <2>3 DEF EndLoad, LoadsInTurn
  <2>4. QED
    BY <2>2, <2>3
<1>6. CASE SaveSchemas
  <2>1. /\ worker.at = "saving" /\ worker'.at = "describing"
        /\ worker'.listed = worker.listed /\ UNCHANGED <<catalog, loader>>
    BY <1>0, <1>6 DEF SaveSchemas, Goto, IsWorker, catalogVars
  <2>2. loader.at # "running"
    BY <2>1 DEF LoadsInTurn
  <2>3. QED
    BY <2>1, <2>2 DEF LoadsInTurn, Working
<1>7. CASE BesideLoading
  <2>1. UNCHANGED <<catalog, loader, rows>> /\ worker'.at \notin Reading
    BY <1>7 DEF BesideLoading
  <2>2. Moves /\ (worker'.listed = worker.listed \/ worker.at = "ingesting")
    BY MovesStep
  <2>3. worker.at \in {"ingesting", "submitting"} =>
           \/ worker'.at \in Stopped
           \/ worker'.at = "ingesting"
           \/ worker'.at = "writing" /\ worker'.listed = 0
    BY <2>1, <2>2 DEF Moves, Reading, Forward, Errands
  <2>4. loader.at = "running" => worker'.at \in Stopped
    BY <2>1, <2>2 DEF Moves, Reading, Forward, Errands, LoadsInTurn, Stopped
  <2>5. loader.at = "running" => workspace' = workspace
    BY <1>0, WorkspaceGrows DEF LoadsInTurn, WriteFiles
  <2>6. worker'.at = "ingesting" => worker.at = "ingesting"
    <3>1. worker.at = "registering" => worker.then # "ingesting"
      BY Remaining DEF Course
    <3>2. QED
      BY <2>2, <3>1 DEF Moves, Forward, Stopped
  <2>7. worker'.at \in (Working \cup Delivering) \ {"ingesting"} =>
           (catalog'.exists <=> worker'.listed > 0)
    <3>1. worker.at \in Stopped => worker'.at \in Stopped
      BY <2>2 DEF Moves, Forward, Errands, Stopped
    <3>2. CASE worker.at \in {"ingesting", "submitting"}
      BY <2>1, <2>3, <3>2 DEF LoadsInTurn, Working, Delivering, Stopped
    <3>3. CASE worker.at \notin {"ingesting", "submitting"}
      BY <1>0, <2>1, <2>2, <3>1, <3>3 DEF LoadsInTurn, Working, Delivering, Stopped
    <3>4. QED
      BY <3>2, <3>3
  <2>8. QED
    BY <2>1, <2>4, <2>5, <2>6, <2>7 DEF LoadsInTurn, Reading, Stopped
<1>8. QED
  BY <1>0, <1>1, <1>2, <1>3, <1>4, <1>5, <1>6, <1>7, BesideLoadingOf
-----------------------------------------------------------------------------

(* The catalog is settled once the run has files or is past the loading.   *)
LEMMA CatalogAtRest ==
    ASSUME TypeOK, Shapes, InDelivery, Loads, LoadsInTurn, [RunStep]_vars,
           \/ DOMAIN workspace # {}
           \/ worker.at \in Delivering \cup {"describing", "profiling", "querying"}
    PROVE  catalog' = catalog /\ worker'.listed = worker.listed
<1>0. worker.listed \in Nat
  BY ListedRows
<1>1. worker.at \notin {"ingesting", "submitting"}
  <2>1. /\ Due("ingesting", worker.listed) = {}
        /\ Due("submitting", worker.listed) = {}
    BY <1>0, NextDue
  <2>2. QED
    BY <2>1 DEF InDelivery, Working, Unread, Delivering
<1>2. loader.at # "running"
  BY DEF LoadsInTurn, Delivering
<1>3. catalog' = catalog
  BY <1>1, <1>2, CatalogSettled DEF BeginLoad, LoadFile, Next
<1>4. QED
  BY <1>1, <1>3, MovesStep

LEMMA BuildingOrder ==
    ASSUME NEW order, <<"building", order>> \in Writings
    PROVE  InRequests(order) = {"profile_report", "profiling"}
<1>1. order = <<<<"profile_report", "profiling">>>>
  BY DEF Writings
<1>2. QED
  BY <1>1, InRequestsOf

(* A profile of the catalog stays one while the catalog is at rest: a      *)
(* fault is never taken back.                                              *)
LEMMA SoundStays ==
    ASSUME TypeOK, Shapes, Loads, [Next]_vars, catalog' = catalog,
           worker'.listed = worker.listed, NEW p, SoundProfile(p)
    PROVE  IF worker'.listed = 0 THEN p.source = "fixture"
           ELSE /\ p.source = "catalog"
                /\ p.tables \subseteq DOMAIN catalog'.tables
                /\ \/ p.tables = DOMAIN catalog'.tables
                   \/ Cardinality(p.tables) = 3
                   \/ p.tables = {} /\ faults' > 0
<1>1. faults \in Nat
  BY IngestionAssumption DEF TypeOK
<1>2. faults > 0 => faults' > 0
  BY <1>1, FaultsCounted
<1>3. QED
  BY <1>2 DEF SoundProfile

(* The results of the build are written once.                              *)
LEMMA ResultsStay ==
    ASSUME TypeOK, Shapes, Course, [RunStep]_vars,
           "run_results" \in DOMAIN workspace
    PROVE  /\ "run_results" \in DOMAIN workspace'
           /\ workspace'["run_results"] = workspace["run_results"]
<1>0. IsWorker(worker) /\ [Next]_vars
  BY DEF Shapes, IsWorker, Next
<1>1. ~(worker.at = "testing" /\ (Test \/ JobLost))
  <2> SUFFICES ASSUME worker.at = "testing", Test \/ JobLost PROVE FALSE
    OBVIOUS
  <2>1. worker'.at # worker.at
    BY <1>0 DEF Test, JobLost, Goto, IsWorker
  <2>2. FilesOf("testing") \cap DOMAIN workspace = {}
    BY <2>1, Begins DEF Agents
  <2>3. QED
    BY <2>2, AgentFiles
<1>2. worker.at = "writing" => "run_results" \notin Elems(Request)
  BY RequestFiles DEF Course, Request
<1>3. QED
  BY <1>0, <1>1, <1>2, ContentOf, DomainGrows

(* Every step keeps the files saying what they have to say.  The catalog   *)
(* the data dictionary describes is at rest by then, so the profile made   *)
(* from it later names tables of the dictionary.                           *)
LEMMA ContentsStep ==
    TypeOK /\ Shapes /\ Course /\ InDelivery /\ Loads /\ LoadsInTurn
    /\ Contents /\ [RunStep]_vars => Contents'
<1> SUFFICES ASSUME TypeOK, Shapes, Course, InDelivery, Loads, LoadsInTurn,
                    Contents, [RunStep]_vars
             PROVE  Contents'
  OBVIOUS
<1>0. worker.listed \in Nat /\ IsWorker(worker) /\ [Next]_vars
  BY ListedRows DEF Shapes, IsWorker, Next
<1>1. Moves
  BY MovesStep
<1>2. (Compiles <=> Compiles') /\ (Materialises <=> Materialises')
  BY <1>0, SlugFixed DEF Compiles, Materialises
<1>3. worker.at = "writing" =>
         /\ <<worker.then, worker.order>> \in Writings
         /\ InRequests(worker.order) \subseteq Due(worker.then, worker.listed)
         /\ DOMAIN workspace =
               Due(worker.then, worker.listed) \ InRequests(worker.order)
  BY DEF InDelivery, Course, Left
<1>4. "data_dictionary" \in DOMAIN workspace' =>
         workspace'["data_dictionary"] = catalog'.tables
  <2> SUFFICES ASSUME "data_dictionary" \in DOMAIN workspace'
               PROVE  workspace'["data_dictionary"] = catalog'.tables
    OBVIOUS
  <2>1. CASE /\ "data_dictionary" \in DOMAIN workspace
             /\ workspace'["data_dictionary"] = workspace["data_dictionary"]
    BY <2>1, CatalogAtRest DEF Contents
  <2>2. CASE /\ worker.at = "writing" /\ "data_dictionary" \in Elems(Request)
             /\ workspace'["data_dictionary"] = worker.draft["data_dictionary"]
    <3>1. /\ worker.then = "intake"
          /\ "data_dictionary" \in InRequests(worker.order)
      BY <1>3, <2>2, RequestFiles DEF Request
    <3>2. worker.listed > 0
      BY <1>3, <2>2, <3>1 DEF Due
    <3>3. catalog' = catalog
      BY <2>2, CatalogAtRest DEF Delivering
    <3>4. QED
      BY <2>2, <3>1, <3>2, <3>3 DEF Contents, Delivering
  <2>3. QED
    BY <1>0, <2>1, <2>2, ContentOf
<1>5. worker'.at \in Delivering /\ worker'.then = "intake" /\ worker'.listed > 0 =>
         worker'.draft["data_dictionary"] = catalog'.tables
  <2> SUFFICES ASSUME worker'.at \in Delivering, worker'.then = "intake",
                      worker'.listed > 0
               PROVE  worker'.draft["data_dictionary"] = catalog'.tables
    OBVIOUS
  <2>1. \/ worker.at \in Delivering /\ SameErrand
        \/ /\ worker.at = "describing"
           /\ worker'.draft["data_dictionary"] = catalog.tables
        \/ worker'.listed = 0
    BY <1>1 DEF Moves, Forward, Errands, Delivering, Stopped
  <2>2. QED
    BY <2>1, CatalogAtRest DEF Contents, SameErrand
<1>6. "profile_report" \in DOMAIN workspace' =>
         /\ SoundProfile(workspace["profile_report"])'
         /\ worker'.listed > 0 => "data_dictionary" \in DOMAIN workspace'
  <2> SUFFICES ASSUME "profile_report" \in DOMAIN workspace'
               PROVE  /\ SoundProfile(workspace["profile_report"])'
                      /\ worker'.listed > 0 =>
                            "data_dictionary" \in DOMAIN workspace'
    OBVIOUS
  <2>1. CASE /\ "profile_report" \in DOMAIN workspace
             /\ workspace'["profile_report"] = workspace["profile_report"]
    <3>1. catalog' = catalog /\ worker'.listed = worker.listed
      BY <2>1, CatalogAtRest
    <3>2. /\ SoundProfile(workspace["profile_report"])
          /\ worker.listed > 0 => "data_dictionary" \in DOMAIN workspace
      BY <2>1 DEF Contents
    <3>3. SoundProfile(workspace["profile_report"])'
      BY <1>0, <2>1, <3>1, <3>2, SoundStays DEF SoundProfile
    <3>4. QED
      BY <1>0, <3>1, <3>2, <3>3, DomainGrows
  <2>2. CASE /\ worker.at = "writing" /\ "profile_report" \in Elems(Request)
             /\ workspace'["profile_report"] = worker.draft["profile_report"]
    <3>1. worker.then = "building"
      BY <1>3, <2>2, RequestFiles DEF Request
    <3>2. SoundProfile(worker.draft["profile_report"])
      BY <2>2, <3>1 DEF Contents, Delivering
    <3>3. catalog' = catalog /\ worker'.listed = worker.listed
      BY <2>2, CatalogAtRest DEF Delivering
    <3>4. worker.listed > 0 => "data_dictionary" \in DOMAIN workspace
      BY <1>0, <1>3, <2>2, <3>1, BuildingOrder, NextDue
    <3>5. SoundProfile(workspace["profile_report"])'
      BY <1>0, <2>2, <3>2, <3>3, SoundStays DEF SoundProfile
    <3>6. QED
      BY <1>0, <3>3, <3>4, <3>5, DomainGrows
  <2>3. QED
    BY <1>0, <2>1, <2>2, ContentOf
<1>7. ASSUME \/ worker'.at = "querying"
             \/ worker'.at \in Delivering /\ worker'.then = "building"
      PROVE  SoundProfile(worker.draft["profile_report"])'
  <2>1. CASE PlanProfile
    <3>1. PICK plan \in ProfilePlans :
             /\ worker' = [worker EXCEPT
                              !.at = "querying", !.queries = plan.queries,
                              !.draft = [profile_report |-> plan,
                                         profiling |-> plan]]
             /\ faults' = IF /\ plan.tables = {} /\ catalog.tables # <<>>
                             /\ Listable
                          THEN faults + 1 ELSE faults
      BY <2>1 DEF PlanProfile
    <3>2. worker'.draft["profile_report"] = plan /\ worker.at = "profiling"
      BY <1>0, <2>1, <3>1 DEF IsWorker, PlanProfile
    <3>3. catalog' = catalog /\ worker'.listed = worker.listed
      BY <3>2, CatalogAtRest
    <3>4. (catalog.exists <=> worker.listed > 0) /\ Listable
      BY <3>2 DEF LoadsInTurn, Working, Listable
    <3>5. /\ IF catalog.exists THEN plan.source = "catalog"
             ELSE plan.source = "fixture"
          /\ plan.tables \subseteq DOMAIN catalog.tables
          /\ \/ plan.tables \in {{}, DOMAIN catalog.tables}
             \/ Cardinality(plan.tables) = 3
      BY PlansCount
    <3>6. plan.tables = {} => plan.tables = DOMAIN catalog.tables \/ faults' > 0
      <4>1. faults \in Nat
        BY IngestionAssumption DEF TypeOK
      <4>2. catalog.tables = <<>> <=> DOMAIN catalog.tables = {}
        BY NoTables DEF Shapes
      <4>3. QED
        BY <3>1, <3>4, <4>1, <4>2
    <3>7. QED
      BY <1>0, <3>2, <3>3, <3>4, <3>5, <3>6 DEF SoundProfile
  <2>2. CASE ~PlanProfile
    <3>1. worker'.draft = worker.draft
          /\ \/ worker.at = "querying"
             \/ worker.at \in Delivering /\ worker.then = "building"
      <4>1. worker.at = "registering" => worker.then # "querying"
        BY DEF Course, Registrations
      <4>2. worker.at \in {"describing", "ingesting"} => worker.then = "intake"
        BY DEF InDelivery, Unread
      <4>3. QED
        BY <1>1, <1>7, <2>2, <4>1, <4>2
        DEF Moves, SameErrand, Forward, Errands, Delivering, Stopped
    <3>2. catalog' = catalog /\ worker'.listed = worker.listed
      BY <3>1, CatalogAtRest
    <3>3. SoundProfile(worker.draft["profile_report"])
      BY <3>1 DEF Contents
    <3>4. QED
      BY <1>0, <3>1, <3>2, <3>3, SoundStays DEF SoundProfile
  <2>3. QED
    BY <2>1, <2>2
<1>8. "compile_summary" \in DOMAIN workspace' =>
         workspace'["compile_summary"] = [errors |-> ~Compiles']
  BY <1>0, <1>2, <1>3, ContentOf, RequestFiles DEF Contents, Request
<1>9. "qa_report" \in DOMAIN workspace' =>
         /\ "run_results" \in DOMAIN workspace'
         /\ workspace'["qa_report"] = workspace'["run_results"]
  <2> SUFFICES ASSUME "qa_report" \in DOMAIN workspace'
               PROVE  /\ "run_results" \in DOMAIN workspace'
                      /\ workspace'["qa_report"] = workspace'["run_results"]
    OBVIOUS
  <2>1. CASE /\ "qa_report" \in DOMAIN workspace
             /\ workspace'["qa_report"] = workspace["qa_report"]
    BY <2>1, ResultsStay DEF Contents
  <2>2. CASE /\ worker.at = "writing" /\ "qa_report" \in Elems(Request)
             /\ workspace'["qa_report"] = worker.draft["qa_report"]
    <3>1. worker.then = "READY_FOR_REVIEW"
      BY <1>3, <2>2, RequestFiles DEF Request
    <3>2. QED
      BY <2>2, <3>1, ResultsStay DEF Contents, Delivering
  <2>3. QED
    BY <1>0, <2>1, <2>2, ContentOf
<1>10. worker'.at \in Delivering /\ worker'.then = "READY_FOR_REVIEW" =>
          /\ "run_results" \in DOMAIN workspace'
          /\ worker'.draft["qa_report"] = workspace'["run_results"]
  <2> SUFFICES ASSUME worker'.at \in Delivering,
                      worker'.then = "READY_FOR_REVIEW"
               PROVE  /\ "run_results" \in DOMAIN workspace'
                      /\ worker'.draft["qa_report"] = workspace'["run_results"]
    OBVIOUS
  <2>1. \/ worker.at \in Delivering /\ SameErrand
        \/ /\ worker'.draft["qa_report"] = Results
           /\ workspace' = WithFile("run_results", Results)
    BY <1>1 DEF Moves, Forward, Errands, Delivering, Stopped
  <2>2. CASE worker.at \in Delivering /\ SameErrand
    BY <2>2, ResultsStay DEF Contents, SameErrand
  <2>3. CASE /\ worker'.draft["qa_report"] = Results
             /\ workspace' = WithFile("run_results", Results)
    BY <2>3 DEF WithFile, Put
  <2>4. QED
    BY <2>1, <2>2, <2>3
<1>11. QED
  BY <1>4, <1>5, <1>6, <1>7, <1>8, <1>9, <1>10 DEF Contents

-----------------------------------------------------------------------------

(* What a step does to the remote, with the position it leaves the run at. *)
LEMMA RemoteMoves ==
    ASSUME TypeOK, Shapes, [Next]_vars
    PROVE  \/ remote' = remote
           \/ /\ worker.at = "pushing" /\ remote' = Append(remote, "push")
              /\ worker'.at \in {"opening", "failed"}
           \/ /\ worker.at = "opening" /\ remote' = Append(remote, "pull_request")
              /\ \/ worker'.at = "failed"
                 \/ worker'.at = "writing" /\ worker'.then = "done"
<1>0. IsWorker(worker)
  BY DEF Shapes, IsWorker
<1>1. CASE Push
  BY <1>0, <1>1 DEF Push, Goto, IsWorker
<1>2. CASE OpenPullRequest
  BY <1>0, <1>2 DEF OpenPullRequest, Deliver, IsWorker
<1>3. CASE JobLost
  BY <1>0, <1>1, <1>3 DEF JobLost, Goto, IsWorker
<1>4. CASE StartsEarly
  BY <1>4, StartKeepsRun DEF EarlyFrame
<1>5. CASE [RunStep]_vars /\ ~Push /\ ~OpenPullRequest /\ ~JobLost
  BY <1>5 DEF RunStep, vars, AgentStep, RunIntake, RunDesign, ApproveGate,
              RunBuild, Compile, Test
<1>6. QED
  BY <1>1, <1>2, <1>3, <1>4, <1>5, Steps

(* A row is added for the file that is being registered, or none.          *)
LEMMA RegisteredGrows ==
    ASSUME TypeOK, [Next]_vars
    PROVE  /\ Registered \subseteq Registered'
           /\ \A f \in Registered' \ Registered :
                 worker.at = "registering" /\ f = Head(worker.unregistered)
<1>1. CASE artifacts' = artifacts
  BY <1>1 DEF Registered
<1>2. CASE RegisterArtifact
  BY <1>2, RegisteredOf DEF RegisterArtifact, TypeOK
<1>3. QED
  BY <1>1, <1>2, ArtifactsGrow

(* One handler reaches the remote, in two steps.                           *)
LEMMA OnceRemoteStep ==
    TypeOK /\ Shapes /\ Course /\ OnceRemote /\ [Next]_vars => OnceRemote'
<1> SUFFICES ASSUME TypeOK, Shapes, Course, OnceRemote, [Next]_vars
             PROVE  OnceRemote'
  OBVIOUS
<1>0. sessions \subseteq sessions'
  BY SessionsGrow
<1>1. ASSUME worker'.at = "opening" PROVE Push \/ worker.at = "opening"
  <2>1. ~StartsEarly
    BY <1>1, Started DEF Agents
  <2>2. Moves
    BY <2>1, MovesStep, Steps
  <2>3. worker.at = "registering" => worker.then # "opening"
    BY DEF Course, Registrations
  <2>4. QED
    BY <1>1, <2>2, <2>3 DEF Moves, Forward, Stopped
<1>2. CASE remote' = remote
  <2>1. ~Push
    <3>1. Push => remote' = Append(remote, "push")
      BY DEF Push
    <3>2. Append(remote, "push") # remote
      <4>1. remote \in Seq({"push", "pull_request"})
        BY DEF TypeOK
      <4>2. Len(Append(remote, "push")) = Len(remote) + 1 /\ Len(remote) \in Nat
        BY <4>1
      <4>3. QED
        BY <4>2
    <3>3. QED
      BY <1>2, <3>1, <3>2
  <2>2. QED
    BY <1>0, <1>1, <1>2, <2>1 DEF OnceRemote
<1>3. CASE /\ worker.at = "pushing" /\ remote' = Append(remote, "push")
           /\ worker'.at \in {"opening", "failed"}
  <2>1. worker'.at # worker.at /\ [RunStep]_vars
    BY <1>3, Started, Steps DEF Agents
  <2>2. "pushing" \notin sessions /\ "pushing" \in sessions'
    BY <1>3, <2>1, Begins DEF Agents
  <2>3. remote = <<>>
    BY <2>2 DEF OnceRemote
  <2>4. remote' = <<"push">>
    BY <1>3, <2>3
  <2>5. QED
    BY <2>2, <2>4 DEF OnceRemote
<1>4. CASE /\ worker.at = "opening" /\ remote' = Append(remote, "pull_request")
           /\ \/ worker'.at = "failed"
              \/ worker'.at = "writing" /\ worker'.then = "done"
  <2>1. remote = <<"push">>
    BY <1>4 DEF OnceRemote
  <2>2. remote' = <<"push", "pull_request">>
    BY <1>4, <2>1, AppendToOne
  <2>3. "pushing" \in sessions
    BY <2>1 DEF OnceRemote
  <2>4. QED
    BY <1>0, <1>4, <2>2, <2>3 DEF OnceRemote
<1>5. QED
  BY <1>2, <1>3, <1>4, RemoteMoves

(* Every step keeps the evidence behind what is pushed.                    *)
LEMMA PublishedStep ==
    TypeOK /\ Shapes /\ Course /\ InDelivery /\ OnceRemote /\ Published
    /\ [RunStep]_vars => Published'
<1> SUFFICES ASSUME TypeOK, Shapes, Course, InDelivery, OnceRemote, Published,
                    [RunStep]_vars
             PROVE  Published'
  OBVIOUS
<1>0. worker.listed \in Nat /\ [Next]_vars
  BY ListedRows DEF Next
<1>1. Moves
  BY MovesStep
<1>2. (Compiles <=> Compiles')
  BY <1>0, SlugFixed DEF Compiles
<1>3. /\ worker.at = "writing" => worker.then # "testing"
      /\ worker.at = "registering" =>
            (Head(worker.unregistered) = "compile_summary" =>
                worker.then = "testing")
  <2>1. worker.at = "writing" => worker.then # "testing"
    BY DEF Course, Writings
  <2>2. ASSUME worker.at = "registering"
        PROVE  Head(worker.unregistered) = "compile_summary" =>
                  worker.then = "testing"
    <3>1. <<worker.then, worker.unregistered, worker.order>> \in Registrations
      BY <2>2 DEF Course
    <3>2. ASSUME NEW then, NEW now, NEW order,
                 <<then, now, order>> \in Registrations
          PROVE  Head(now) = "compile_summary" => then = "testing"
      BY <3>2, Takes DEF Registrations
    <3>3. QED
      BY <3>1, <3>2
  <2>3. QED
    BY <2>1, <2>2
<1>4. ASSUME \/ "compile_summary" \in Registered'
             \/ worker'.at = "registering" /\ worker'.then = "testing"
      PROVE  Compiles'
  <2>1. CASE "compile_summary" \in Registered'
    BY <1>0, <1>2, <1>3, <2>1, RegisteredGrows DEF Published
  <2>2. CASE worker'.at = "registering" /\ worker'.then = "testing"
    <3>1. \/ Compiles
          \/ worker.at \in Delivering /\ worker.then = "testing"
      BY <1>1, <2>2 DEF Moves, SameErrand, Forward, Errands, Stopped, Delivering
    <3>2. QED
      BY <1>2, <1>3, <3>1 DEF Published, Delivering
  <2>3. QED
    BY <1>4, <2>1, <2>2
<1>5. remote' # <<>> => Evidence \subseteq Registered'
  <2>1. CASE remote' = remote
    BY <1>0, <2>1, RegisteredGrows DEF Published
  <2>2. CASE worker.at = "pushing"
    <3>1. Registered = Due("pushing", worker.listed)
      BY <2>2 DEF InDelivery, Working
    <3>2. Evidence \subseteq Due("pushing", worker.listed)
      BY <1>0, NextDue DEF Evidence
    <3>3. QED
      BY <1>0, <3>1, <3>2, RegisteredGrows
  <2>3. CASE worker.at = "opening"
    <3>1. Evidence \subseteq Registered
      BY <2>3 DEF OnceRemote, Published
    <3>2. QED
      BY <1>0, <3>1, RegisteredGrows
  <2>4. QED
    BY <1>0, <2>1, <2>2, <2>3, RemoteMoves
<1>6. QED
  BY <1>4, <1>5 DEF Published

-----------------------------------------------------------------------------

(* The steps that fail a run.                                              *)
LEMMA FailsBy ==
    ASSUME TypeOK, Shapes, Course, [Next]_vars,
           worker'.at = "failed", worker.at # "failed"
    PROVE  \/ faults' = faults + 1
           \/ RunQuery /\ preview
           \/ Compile /\ ~Compiles
<1>0. IsWorker(worker) /\ worker' # worker
  BY DEF Shapes, IsWorker
<1>1. ~UNCHANGED vars /\ ~ApiStep /\ ~LoadFile
  BY <1>0, ApiKeepsRun
  DEF vars, runVars, ApiStep, BeginUpload, EndWrite, InsertRow, OpenPreview,
      ClosePreview, ApiCrash, LoadFile
<1>2. CASE EndLoad \/ ListUploads \/ PlanProfile \/ GetDataDictionary \/ WriteFiles
  BY <1>0, <1>2 DEF EndLoad, ListUploads, PlanProfile, GetDataDictionary,
                    WriteFiles, IsWorker
<1>3. CASE BeginLoad \/ SaveSchemas \/ WorkerCrash \/ ApproveGate \/ Push
  BY <1>0, <1>3 DEF BeginLoad, SaveSchemas, WorkerCrash, ApproveGate, Behind,
                    Push, Goto, IsWorker
<1>4. CASE RegisterArtifact
  <2>1. worker.then \in Working
    BY <1>4, Remaining DEF RegisterArtifact, Course
  <2>2. "failed" \notin Working
    BY DEF Working, Unread
  <2>3. QED
    BY <1>0, <1>4, <2>1, <2>2 DEF RegisterArtifact, IsWorker
<1>5. CASE RunQuery
  BY <1>0, <1>5 DEF RunQuery, IsWorker
<1>6. CASE \/ WriteFails \/ JobLost
           \/ \E at \in {"submitting", "loading", "describing", "querying"} :
                  CallFails(at)
  BY <1>6 DEF WriteFails, JobLost, CallFails
<1>7. CASE RunIntake \/ RunDesign \/ RunBuild \/ OpenPullRequest
  BY <1>0, <1>7 DEF RunIntake, RunDesign, RunBuild, OpenPullRequest, Deliver,
                    IsWorker
<1>8. CASE Compile
  BY <1>0, <1>8 DEF Compile, IsWorker
<1>9. CASE Test
  BY <1>0, <1>9 DEF Test, IsWorker
<1>10. CASE DataStep
  BY <1>2, <1>3, <1>4, <1>5, <1>6, <1>10 DEF DataStep
<1>11. CASE AgentStep
  BY <1>3, <1>6, <1>7, <1>8, <1>9, <1>11 DEF AgentStep
<1>12. ~StartsEarly
  BY Started DEF Agents
<1>13. QED
  BY <1>1, <1>2, <1>10, <1>11, <1>12, Steps, RunSteps DEF RunnerStep

(* Previews are counted.                                                   *)
LEMMA PreviewsGrow ==
    ASSUME TypeOK, [Next]_vars
    PROVE  previews' >= previews
<1>0. previews \in Nat
  BY IngestionAssumption DEF TypeOK
<1>1. CASE OpenPreview \/ ClosePreview
  BY <1>0, <1>1 DEF OpenPreview, ClosePreview
<1>2. CASE UNCHANGED previews
  BY <1>0, <1>2
<1>3. CASE ApiStep
  BY <1>1, <1>2, <1>3 DEF ApiStep, BeginUpload, EndWrite, InsertRow, ApiCrash,
                          catalogVars
<1>4. CASE RunnerStep \/ AgentStep \/ UNCHANGED vars
  BY <1>2, <1>4
  DEF vars, RunnerStep, LoadFile, EndLoad, catalogVars, AgentStep, RunIntake,
      RunDesign, ApproveGate, RunBuild, Compile, Test, Push, OpenPullRequest,
      JobLost
<1>5. CASE DataStep
  BY <1>2, <1>5
  DEF DataStep, ListUploads, BeginLoad, SaveSchemas, GetDataDictionary,
      PlanProfile, RunQuery, CallFails, WriteFiles, WriteFails, WorkerCrash,
      RegisterArtifact, catalogVars
<1>6. CASE StartsEarly
  BY <1>2, <1>6, StartKeepsRun DEF EarlyFrame, catalogVars
<1>7. QED
  BY <1>3, <1>4, <1>5, <1>6, Steps, RunSteps

(* A run fails by a lost call, by a query refused because of a preview, or *)
(* by a model that does not compile; and failed it stays, unless an agent  *)
(* behind the failed one is taken.                                         *)
LEMMA FailureStep ==
    TypeOK /\ Shapes /\ Course /\ Loads /\ Once /\ FailureHasCause
    /\ [Next]_vars => FailureHasCause'
<1> SUFFICES ASSUME TypeOK, Shapes, Course, Loads, Once, FailureHasCause,
                    [Next]_vars, worker'.at = "failed"
             PROVE  \/ faults' > 0
                    \/ /\ previews' > 0
                       /\ "profile_report" \notin DOMAIN workspace'
                    \/ /\ "compile_summary" \in DOMAIN workspace'
                       /\ workspace'["compile_summary"].errors
  BY DEF FailureHasCause
<1>0. faults \in Nat /\ previews \in Nat
  BY IngestionAssumption DEF TypeOK
<1>1. CASE worker.at = "failed"
  <2>1. workspace' = workspace
    BY <1>1, WorkspaceGrows DEF WriteFiles
  <2>2. faults' >= faults /\ previews' >= previews
    BY <1>0, FaultsCounted, PreviewsGrow
  <2>3. faults' \in Nat /\ previews' \in Nat
    BY TypeStep, IngestionAssumption DEF TypeOK
  <2>4. QED
    BY <1>0, <1>1, <2>1, <2>2, <2>3 DEF FailureHasCause
<1>2. CASE worker.at # "failed" /\ RunQuery /\ preview
  <2>1. /\ worker.at = "querying" /\ workspace' = workspace
        /\ previews' = previews
    BY <1>2 DEF RunQuery, catalogVars
  <2>2. "profile_report" \notin DOMAIN workspace
    <3>1. "profile_report" \in Coming
      BY <2>1 DEF Coming, Undrafted, Delivering
    <3>2. QED
      BY <3>1 DEF Course
  <2>3. QED
    BY <1>2, <2>1, <2>2 DEF Shapes
<1>3. CASE worker.at # "failed" /\ Compile /\ ~Compiles
  BY <1>3 DEF Compile, WithFile, Put
<1>4. CASE faults' = faults + 1
  BY <1>0, <1>4
<1>5. QED
  BY <1>1, <1>2, <1>3, <1>4, FailsBy

-----------------------------------------------------------------------------
(* Uploads: the rows, the files they name and the catalog.                 *)

LEMMA RowTypes ==
    ASSUME TypeOK
    PROVE  /\ sent \in Nat /\ rows \in Seq(Row(sent)) /\ DOMAIN rows = 1..Len(rows)
           /\ Len(rows) \in Nat
           /\ \A i \in DOMAIN rows :
                 /\ rows[i] \in Row(sent)
                 /\ rows[i].name \in Names /\ rows[i].upload \in 1..sent
<1>1. rows \in Seq(Row(sent)) /\ sent \in Nat
  BY IngestionAssumption DEF TypeOK, Row
<1>2. DOMAIN rows = 1..Len(rows) /\ Len(rows) \in Nat
  BY <1>1
<1>3. \A i \in DOMAIN rows : rows[i] \in Row(sent)
  BY <1>1, <1>2
<1>4. QED
  BY <1>1, <1>2, <1>3 DEF Row

(* The steps that change the table of uploads, and what they leave of it.  *)
LEMMA InsertedRow ==
    ASSUME TypeOK, NEW n \in Names, InsertRow(n)
    PROVE  LET last == Len(rows) + 1
           IN  /\ DOMAIN rows' = DOMAIN rows \cup {last}
               /\ \A i \in DOMAIN rows : rows'[i] = rows[i]
               /\ rows'[last].name = n /\ rows'[last].upload = disk[n].upload
               /\ rows'[last].schema = NoBytes
<1>1. rows' = Append(rows, [name |-> n, upload |-> disk[n].upload,
                            schema |-> NoBytes])
  BY DEF InsertRow
<1>2. rows \in Seq(Row(sent)) /\ Len(rows) \in Nat /\ DOMAIN rows = 1..Len(rows)
  BY RowTypes
<1>3. 1..Len(rows) + 1 = 1..Len(rows) \cup {Len(rows) + 1}
  BY <1>2
<1>4. /\ DOMAIN rows' = 1..Len(rows) + 1
      /\ \A i \in 1..Len(rows) : rows'[i] = rows[i]
      /\ rows'[Len(rows) + 1] = [name |-> n, upload |-> disk[n].upload,
                                 schema |-> NoBytes]
  BY <1>1, <1>2
<1>5. QED
  BY <1>2, <1>3, <1>4

LEMMA SavedRow ==
    ASSUME TypeOK, SaveSchemas
    PROVE  /\ DOMAIN rows' = DOMAIN rows
           /\ \A i \in DOMAIN rows :
                 /\ rows'[i].name = rows[i].name
                 /\ rows'[i].upload = rows[i].upload
                 /\ rows'[i].schema =
                       IF /\ i <= worker.listed
                          /\ TableName(rows[i].name) \in DOMAIN worker.tables
                       THEN worker.tables[TableName(rows[i].name)]
                       ELSE rows[i].schema
<1>1. rows' = [i \in DOMAIN rows |->
                 IF /\ i <= worker.listed
                    /\ TableName(rows[i].name) \in DOMAIN worker.tables
                 THEN [rows[i] EXCEPT
                          !.schema = worker.tables[TableName(rows[i].name)]]
                 ELSE rows[i]]
  BY DEF SaveSchemas, TableOfUpload
<1>2. \A i \in DOMAIN rows : rows[i] \in Row(sent)
  BY RowTypes
<1>3. ASSUME NEW r \in Row(sent), NEW x
      PROVE  /\ [r EXCEPT !.schema = x].name = r.name
             /\ [r EXCEPT !.schema = x].upload = r.upload
             /\ [r EXCEPT !.schema = x].schema = x
  BY DEF Row
<1>4. QED
  BY <1>1, <1>2, <1>3

(* Rows are added and get their schemas; nothing else happens to them.     *)
LEMMA RowsMoves ==
    ASSUME [Next]_vars
    PROVE  rows' = rows \/ SaveSchemas \/ \E n \in Names : InsertRow(n)
<1>1. CASE ApiStep
  BY <1>1 DEF ApiStep, BeginUpload, EndWrite, OpenPreview, ClosePreview,
              ApiCrash, uploadVars
<1>2. CASE RunnerStep \/ AgentStep \/ UNCHANGED vars
  BY <1>2
  DEF vars, RunnerStep, LoadFile, EndLoad, uploadVars, AgentStep, RunIntake,
      RunDesign, ApproveGate, RunBuild, Compile, Test, Push, OpenPullRequest,
      JobLost
<1>3. CASE DataStep
  BY <1>3
  DEF DataStep, ListUploads, BeginLoad, GetDataDictionary, PlanProfile,
      RunQuery, CallFails, WriteFiles, WriteFails, WorkerCrash,
      RegisterArtifact, uploadVars
<1>4. CASE StartsEarly
  BY <1>4, StartKeepsRun DEF EarlyFrame, uploadVars
<1>5. QED
  BY <1>1, <1>2, <1>3, <1>4, Steps, RunSteps

LEMMA RowsStay ==
    ASSUME TypeOK, [Next]_vars
    PROVE  /\ DOMAIN rows \subseteq DOMAIN rows'
           /\ \A i \in DOMAIN rows : /\ rows'[i].name = rows[i].name
                                     /\ rows'[i].upload = rows[i].upload
           /\ SaveSchemas \/ \A i \in DOMAIN rows : rows'[i] = rows[i]
<1>1. CASE rows' = rows
  BY <1>1
<1>2. CASE SaveSchemas
  BY <1>2, SavedRow
<1>3. ASSUME NEW n \in Names, InsertRow(n)
      PROVE  /\ DOMAIN rows \subseteq DOMAIN rows'
             /\ \A i \in DOMAIN rows : rows'[i] = rows[i]
  BY <1>3, InsertedRow
<1>4. QED
  BY <1>1, <1>2, <1>3, RowsMoves

(* What happens to the bytes under a name.                                 *)
LEMMA DiskMoves ==
    ASSUME [Next]_vars
    PROVE  \/ UNCHANGED <<disk, good>>
           \/ \E n \in Names : \/ \E parses \in BOOLEAN : BeginUpload(n, parses)
                               \/ EndWrite(n)
<1>1. CASE ApiStep
  BY <1>1 DEF ApiStep, InsertRow, OpenPreview, ClosePreview, ApiCrash, uploadVars
<1>2. CASE RunnerStep \/ AgentStep \/ UNCHANGED vars
  BY <1>2
  DEF vars, RunnerStep, LoadFile, EndLoad, uploadVars, AgentStep, RunIntake,
      RunDesign, ApproveGate, RunBuild, Compile, Test, Push, OpenPullRequest,
      JobLost
<1>3. CASE DataStep
  BY <1>3
  DEF DataStep, ListUploads, BeginLoad, GetDataDictionary, PlanProfile,
      RunQuery, CallFails, WriteFiles, WriteFails, WorkerCrash, SaveSchemas,
      RegisterArtifact, uploadVars
<1>4. CASE StartsEarly
  BY <1>4, StartKeepsRun DEF EarlyFrame, uploadVars
<1>5. QED
  BY <1>1, <1>2, <1>3, <1>4, Steps, RunSteps

(* SaveSchemas writes what the catalog holds, the loader is at rest from   *)
(* then on.                                                                *)
LEMMA SchemasStep ==
    TypeOK /\ Loads /\ SchemasMatchCatalog /\ [Next]_vars => SchemasMatchCatalog'
<1> SUFFICES ASSUME TypeOK, Loads, SchemasMatchCatalog, [Next]_vars
             PROVE  SchemasMatchCatalog'
  OBVIOUS
<1>1. CASE SaveSchemas
  <2>1. AllUnread /\ Within(worker.tables) /\ catalog' = catalog
    BY <1>1 DEF Loads, SaveSchemas, Unread, catalogVars
  <2>2. QED
    BY <1>1, <2>1, SavedRow DEF SchemasMatchCatalog, AllUnread, Within
<1>2. ASSUME NEW n \in Names, InsertRow(n) PROVE SchemasMatchCatalog'
  <2>1. catalog' = catalog
    BY <1>2 DEF InsertRow, catalogVars
  <2>2. QED
    BY <1>2, <2>1, InsertedRow DEF SchemasMatchCatalog
<1>3. CASE rows' = rows
  <2>1. CASE catalog' = catalog
    BY <1>3, <2>1 DEF SchemasMatchCatalog
  <2>2. CASE BeginLoad \/ LoadFile
    <3>1. AllUnread
      BY <2>2 DEF BeginLoad, LoadFile, Loads, Unread
    <3>2. QED
      BY <1>3, <3>1 DEF SchemasMatchCatalog, AllUnread
  <2>3. QED
    BY <2>1, <2>2, CatalogSettled
<1>4. QED
  BY <1>1, <1>2, <1>3, RowsMoves

(* A row's file has not been replaced by an older one, and it is whole if  *)
(* it is the row's.                                                        *)
RowsOnDisk ==
    \A i \in DOMAIN rows :
        LET file == disk[rows[i].name]
        IN  /\ file.upload >= rows[i].upload
            /\ file.upload = rows[i].upload => file.whole

(* The two steps of a write to the disk.                                   *)
LEMMA Begun ==
    ASSUME TypeOK, NEW n \in Names, NEW parses \in BOOLEAN, BeginUpload(n, parses)
    PROVE  /\ disk'[n].upload = sent + 1
           /\ \A m \in Names \ {n} : disk'[m] = disk[m]
           /\ good' \subseteq good \cup {sent + 1}
           /\ rows' = rows
<1>1. disk \in [Names -> Bytes]
  BY DEF TypeOK
<1>2. disk' = [disk EXCEPT ![n] = [upload |-> sent + 1, whole |-> FALSE]]
  BY DEF BeginUpload
<1>3. QED
  BY <1>1, <1>2 DEF BeginUpload

LEMMA Ended ==
    ASSUME TypeOK, NEW n \in Names, EndWrite(n)
    PROVE  /\ disk'[n].upload = disk[n].upload /\ disk'[n].whole = TRUE
           /\ \A m \in Names \ {n} : disk'[m] = disk[m]
           /\ UNCHANGED <<rows, good>>
<1>1. disk \in [Names -> Bytes]
  BY DEF TypeOK
<1>2. disk' = [disk EXCEPT ![n] = [disk[n] EXCEPT !.whole = TRUE]]
  BY DEF EndWrite
<1>3. [disk[n] EXCEPT !.whole = TRUE] = [upload |-> disk[n].upload, whole |-> TRUE]
  BY <1>1, WholeBytes
<1>4. QED
  BY <1>1, <1>2, <1>3 DEF EndWrite

LEMMA RowsOnDiskStep ==
    TypeOK /\ Shapes /\ RowsOnDisk /\ [Next]_vars => RowsOnDisk'
<1> SUFFICES ASSUME TypeOK, Shapes, RowsOnDisk, [Next]_vars
             PROVE  RowsOnDisk'
  OBVIOUS
<1>0. disk \in [Names -> Bytes] /\ \A n \in Names : disk[n].upload \in Nat
  BY DEF TypeOK, Bytes
<1>1. ASSUME NEW n \in Names, NEW parses \in BOOLEAN, BeginUpload(n, parses)
      PROVE  RowsOnDisk'
  <2>1. ASSUME NEW i \in DOMAIN rows
        PROVE  LET file == disk'[rows[i].name]
               IN  /\ file.upload >= rows[i].upload
                   /\ file.upload = rows[i].upload => file.whole
    <3>1. /\ rows[i].name \in Names /\ rows[i].upload \in 1..sent
          /\ sent \in Nat
      BY RowTypes
    <3>2. CASE rows[i].name = n
      <4>1. disk'[n].upload = sent + 1
        BY <1>1, Begun
      <4>2. QED
        BY <3>1, <3>2, <4>1
    <3>3. CASE rows[i].name # n
      <4>1. disk'[rows[i].name] = disk[rows[i].name]
        BY <1>1, <3>1, <3>3, Begun
      <4>2. QED
        BY <4>1 DEF RowsOnDisk
    <3>4. QED
      BY <3>2, <3>3
  <2>2. rows' = rows
    BY <1>1, Begun
  <2>3. QED
    BY <2>1, <2>2 DEF RowsOnDisk
<1>2. ASSUME NEW n \in Names, EndWrite(n) PROVE RowsOnDisk'
  <2>1. ASSUME NEW i \in DOMAIN rows
        PROVE  LET file == disk'[rows[i].name]
               IN  /\ file.upload >= rows[i].upload
                   /\ file.upload = rows[i].upload => file.whole
    <3>1. rows[i].name \in Names
      BY RowTypes
    <3>2. CASE rows[i].name = n
      <4>1. disk'[n].upload = disk[n].upload /\ disk'[n].whole
        BY <1>2, Ended
      <4>2. QED
        BY <3>2, <4>1 DEF RowsOnDisk
    <3>3. CASE rows[i].name # n
      <4>1. disk'[rows[i].name] = disk[rows[i].name]
        BY <1>2, <3>1, <3>3, Ended
      <4>2. QED
        BY <4>1 DEF RowsOnDisk
    <3>4. QED
      BY <3>2, <3>3
  <2>2. rows' = rows
    BY <1>2, Ended
  <2>3. QED
    BY <2>1, <2>2 DEF RowsOnDisk
<1>3. ASSUME NEW n \in Names, InsertRow(n) PROVE RowsOnDisk'
  <2>1. disk' = disk /\ disk[n].whole
    BY <1>3 DEF InsertRow
  <2>2. disk[n].upload \in Nat
    BY <1>0
  <2>3. QED
    BY <2>1, <2>2, <1>3, InsertedRow DEF RowsOnDisk
<1>4. CASE disk' = disk /\ (rows' = rows \/ SaveSchemas)
  BY <1>4, SavedRow DEF RowsOnDisk
<1>5. QED
  BY <1>1, <1>2, <1>3, <1>4, DiskMoves, RowsMoves

-----------------------------------------------------------------------------

(* The uploads ListedAreIngested is about, and what becomes of one.        *)
Claims(i) == SoleClaim(i) /\ Loadable(i)

Own(i) == [upload |-> rows[i].upload, whole |-> TRUE]

LoadedIn(tables, i) ==
    /\ TableName(rows[i].name) \in DOMAIN tables
    /\ tables[TableName(rows[i].name)] = Own(i)

(* Whether the schemas of the listed uploads are still to be saved.        *)
Unsaved == ~Describing /\ ~Ingested

(* On its way to the catalog such an upload is on the loader's list or     *)
(* loaded with its own bytes, then in the loader's answer, then in its     *)
(* row.                                                                    *)
Listings ==
    /\ loader.at = "running" =>
          /\ \A k \in DOMAIN loader.todo :
                \E i \in 1..worker.listed : rows[i].name = loader.todo[k]
          /\ \A i \in 1..worker.listed : Claims(i) =>
                \/ \E k \in DOMAIN loader.todo : loader.todo[k] = rows[i].name
                \/ LoadedIn(loader.tables, i)
    /\ worker.at = "saving" =>
          \A i \in 1..worker.listed : Claims(i) => LoadedIn(worker.tables, i)
    /\ ~Unsaved =>
          \A i \in 1..worker.listed : Claims(i) => rows[i].schema = Own(i)

(* What is uploaded later can only take an upload's claim away.            *)
LEMMA ClaimsShrink ==
    ASSUME TypeOK, Shapes, [Next]_vars, NEW i \in DOMAIN rows, Claims(i)'
    PROVE  Claims(i)
<1> DEFINE n == rows[i].name
<1>0. /\ disk \in [Names -> Bytes] /\ sent \in Nat
      /\ n \in Names /\ rows[i].upload \in 1..sent
  BY RowTypes DEF TypeOK
<1>1. /\ rows'[i].name = n /\ rows'[i].upload = rows[i].upload
      /\ DOMAIN rows \subseteq DOMAIN rows'
      /\ \A j \in DOMAIN rows : rows'[j].name = rows[j].name
  BY RowsStay
<1>2. /\ disk'[n].upload = rows[i].upload
      /\ \A m \in Names \ {n} : TableName(m) = TableName(n) => disk'[m] = NoBytes
      /\ \A j \in DOMAIN rows : rows[j].name = n => j = i
      /\ rows[i].upload \in good' /\ IsIdentifier(TableName(n))
  BY <1>1 DEF Claims, SoleClaim, Loadable
<1>3. CASE UNCHANGED <<disk, good>>
  BY <1>2, <1>3 DEF Claims, SoleClaim, Loadable
<1>4. ASSUME NEW k \in Names, NEW parses \in BOOLEAN, BeginUpload(k, parses)
      PROVE  Claims(i)
  <2>1. /\ disk'[k].upload = sent + 1
        /\ \A m \in Names \ {k} : disk'[m] = disk[m]
        /\ good' \subseteq good \cup {sent + 1}
    BY <1>4, Begun
  <2>2. k # n /\ rows[i].upload \in good
    BY <1>0, <1>2, <2>1
  <2>3. disk'[k] # NoBytes
    BY <1>0, <2>1 DEF NoBytes
  <2>4. QED
    BY <1>0, <1>2, <2>1, <2>2, <2>3 DEF Claims, SoleClaim, Loadable
<1>5. ASSUME NEW k \in Names, EndWrite(k) PROVE Claims(i)
  <2>1. /\ disk'[k].upload = disk[k].upload /\ disk'[k].whole = TRUE
        /\ \A m \in Names \ {k} : disk'[m] = disk[m]
        /\ good' = good
    BY <1>5, Ended
  <2>2. disk'[k] # NoBytes
    BY <2>1 DEF NoBytes
  <2>3. disk[n].upload = rows[i].upload
    BY <1>0, <1>2, <2>1
  <2>4. QED
    BY <1>0, <1>2, <2>1, <2>2, <2>3 DEF Claims, SoleClaim, Loadable
<1>6. QED
  BY <1>3, <1>4, <1>5, DiskMoves

(* What a claim leaves the loader no choice about.                         *)
LEMMA ClaimLoads ==
    ASSUME TypeOK, RowsOnDisk, NEW i \in DOMAIN rows, Claims(i)
    PROVE  /\ CanLoad(rows[i].name) = {TRUE}
           /\ disk[rows[i].name] = Own(i)
           /\ \A j \in DOMAIN rows :
                 TableName(rows[j].name) = TableName(rows[i].name) => j = i
<1> DEFINE n == rows[i].name
<1>1. /\ n \in Names /\ rows[i].upload \in 1..sent /\ sent \in Nat
      /\ disk \in [Names -> Bytes]
  BY RowTypes DEF TypeOK
<1>2. disk[n].upload = rows[i].upload /\ disk[n].whole
  BY DEF Claims, SoleClaim, RowsOnDisk
<1>3. disk[n] = Own(i)
  BY <1>1, <1>2 DEF Bytes, Own
<1>4. CanLoad(n) = {TRUE}
  BY <1>2 DEF CanLoad, Claims, Loadable
<1>5. ASSUME NEW j \in DOMAIN rows, TableName(rows[j].name) = TableName(n)
      PROVE  j = i
  <2>1. /\ rows[j].name \in Names /\ rows[j].upload \in 1..sent
        /\ disk[rows[j].name].upload >= rows[j].upload
        /\ disk[rows[j].name].upload \in Nat
    BY <1>1, RowTypes DEF RowsOnDisk, Bytes
  <2>2. disk[rows[j].name] # NoBytes
    BY <1>1, <2>1 DEF NoBytes
  <2>3. rows[j].name = n
    BY <1>5, <2>1, <2>2 DEF Claims, SoleClaim
  <2>4. QED
    BY <2>3 DEF Claims, SoleClaim
<1>6. QED
  BY <1>3, <1>4, <1>5

(* Only the upload with a claim writes the table of its name.              *)
LEMMA LoadKeepsListings ==
    ASSUME TypeOK, Shapes, Loads, RowsOnDisk, Listings, LoadFile
    PROVE  /\ \A k \in DOMAIN loader'.todo :
                 \E i \in 1..worker.listed : rows[i].name = loader'.todo[k]
           /\ \A i \in 1..worker.listed : Claims(i) =>
                 \/ \E k \in DOMAIN loader'.todo : loader'.todo[k] = rows[i].name
                 \/ LoadedIn(loader'.tables, i)
<1> DEFINE todo == loader.todo
<1>0. /\ loader.at = "running" /\ todo # <<>> /\ todo \in Seq(Names)
      /\ worker.listed \in 0..Len(rows) /\ DOMAIN rows = 1..Len(rows)
      /\ Len(rows) \in Nat
  BY RowTypes DEF LoadFile, TypeOK
<1>1. /\ loader'.todo = Tail(todo)
      /\ \E loads \in CanLoad(NextFile) :
            loader'.tables = IF loads THEN WithTable(loader.tables)
                             ELSE loader.tables
  BY <1>0, LoadedWithin DEF Loads
<1>2. /\ Len(todo) \in Nat \ {0} /\ DOMAIN todo = 1..Len(todo)
      /\ DOMAIN Tail(todo) = 1..Len(todo) - 1
      /\ \A k \in 1..Len(todo) - 1 : Tail(todo)[k] = todo[k + 1]
      /\ NextFile = todo[1]
  BY <1>0 DEF NextFile
<1>3. \A k \in DOMAIN loader'.todo :
         \E i \in 1..worker.listed : rows[i].name = loader'.todo[k]
  <2>1. ASSUME NEW k \in 1..Len(todo) - 1
        PROVE  \E i \in 1..worker.listed : rows[i].name = todo[k + 1]
    <3>1. k + 1 \in DOMAIN todo
      BY <1>2
    <3>2. QED
      BY <1>0, <3>1 DEF Listings
  <2>2. QED
    BY <1>1, <1>2, <2>1
<1>4. ASSUME NEW i \in 1..worker.listed, Claims(i)
      PROVE  \/ \E k \in DOMAIN loader'.todo : loader'.todo[k] = rows[i].name
             \/ LoadedIn(loader'.tables, i)
  <2> DEFINE t == TableName(rows[i].name)
  <2>1. i \in DOMAIN rows
    BY <1>0
  <2>2. /\ CanLoad(rows[i].name) = {TRUE} /\ disk[rows[i].name] = Own(i)
        /\ \A j \in DOMAIN rows : TableName(rows[j].name) = t => j = i
    BY <1>4, <2>1, ClaimLoads
  <2>3. PICK j \in 1..worker.listed : rows[j].name = NextFile
    BY <1>0, <1>2 DEF Listings
  <2>4. j \in DOMAIN rows
    BY <1>0
  <2>5. CASE NextFile = rows[i].name
    <3>1. loader'.tables = Put(loader.tables, t, Own(i))
      BY <1>1, <2>2, <2>5 DEF WithTable
    <3>2. QED
      BY <3>1 DEF LoadedIn, Put
  <2>6. CASE NextFile # rows[i].name
    <3>1. TableName(NextFile) # t
      BY <2>2, <2>3, <2>4, <2>6
    <3>2. CASE LoadedIn(loader.tables, i)
      BY <1>1, <3>1, <3>2 DEF LoadedIn, WithTable, Put
    <3>3. CASE \E k \in DOMAIN todo : todo[k] = rows[i].name
      <4>1. PICK k \in 1..Len(todo) : todo[k] = rows[i].name
        BY <1>2, <3>3
      <4>2. k # 1
        BY <1>2, <2>6, <4>1
      <4>3. k - 1 \in 1..Len(todo) - 1 /\ (k - 1) + 1 = k
        BY <1>2, <4>2
      <4>4. Tail(todo)[k - 1] = rows[i].name
        BY <1>2, <4>1, <4>3
      <4>5. QED
        BY <1>1, <1>2, <4>3, <4>4
    <3>4. QED
      BY <1>0, <1>4, <3>2, <3>3 DEF Listings
  <2>7. QED
    BY <2>5, <2>6
<1>5. QED
  BY <1>3, <1>4

(* The requirements are the last file of the ingestion handler.            *)
LEMMA IngestedLater ==
    ASSUME TypeOK, Course, [Next]_vars, ~Ingested, Ingested'
    PROVE  Describing
<1>1. Ingested <=> "requirements" \in Registered
  BY DEF Ingested, Registered
<1>2. Ingested' <=> "requirements" \in Registered'
  BY DEF Ingested, Registered
<1>3. worker.at = "registering" /\ Head(worker.unregistered) = "requirements"
  BY <1>1, <1>2, RegisteredGrows
<1>4. ASSUME NEW then, NEW now, NEW order, <<then, now, order>> \in Registrations,
             Head(now) = "requirements"
      PROVE  then = "intake"
  BY <1>4, Takes DEF Registrations
<1>5. <<worker.then, worker.unregistered, worker.order>> \in Registrations
  BY <1>3 DEF Course
<1>6. worker.then = "intake"
  BY <1>3, <1>4, <1>5
<1>7. QED
  BY <1>3, <1>6 DEF Describing, Delivering

LEMMA NotIngestedYet ==
    ASSUME Course, Once, worker.at \in Reading
    PROVE  ~Ingested
<1>1. "requirements" \in Coming
  BY DEF Coming, Undrafted, Delivering, Reading
<1>2. "requirements" \notin Registered
  BY <1>1 DEF Course, Once
<1>3. QED
  BY <1>2 DEF Ingested, Registered

LEMMA IngestedBegun ==
    ASSUME Course, Once, Ingested
    PROVE  "ingesting" \in sessions
<1>1. "requirements" \in DOMAIN workspace
  BY DEF Ingested, Once, Registered
<1>2. QED
  BY <1>1 DEF Course, Author

LEMMA ListingsStep ==
    /\ TypeOK /\ Shapes /\ Course /\ Loads /\ Once /\ RowsOnDisk /\ Listings
    /\ [Next]_vars
    => Listings'
<1> SUFFICES ASSUME TypeOK, Shapes, Course, Loads, Once, RowsOnDisk, Listings,
                    [Next]_vars
             PROVE  Listings'
  OBVIOUS
<1>0. /\ IsWorker(worker) /\ worker.listed \in 0..Len(rows)
      /\ DOMAIN rows = 1..Len(rows) /\ Len(rows) \in Nat
      /\ worker.listed \in Nat
  BY RowTypes, ListedRows DEF Shapes, IsWorker, TypeOK
<1>1. 1..worker.listed \subseteq DOMAIN rows
  BY <1>0
<1>2. \A i \in DOMAIN rows : Claims(i)' => Claims(i)
  BY ClaimsShrink
<1>3. \A i \in DOMAIN rows : /\ rows'[i].name = rows[i].name
                             /\ Own(i)' = Own(i)
  BY RowsStay DEF Own
<1>4. \A i \in DOMAIN rows :
         LoadedIn(loader.tables, i) /\ loader' = loader =>
            LoadedIn(loader.tables, i)'
  BY <1>3 DEF LoadedIn
<1>5. CASE UNCHANGED <<catalog, loader, workspace, artifacts, worker>>
              /\ (rows' = rows \/ \E n \in Names : InsertRow(n))
  <2>1. \A i \in DOMAIN rows : rows'[i] = rows[i]
    BY <1>5, InsertedRow
  <2>2. ~Unsaved' => ~Unsaved
    BY <1>5 DEF Unsaved, Ingested, Describing
  <2>3. QED
    BY <1>1, <1>2, <1>3, <1>5, <2>1, <2>2 DEF Listings, LoadedIn
<1>6. CASE ListUploads
  <2>1. /\ worker.at = "ingesting" /\ loader' = loader
        /\ worker'.at \in {"submitting", "writing"}
        /\ worker'.at = "writing" => worker'.listed = 0
    BY <1>0, <1>6, ListedRows DEF ListUploads, IsWorker, catalogVars
  <2>2. worker'.at # worker.at /\ [RunStep]_vars
    BY <2>1, Started, Steps DEF Agents
  <2>3. "ingesting" \notin sessions
    BY <2>1, <2>2, Begins DEF Agents
  <2>4. loader.at # "running" /\ ~Ingested
    BY <2>3, IngestionBegun, IngestedBegun
  <2>5. ~Ingested'
    BY <2>1, <2>4, IngestedLater DEF Describing, Delivering
  <2>6. QED
    BY <2>1, <2>4, <2>5 DEF Listings, Unsaved, Describing, Delivering
<1>7. CASE BeginLoad
  <2>1. /\ worker.at = "submitting" /\ worker'.at = "loading"
        /\ worker'.listed = worker.listed /\ rows' = rows
        /\ loader'.todo = [i \in 1..worker.listed |-> rows[i].name]
    BY <1>0, <1>7 DEF BeginLoad, Goto, IsWorker, uploadVars
  <2>2. ~Ingested'
    BY <2>1, NotIngestedYet, IngestedLater DEF Reading, Describing, Delivering
  <2>3. QED
    BY <2>1, <2>2 DEF Listings, Unsaved, Describing, Delivering
<1>8. CASE LoadFile
  <2>1. UNCHANGED <<rows, worker, artifacts>> /\ loader.at = "running"
    BY <1>8 DEF LoadFile, uploadVars, runVars
  <2>2. /\ \A k \in DOMAIN loader'.todo :
              \E i \in 1..worker.listed : rows[i].name = loader'.todo[k]
        /\ \A i \in 1..worker.listed : Claims(i) =>
              \/ \E k \in DOMAIN loader'.todo : loader'.todo[k] = rows[i].name
              \/ LoadedIn(loader'.tables, i)
    BY <1>8, LoadKeepsListings
  <2>3. worker.at # "saving"
    BY <2>1 DEF Loads
  <2>4. \A i \in DOMAIN rows :
           LoadedIn(loader'.tables, i) => LoadedIn(loader.tables, i)'
    BY <2>1 DEF LoadedIn, Own
  <2>5. Unsaved' <=> Unsaved
    BY <2>1 DEF Unsaved, Ingested, Describing
  <2>6. QED
    BY <1>1, <1>2, <1>3, <2>1, <2>2, <2>3, <2>4, <2>5 DEF Listings
<1>9. CASE EndLoad
  <2>1. /\ loader.at = "running" /\ loader.todo = <<>> /\ loader'.at = "idle"
        /\ UNCHANGED <<rows, artifacts>>
    BY <1>9 DEF EndLoad, IdleLoader, uploadVars
  <2>2. CASE worker.at = "loading"
    <3>1. /\ worker'.at = "saving" /\ worker'.listed = worker.listed
          /\ worker'.tables = loader.tables
      BY <1>0, <1>9, <2>2 DEF EndLoad, IsWorker
    <3>2. ~Ingested'
      BY <2>2, NotIngestedYet, IngestedLater DEF Reading, Describing, Delivering
    <3>3. \A i \in 1..worker.listed : Claims(i) => LoadedIn(loader.tables, i)
      BY <2>1 DEF Listings
    <3>4. \A i \in DOMAIN rows :
             LoadedIn(loader.tables, i) => LoadedIn(worker.tables, i)'
      BY <2>1, <3>1 DEF LoadedIn, Own
    <3>5. QED
      BY <1>1, <1>2, <2>1, <3>1, <3>2, <3>3, <3>4
      DEF Listings, Unsaved, Describing, Delivering
  <2>3. CASE worker.at # "loading"
    <3>1. worker' = worker
      BY <1>9, <2>3 DEF EndLoad
    <3>2. QED
      BY <1>1, <1>2, <1>3, <2>1, <3>1 DEF Listings, LoadedIn, Unsaved, Ingested,
                                               Describing
  <2>4. QED
    BY <2>2, <2>3
<1>10. CASE SaveSchemas
  <2>1. /\ worker.at = "saving" /\ worker'.at = "describing"
        /\ worker'.listed = worker.listed /\ loader' = loader
    BY <1>0, <1>10 DEF SaveSchemas, Goto, IsWorker, catalogVars
  <2>2. loader.at # "running"
    BY <2>1 DEF Loads
  <2>3. ASSUME NEW i \in 1..worker.listed, Claims(i)
        PROVE  rows'[i].schema = Own(i)
    <3>1. LoadedIn(worker.tables, i)
      BY <2>1, <2>3 DEF Listings
    <3>2. i \in DOMAIN rows /\ i <= worker.listed
      BY <1>0
    <3>3. QED
      BY <1>10, <3>1, <3>2, SavedRow DEF LoadedIn
  <2>4. QED
    BY <1>1, <1>2, <1>3, <2>1, <2>2, <2>3 DEF Listings
<1>11. CASE BesideLoading
  <2>1. UNCHANGED <<catalog, loader, rows>> /\ worker'.at \notin Reading
    BY <1>11 DEF BesideLoading
  <2>2. "ingesting" \in sessions => worker'.listed = worker.listed
    BY ListedKept
  <2>3. loader.at = "running" => worker'.listed = worker.listed
    BY <2>2, IngestionBegun
  <2>4. Describing' => Describing \/ worker'.listed = 0
    BY <2>1, DescribingFrom DEF Reading
  <2>5. Describing \/ Ingested => worker'.listed = worker.listed
    BY <2>2, IngestionBegun, IngestedBegun
  <2>6. ~Unsaved' => \/ ~Unsaved /\ worker'.listed = worker.listed
                     \/ worker'.listed = 0
    BY <2>4, <2>5, IngestedLater DEF Unsaved
  <2>7. "saving" \in Reading
    BY DEF Reading
  <2>8. QED
    BY <1>1, <1>2, <1>3, <1>4, <2>1, <2>3, <2>6, <2>7 DEF Listings
<1>12. QED
  BY <1>5, <1>6, <1>7, <1>8, <1>9, <1>10, <1>11, BesideLoadingOf

LEMMA ListingsGive == Listings => ListedAreIngested
  BY DEF Listings, ListedAreIngested, Unsaved, Claims, Own

-----------------------------------------------------------------------------
(* The invariant, and what follows from it.                                *)

AgentsInv ==
    /\ TypeOK /\ Shapes /\ Course /\ Loads /\ Once
    /\ SchemasMatchCatalog /\ RowsOnDisk /\ Listings
    /\ OnceRemote /\ FailureHasCause
    /\ InTurn => InDelivery /\ LoadsInTurn /\ Contents /\ Published

LEMMA AgentsInitHolds == AgentsInit => AgentsInv
<1> SUFFICES ASSUME AgentsInit PROVE AgentsInv
  OBVIOUS
<1>0. /\ disk = [n \in Names |-> NoBytes] /\ good = {} /\ rows = <<>>
      /\ sent = 0 /\ sending = {}
      /\ catalog = [exists |-> FALSE, tables |-> <<>>]
      /\ loader = [at |-> "idle", todo |-> <<>>, tables |-> <<>>]
      /\ preview = FALSE /\ previews = 0
      /\ workspace = <<>> /\ artifacts = <<>>
      /\ worker = [at |-> "ingesting", listed |-> 0, tables |-> <<>>,
                   queries |-> 0, draft |-> <<>>, order |-> <<>>,
                   unregistered |-> <<>>, then |-> "intake"]
      /\ faults = 0 /\ slug \in Slugs /\ remote = <<>>
      /\ sessions = {} /\ rushed = 0
      /\ MaxUploads \in Nat /\ MaxPreviews \in Nat /\ MaxFaults \in Nat
      /\ MaxRushes \in Nat
  BY IngestionAssumption, TicketAssumption DEF AgentsInit, Init, IdleLoader
<1>1. NoBytes \in Bytes
  BY <1>0 DEF NoBytes, Bytes
<1>2. /\ worker.at = "ingesting" /\ worker.listed = 0 /\ worker.tables = <<>>
      /\ worker.queries = 0 /\ worker.order = <<>> /\ worker.unregistered = <<>>
      /\ worker.then = "intake" /\ IsWorker(worker)
      /\ loader.at = "idle" /\ loader.todo = <<>> /\ loader.tables = <<>>
      /\ catalog.exists = FALSE /\ catalog.tables = <<>>
  BY <1>0 DEF IsWorker
<1>3. Registered = {} /\ ~Ingested
  BY <1>0 DEF Registered, Ingested
<1>4. Cardinality({}) = 0 /\ IsFiniteSet({})
  BY FS_EmptySet
<1>5. DOMAIN workspace = {}
  BY <1>0
<1>6. TypeOK
  <2>1. /\ disk \in [Names -> Bytes] /\ rows \in Seq(Row(sent))
        /\ artifacts \in Seq(Files) /\ remote \in Seq({"push", "pull_request"})
        /\ worker.order \in Seq(Seq(Files)) /\ worker.unregistered \in Seq(Files)
        /\ loader.todo \in Seq(Names)
    BY <1>0, <1>1, <1>2
  <2>2. worker.listed \in 0..Len(rows)
    BY <1>0, <1>2
  <2>3. /\ sent \in 0..MaxUploads /\ good \subseteq 1..sent
        /\ previews \in 0..MaxPreviews /\ preview \in BOOLEAN
        /\ faults \in 0..MaxFaults /\ worker.queries \in 0..3
        /\ rushed \in 0..MaxRushes
    <3>1. \A n \in Nat : 0 \in 0..n
      OBVIOUS
    <3>2. 0 \in 0..3
      OBVIOUS
    <3>3. /\ sent \in 0..MaxUploads /\ previews \in 0..MaxPreviews
          /\ faults \in 0..MaxFaults /\ rushed \in 0..MaxRushes
      BY <1>0, <3>1
    <3>4. preview \in BOOLEAN /\ good \subseteq 1..sent
      BY <1>0
    <3>5. worker.queries \in 0..3
      BY <1>2, <3>2
    <3>6. QED
      BY <3>3, <3>4, <3>5
  <2>4. /\ sending \subseteq Names /\ Cardinality(sending) <= 1
        /\ catalog.exists \in BOOLEAN
        /\ \A t \in DOMAIN catalog.tables : catalog.tables[t] \in Bytes
        /\ loader.at \in {"idle", "running"}
        /\ DOMAIN workspace \subseteq Files
        /\ worker.at # "registering" /\ worker.at # "writing"
    BY <1>0, <1>2, <1>4, <1>5
  <2>5. QED
    BY <1>0, <2>1, <2>2, <2>3, <2>4 DEF TypeOK, Row
<1>7. Shapes
  BY <1>0, <1>2, EmptyTables DEF Shapes, IsWorker, NoBytes, Working, Unread
<1>8. InDelivery
  BY <1>2, <1>3, <1>5, NextDue DEF InDelivery, Working, Unread, Delivering
<1>9. Loads /\ LoadsInTurn /\ Once
  BY <1>0, <1>2, <1>3, <1>4, <1>5
  DEF Loads, LoadsInTurn, AllUnread, Once, Working, Unread, Delivering
<1>10. SchemasMatchCatalog /\ RowsOnDisk
  BY <1>0 DEF SchemasMatchCatalog, RowsOnDisk
<1>11. Listings
  BY <1>2, <1>3 DEF Listings, Unsaved, Describing, Delivering
<1>12. Contents /\ Published /\ OnceRemote /\ FailureHasCause
  BY <1>0, <1>2, <1>3, <1>5
  DEF Contents, Published, OnceRemote, FailureHasCause, Delivering
<1>13. Course
  BY <1>2, <1>5
  DEF Course, Coming, Undrafted, Working, Unread, Delivering
<1>14. QED
  BY <1>6, <1>7, <1>8, <1>9, <1>10, <1>11, <1>12, <1>13 DEF AgentsInv

LEMMA AgentsInvStep == AgentsInv /\ [Next]_vars => AgentsInv'
<1> SUFFICES ASSUME AgentsInv, [Next]_vars PROVE AgentsInv'
  OBVIOUS
<1>1. TypeOK' /\ Shapes'
  BY TypeStep DEF AgentsInv
<1>2. Course' /\ Loads' /\ Once'
  BY CourseStep, LoadsStep, OnceStep DEF AgentsInv
<1>3. SchemasMatchCatalog' /\ RowsOnDisk' /\ Listings'
  BY SchemasStep, RowsOnDiskStep, ListingsStep DEF AgentsInv
<1>4. OnceRemote' /\ FailureHasCause'
  BY OnceRemoteStep, FailureStep DEF AgentsInv
<1>5. ASSUME InTurn'
      PROVE  InDelivery' /\ LoadsInTurn' /\ Contents' /\ Published'
  <2>1. rushed \in Nat
    BY TicketAssumption DEF AgentsInv, TypeOK
  <2>2. [RunStep]_vars
    BY <1>5, <2>1, Started, Steps DEF AgentsInv, InTurn
  <2>3. InTurn
    BY <1>5, <2>2 DEF RunStep, vars, InTurn
  <2>4. InDelivery' /\ LoadsInTurn'
    BY <2>2, <2>3, DeliveryStep, LoadsInTurnStep DEF AgentsInv
  <2>5. Contents' /\ Published'
    BY <2>2, <2>3, ContentsStep, PublishedStep DEF AgentsInv
  <2>6. QED
    BY <2>4, <2>5
<1>6. QED
  BY <1>1, <1>2, <1>3, <1>4, <1>5 DEF AgentsInv

LEMMA AgentsInvariant == Spec => []AgentsInv
  BY AgentsInitHolds, AgentsInvStep, PTL DEF Spec

LEMMA InvGives ==
    AgentsInv =>
        /\ SchemasMatchCatalog /\ ListedAreIngested /\ ProfileMatchesData
        /\ ArtifactsAreWritten /\ EvidenceBehindPR
<1> SUFFICES ASSUME AgentsInv
             PROVE  /\ SchemasMatchCatalog /\ ListedAreIngested
                    /\ ProfileMatchesData /\ ArtifactsAreWritten
                    /\ EvidenceBehindPR
  OBVIOUS
<1>1. SchemasMatchCatalog
  BY DEF AgentsInv
<1>2. ListedAreIngested
  BY ListingsGive DEF AgentsInv
<1>3. ArtifactsAreWritten
  BY DEF AgentsInv, Once, ArtifactsAreWritten
<1>4. ProfileMatchesData
  <2> SUFFICES ASSUME InTurn, "profile_report" \in DOMAIN workspace
               PROVE  LET p == workspace["profile_report"]
                          d == workspace["data_dictionary"]
                      IN  IF worker.listed = 0 THEN p.source = "fixture"
                          ELSE /\ p.source = "catalog"
                               /\ p.tables \subseteq DOMAIN d
                               /\ \/ p.tables = DOMAIN d
                                  \/ Cardinality(p.tables) = 3
                                  \/ p.tables = {} /\ faults > 0
    BY DEF ProfileMatchesData
  <2>1. /\ SoundProfile(workspace["profile_report"])
        /\ worker.listed > 0 =>
              workspace["data_dictionary"] = catalog.tables
    BY DEF AgentsInv, Contents
  <2>2. worker.listed = 0 \/ worker.listed > 0
    BY ListedRows DEF AgentsInv
  <2>3. QED
    BY <2>1, <2>2 DEF SoundProfile
<1>5. EvidenceBehindPR
  <2>1. remote \in {<<>>, <<"push">>, <<"push", "pull_request">>}
    BY DEF AgentsInv, OnceRemote
  <2>2. ASSUME InTurn, remote # <<>>
        PROVE  /\ Evidence \subseteq Registered
               /\ ~workspace["compile_summary"].errors
               /\ workspace["qa_report"] = workspace["run_results"]
    <3>1. Evidence \subseteq Registered /\ Evidence \subseteq DOMAIN workspace
      BY <2>2 DEF AgentsInv, Published, Once
    <3>2. Compiles
      BY <2>2, <3>1 DEF AgentsInv, Published, Evidence
    <3>3. /\ workspace["compile_summary"] = [errors |-> ~Compiles]
          /\ workspace["qa_report"] = workspace["run_results"]
      BY <2>2, <3>1 DEF AgentsInv, Contents, Evidence
    <3>4. \A e : [errors |-> e].errors = e
      OBVIOUS
    <3>5. workspace["compile_summary"].errors = ~Compiles
      BY <3>3, <3>4
    <3>6. QED
      BY <3>1, <3>2, <3>3, <3>5
  <2>3. QED
    BY <2>1, <2>2 DEF EvidenceBehindPR, Evidence
<1>6. QED
  BY <1>1, <1>2, <1>3, <1>4, <1>5

-----------------------------------------------------------------------------

(* Type correctness: whatever is uploaded, whatever fails, every table,    *)
(* file and list of the run stays within its type, and one upload at a     *)
(* time is between its bytes and its row.                                  *)
THEOREM AgentsTypeCorrect == Spec => []TypeOK
<1>1. AgentsInv => TypeOK
  BY DEF AgentsInv
<1>. QED BY <1>1, AgentsInvariant, PTL

(* The columns shown for an upload are those of the table the catalog      *)
(* holds under its name, although names clash, files are overwritten while *)
(* they are loaded, and a loader the worker has given up on goes on        *)
(* loading.                                                                *)
THEOREM SchemasAreTrue == Spec => []SchemasMatchCatalog
<1>1. AgentsInv => SchemasMatchCatalog
  BY InvGives
<1>. QED BY <1>1, AgentsInvariant, PTL

(* A readable upload that nothing competes with for its table, stored      *)
(* before the handler listed the uploads, has its own columns once the run *)
(* has ingested: neither the files that cannot be read nor what arrives    *)
(* meanwhile cost it its schema.                                           *)
THEOREM UploadsAreIngested == Spec => []ListedAreIngested
<1>1. AgentsInv => ListedAreIngested
  BY InvGives
<1>. QED BY <1>1, AgentsInvariant, PTL

(* If every agent has waited for its turn, the profile says what became of *)
(* the uploads that were listed: the fixture's without any, and with any   *)
(* of tables the data dictionary has, all or three of them, although the   *)
(* two files are written by different agents from different calls of the   *)
(* runner.  It has no table only where none was loaded or a call was lost. *)
THEOREM ProfilesAreTrue == Spec => []ProfileMatchesData
<1>1. AgentsInv => ProfileMatchesData
  BY InvGives
<1>. QED BY <1>1, AgentsInvariant, PTL

(* The artifacts of a run are files it has written, each listed once,      *)
(* wherever a handler stops between a write and its row, and in whatever   *)
(* order the agents run.                                                   *)
THEOREM ArtifactsExist == Spec => []ArtifactsAreWritten
<1>1. AgentsInv => ArtifactsAreWritten
  BY InvGives
<1>. QED BY <1>1, AgentsInvariant, PTL

(* In whatever order the agents run, the branch is pushed once and then    *)
(* one pull request opened.  If every agent has waited for its turn, it    *)
(* stands on the artifacts of every agent, a model that compiled and a QA  *)
(* report that agrees with the results of the build.                       *)
THEOREM PullRequestsStand == Spec => []EvidenceBehindPR
<1>1. AgentsInv => EvidenceBehindPR
  BY InvGives
<1>. QED BY <1>1, AgentsInvariant, PTL

(* No upload and no early start by itself fails a run: it takes a fault (a *)
(* lost call, a write that fails, a crash), a preview opened before there  *)
(* is a profile, or a model that does not compile.                         *)
THEOREM FailuresHaveCause == Spec => []FailureHasCause
<1>1. AgentsInv => FailureHasCause
  BY DEF AgentsInv
<1>. QED BY <1>1, AgentsInvariant, PTL
================================================================================
