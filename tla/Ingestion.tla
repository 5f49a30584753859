-------------------------------- MODULE Ingestion --------------------------------
(***************************************************************************)
(* The data side of a ticket run: POST /tickets/{id}/uploads, which stores *)
(* files whenever a client sends them, the ingestion and profiling         *)
(* handlers of the worker, and the runner's jobs on the ticket's catalog.  *)
(* Module TicketAgents adds the handlers that come between and after.      *)
(*                                                                         *)
(* A file name is reduced to what its table name depends on, a file's      *)
(* bytes to the upload they came from, a schema to the bytes it was read   *)
(* from.  An action ends where another process can look in: at a commit,   *)
(* a finished write, or the answer of a runner job.                        *)
(***************************************************************************)
EXTENDS Naturals, Sequences, FiniteSets

CONSTANTS
    Names,         \* file names: with a RAW_ prefix or not, the rest, the suffix
    DigitStems,    \* the rests that begin with a digit
    MaxUploads,    \* bound: uploads a client sends
    MaxPreviews,   \* bound: previews the runner opens
    MaxFaults      \* bound: failed runner calls and crashes

ASSUME IngestionAssumption ==
    /\ \A n \in Names : n.raw \in BOOLEAN
    /\ MaxUploads \in Nat /\ MaxPreviews \in Nat /\ MaxFaults \in Nat

VARIABLES
    disk,       \* uploads/: the bytes under each name
    good,       \* the uploads whose bytes the catalog's reader accepts
    rows,       \* table uploaded_file
    sent,       \* uploads begun so far
    sending,    \* the name of the upload under way in the API, if any
    catalog,    \* catalog.duckdb: whether it is there, table -> bytes loaded
    loader,     \* the runner's load_ticket_data job
    preview,    \* whether a data_preview job holds the catalog open
    previews,   \* previews so far
    workspace,  \* the run's files: path -> contents
    artifacts,  \* the run's rows of table artifact, in order
    worker,     \* the worker's position in the run, and its locals
    faults      \* failures so far

uploadVars  == <<disk, good, rows, sent, sending>>
catalogVars == <<catalog, loader, preview, previews>>
runVars     == <<workspace, artifacts, worker, faults>>

AllowedExtensions == {".csv", ".parquet", ".json", ".jsonl"}

(* The table name with the prefix left on.                                 *)
TableNameUnstripped(n) ==
    IF n.raw THEN <<"RAW_", n.stem>>
    ELSE IF n.stem \in DigitStems THEN <<"T_", n.stem>> ELSE <<n.stem>>

(* _safe_stem and the RAW_ prefix stripped from its result: the digit is   *)
(* looked for before the stripping.                                        *)
TableName(n) ==
    IF n.stem \in DigitStems /\ ~n.raw THEN <<"T_", n.stem>> ELSE <<n.stem>>

(* The handler's own derivation, which must match the runner's.            *)
TableOfUpload(n) == TableName(n)

(* Whether the catalog takes the table name, which is not quoted.          *)
IsIdentifier(table) == Head(table) \notin DigitStems

NoBytes    == [upload |-> 0, whole |-> FALSE]
IdleLoader == [at |-> "idle", todo |-> <<>>, tables |-> <<>>]

Init ==
    /\ disk      = [n \in Names |-> NoBytes]
    /\ good      = {}
    /\ rows      = <<>>
    /\ sent      = 0
    /\ sending   = {}
    /\ catalog   = [exists |-> FALSE, tables |-> <<>>]
    /\ loader    = IdleLoader
    /\ preview   = FALSE
    /\ previews  = 0
    /\ workspace = <<>>
    /\ artifacts = <<>>
    /\ worker    = [at |-> "ingesting", listed |-> 0, tables |-> <<>>,
                    queries |-> 0, draft |-> <<>>, order |-> <<>>,
                    unregistered |-> <<>>, then |-> "intake"]
    /\ faults    = 0

-----------------------------------------------------------------------------
(* The API.  upload_file writes and commits without letting go of the      *)
(* event loop, so one upload at a time is between the two.                 *)

(* The file is opened, which empties one of the same name.                 *)
BeginUpload(n, parses) ==
    /\ sending = {} /\ sent < MaxUploads
    /\ n.ext \in AllowedExtensions
    /\ sent' = sent + 1
    /\ disk' = [disk EXCEPT ![n] = [upload |-> sent + 1, whole |-> FALSE]]
    /\ good' = IF parses THEN good \cup {sent + 1} ELSE good
    /\ sending' = {n}
    /\ UNCHANGED <<rows, catalogVars, runVars>>

EndWrite(n) ==
    /\ n \in sending /\ ~disk[n].whole
    /\ disk' = [disk EXCEPT ![n].whole = TRUE]
    /\ UNCHANGED <<good, rows, sent, sending, catalogVars, runVars>>

InsertRow(n) ==
    /\ n \in sending /\ disk[n].whole
    /\ rows' = Append(rows, [name |-> n, upload |-> disk[n].upload,
                             schema |-> NoBytes])
    /\ sending' = {}
    /\ UNCHANGED <<disk, good, sent, catalogVars, runVars>>

MayFail == faults < MaxFaults

ApiCrash ==
    /\ MayFail /\ sending # {}
    /\ sending' = {}
    /\ faults' = faults + 1
    /\ UNCHANGED <<disk, good, rows, sent, catalogVars, workspace, artifacts,
                   worker>>

(* Connections of one process to a catalog must all be read-only or all    *)
(* not: a preview while the loader runs is refused, and answered with 502. *)
OpenPreview ==
    /\ previews < MaxPreviews /\ ~preview
    /\ catalog.exists /\ loader.at # "running"
    /\ preview' = TRUE
    /\ previews' = previews + 1
    /\ UNCHANGED <<uploadVars, catalog, loader, runVars>>

ClosePreview ==
    /\ preview
    /\ preview' = FALSE
    /\ UNCHANGED <<uploadVars, catalog, loader, previews, runVars>>

-----------------------------------------------------------------------------
(* What every handler of the worker does.                                  *)

Goto(at) == worker' = [worker EXCEPT !.at = at]

(* A call that raises: run_task marks the session, the ticket and the run  *)
(* as failed, and nothing takes the run up again.                          *)
CallFails(at) ==
    /\ worker.at = at /\ MayFail
    /\ Goto("failed")
    /\ faults' = faults + 1
    /\ UNCHANGED <<uploadVars, catalogVars, workspace, artifacts>>

(* To write the files of draft, request by request in the given order,     *)
(* each registered after its request, and to go on with then.              *)
Deliver(draft, order, then) ==
    worker' = [worker EXCEPT !.at = "writing", !.draft = draft,
                             !.order = order, !.then = then]

Written(files) ==
    [f \in DOMAIN workspace \cup files |->
        IF f \in files THEN worker.draft[f] ELSE workspace[f]]

Request == Head(worker.order)

(* The artifacts registered and the files left to be written.              *)
WriteFilesNot ==
    /\ worker.at = "writing"
    /\ workspace' = workspace
    /\ worker' = [worker EXCEPT !.at = "registering", !.unregistered = Request,
                                !.order = Tail(@)]
    /\ UNCHANGED <<uploadVars, catalogVars, artifacts, faults>>

(* workspace_write_files                                                   *)
WriteFiles ==
    /\ worker.at = "writing"
    /\ workspace' = Written({Request[i] : i \in DOMAIN Request})
    /\ worker' = [worker EXCEPT !.at = "registering", !.unregistered = Request,
                                !.order = Tail(@)]
    /\ UNCHANGED <<uploadVars, catalogVars, artifacts, faults>>

(* The request fails after some of its files, or the client gives up on it *)
(* after all of them.                                                      *)
WriteFails ==
    /\ worker.at = "writing" /\ MayFail
    /\ \E k \in 0..Len(Request) :
          workspace' = Written({Request[i] : i \in 1..k})
    /\ Goto("failed")
    /\ faults' = faults + 1
    /\ UNCHANGED <<uploadVars, catalogVars, artifacts>>

(* One file more expected than there is.                                   *)
RegisterArtifactPastEnd ==
    /\ worker.at = "registering"
    /\ artifacts' = Append(artifacts, Head(worker.unregistered))
    /\ worker' = [worker EXCEPT
                     !.unregistered = Tail(@),
                     !.at = IF Len(worker.unregistered) > 0 THEN "registering"
                            ELSE IF worker.order # <<>> THEN "writing"
                            ELSE worker.then]
    /\ UNCHANGED <<uploadVars, catalogVars, workspace, faults>>

(* _register_artifact_and_emit, for the next file written.                 *)
RegisterArtifact ==
    /\ worker.at = "registering"
    /\ artifacts' = Append(artifacts, Head(worker.unregistered))
    /\ worker' = [worker EXCEPT
                     !.unregistered = Tail(@),
                     !.at = IF Len(worker.unregistered) > 1 THEN "registering"
                            ELSE IF worker.order # <<>> THEN "writing"
                            ELSE worker.then]
    /\ UNCHANGED <<uploadVars, catalogVars, workspace, faults>>

(* A crash between two commits: the session is left behind, and the guard  *)
(* of run_task keeps the handler from running again.                       *)
WorkerCrash ==
    /\ MayFail /\ worker.at \notin {"failed", "crashed", "done"}
    /\ Goto("crashed")
    /\ faults' = faults + 1
    /\ UNCHANGED <<uploadVars, catalogVars, workspace, artifacts>>

-----------------------------------------------------------------------------
(* _run_data_ingestion                                                     *)

(* The requirements name the uploads that were listed and their schemas.   *)
Requirements(listed, tables) ==
    [uploads |-> {rows[i].upload : i \in 1..listed}, tables |-> tables]

(* The uploads are selected once; without any, only the requirements are   *)
(* written.                                                                *)
ListUploads ==
    /\ worker.at = "ingesting"
    /\ worker' = IF rows # <<>>
                 THEN [worker EXCEPT !.at = "submitting", !.listed = Len(rows)]
                 ELSE [worker EXCEPT
                          !.at = "writing", !.then = "intake",
                          !.draft = [requirements |-> Requirements(0, <<>>)],
                          !.order = <<<<"requirements">>>>]
    /\ UNCHANGED <<uploadVars, catalogVars, workspace, artifacts, faults>>

(* load_ticket_data: the runner creates the catalog, which nothing can have *)
(* open yet, ...                                                           *)
BeginLoad ==
    /\ worker.at = "submitting"
    /\ catalog' = [catalog EXCEPT !.exists = TRUE]
    /\ loader' = [at |-> "running", tables |-> <<>>,
                  todo |-> [i \in 1..worker.listed |-> rows[i].name]]
    /\ Goto("loading")
    /\ UNCHANGED <<uploadVars, preview, previews, workspace, artifacts, faults>>

(* ... replaces the table of each file it can read, and skips the others;  *)
(* of a file that is being written it sees a part, which may be readable.  *)
CanLoad(n) ==
    IF ~IsIdentifier(TableName(n)) THEN {FALSE}
    ELSE IF disk[n].whole THEN {disk[n].upload \in good}
    ELSE BOOLEAN

NextFile == Head(loader.todo)

(* A function with one entry added or replaced.                            *)
Put(f, key, value) ==
    [k \in DOMAIN f \cup {key} |-> IF k = key THEN value ELSE f[k]]

(* The tables with that of the next file made, or replaced.                *)
WithTable(tables) == Put(tables, TableName(NextFile), disk[NextFile])

(* A file that cannot be read fails the job.                               *)
LoadFileStrictly ==
    /\ loader.at = "running" /\ loader.todo # <<>>
    /\ \E loads \in CanLoad(NextFile) :
          /\ catalog' = [catalog EXCEPT
                            !.tables = IF loads THEN WithTable(@) ELSE @]
          /\ loader' = IF loads
                       THEN [loader EXCEPT !.todo = Tail(@),
                                           !.tables = WithTable(@)]
                       ELSE IdleLoader
          /\ worker' = IF loads THEN worker
                       ELSE [worker EXCEPT !.at = "failed"]
    /\ UNCHANGED <<uploadVars, preview, previews, workspace, artifacts, faults>>

(* The answer keeps the first of two files of one table.                   *)
LoadFileAnsweredOnce ==
    /\ loader.at = "running" /\ loader.todo # <<>>
    /\ \E loads \in CanLoad(NextFile) :
          /\ catalog' = [catalog EXCEPT
                            !.tables = IF loads THEN WithTable(@) ELSE @]
          /\ loader' = [loader EXCEPT
                            !.todo = Tail(@),
                            !.tables = IF loads /\ TableName(NextFile) \notin DOMAIN @
                                       THEN WithTable(@) ELSE @]
    /\ UNCHANGED <<uploadVars, preview, previews, runVars>>

LoadFile ==
    /\ loader.at = "running" /\ loader.todo # <<>>
    /\ \E loads \in CanLoad(NextFile) :
          /\ catalog' = [catalog EXCEPT
                            !.tables = IF loads THEN WithTable(@) ELSE @]
          /\ loader' = [loader EXCEPT
                            !.todo = Tail(@),
                            !.tables = IF loads THEN WithTable(@) ELSE @]
    /\ UNCHANGED <<uploadVars, preview, previews, runVars>>

(* The answer of the job, which a client that gave up does not hear.       *)
EndLoad ==
    /\ loader.at = "running" /\ loader.todo = <<>>
    /\ loader' = IdleLoader
    /\ worker' = IF worker.at = "loading"
                 THEN [worker EXCEPT !.at = "saving", !.tables = loader.tables]
                 ELSE worker
    /\ UNCHANGED <<uploadVars, catalog, preview, previews, workspace,
                   artifacts, faults>>

(* The schemas of the listed uploads, by table name, in one commit.        *)
SaveSchemas ==
    /\ worker.at = "saving"
    /\ rows' = [i \in DOMAIN rows |->
                   IF /\ i <= worker.listed
                      /\ TableOfUpload(rows[i].name) \in DOMAIN worker.tables
                   THEN [rows[i] EXCEPT
                            !.schema = worker.tables[TableOfUpload(rows[i].name)]]
                   ELSE rows[i]]
    /\ Goto("describing")
    /\ UNCHANGED <<disk, good, sent, sending, catalogVars, workspace, artifacts,
                   faults>>

(* get_data_dictionary: a read-only connection, which a preview allows.    *)
GetDataDictionary ==
    /\ worker.at = "describing"
    /\ worker' = [worker EXCEPT
                     !.at = "writing", !.then = "intake",
                     !.draft = [data_dictionary |-> catalog.tables,
                                raw_tables   |-> catalog.tables,
                                requirements |-> Requirements(worker.listed,
                                                              worker.tables)],
                     !.order = <<<<"data_dictionary">>, <<"raw_tables">>,
                                 <<"requirements">>>>]
    /\ UNCHANGED <<uploadVars, catalogVars, workspace, artifacts, faults>>

-----------------------------------------------------------------------------
(* _run_profiling                                                          *)

(* Only the tables of the catalog looked at, not whether it is there.      *)
ProfilePlansByTables ==
    IF catalog.tables = <<>>
    THEN {[source |-> "fixture", tables |-> {}, queries |-> 3]}
    ELSE {[source |-> "catalog", tables |-> DOMAIN catalog.tables,
           queries |-> Cardinality(DOMAIN catalog.tables)]}

(* The tables are listed over a read-only connection, which the loader's   *)
(* keeps from being opened; a call that fails counts as no table.          *)
Listable == loader.at # "running"

TablesListed ==
    (IF Listable
     THEN LET Found == DOMAIN catalog.tables
          IN  {S \in SUBSET Found : \/ Cardinality(S) = 3
                                    \/ S = Found /\ Cardinality(S) < 3}
     ELSE {})
    \cup (IF Listable /\ ~MayFail THEN {} ELSE {{}})

(* The catalog is profiled if the file is there, three tables at most, and *)
(* the fixture of three queries otherwise; a catalog that shows no table,  *)
(* or whose tables cannot be listed, gets one placeholder query.           *)
ProfilePlans ==
    IF ~catalog.exists THEN {[source |-> "fixture", tables |-> {}, queries |-> 3]}
    ELSE {[source |-> "catalog", tables |-> S,
           queries |-> IF S = {} THEN 1 ELSE Cardinality(S)] : S \in TablesListed}

PlanProfile ==
    /\ worker.at = "profiling"
    /\ \E plan \in ProfilePlans :
          /\ worker' = [worker EXCEPT
                           !.at = "querying", !.queries = plan.queries,
                           !.draft = [profile_report |-> plan,
                                      profiling |-> plan]]
          /\ faults' = IF plan.tables = {} /\ catalog.tables # <<>> /\ Listable
                       THEN faults + 1 ELSE faults
    /\ UNCHANGED <<uploadVars, catalogVars, workspace, artifacts>>

(* snowflake_sql opens the catalog for writing; a preview that is open     *)
(* makes it raise.                                                         *)
RunQuery ==
    /\ worker.at = "querying"
    /\ worker' =
          IF preview /\ worker.draft["profile_report"].source = "catalog"
          THEN [worker EXCEPT !.at = "failed"]
          ELSE IF worker.queries > 1 THEN [worker EXCEPT !.queries = @ - 1]
          ELSE [worker EXCEPT !.at = "writing", !.queries = 0,
                              !.order = <<<<"profile_report", "profiling">>>>,
                              !.then = "building"]
    /\ UNCHANGED <<uploadVars, catalogVars, workspace, artifacts, faults>>

-----------------------------------------------------------------------------
ApiStep ==
    \/ \E n \in Names : \/ \E parses \in BOOLEAN : BeginUpload(n, parses)
                        \/ EndWrite(n) \/ InsertRow(n)
    \/ OpenPreview \/ ClosePreview
    \/ ApiCrash

RunnerStep == LoadFile \/ EndLoad

DataStep ==
    \/ ListUploads \/ BeginLoad \/ SaveSchemas \/ GetDataDictionary
    \/ PlanProfile \/ RunQuery
    \/ \E at \in {"submitting", "loading", "describing", "querying"} :
          CallFails(at)
    \/ WriteFiles \/ WriteFails \/ RegisterArtifact
    \/ WorkerCrash

IngestionNext == ApiStep \/ RunnerStep \/ DataStep

-----------------------------------------------------------------------------
(* Properties.                                                             *)

(* The columns GET /uploads shows for a file are those of the table the    *)
(* catalog holds under the file's name, whichever of several files of that *)
(* name was loaded last and whatever was uploaded meanwhile.               *)
SchemasMatchCatalog ==
    \A i \in DOMAIN rows : rows[i].schema # NoBytes =>
        /\ TableName(rows[i].name) \in DOMAIN catalog.tables
        /\ rows[i].schema = catalog.tables[TableName(rows[i].name)]

(* No other bytes than those of row i can have been under its table name.  *)
SoleClaim(i) ==
    LET n == rows[i].name
    IN  /\ disk[n].upload = rows[i].upload
        /\ \A m \in Names \ {n} : TableName(m) = TableName(n) => disk[m] = NoBytes
        /\ \A j \in DOMAIN rows : rows[j].name = n => j = i

Loadable(i) == rows[i].upload \in good /\ IsIdentifier(TableName(rows[i].name))

Ingested == "requirements" \in {artifacts[i] : i \in DOMAIN artifacts}

(* A readable file that was stored before the handler listed the uploads,  *)
(* and that no other file competes with, ends up in the catalog with its   *)
(* own columns: one bad file does not cost the others theirs.              *)
ListedAreIngested ==
    Ingested =>
        \A i \in 1..worker.listed :
            SoleClaim(i) /\ Loadable(i) =>
                rows[i].schema = [upload |-> rows[i].upload, whole |-> TRUE]

(* milestones.md: GET /uploads returns the uploaded files with the schema  *)
(* inferred from them, populated post-ingestion.                           *)
UploadsHaveSchemas ==
    Ingested => \A i \in DOMAIN rows :
        SoleClaim(i) /\ Loadable(i) => rows[i].schema # NoBytes
=============================================================================
