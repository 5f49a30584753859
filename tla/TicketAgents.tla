------------------------------ MODULE TicketAgents ------------------------------
(***************************************************************************)
(* The agents of one ticket run, from ingestion to the pull request: the   *)
(* handlers of the worker with the files, artifacts and runner jobs of     *)
(* each, between which the orchestrator of module Orchestrator moves the   *)
(* run.  A human may move it on before an agent is done, so that the tasks *)
(* of several agents are pending: the worker then takes one whose turn has *)
(* not come, or one behind an agent that failed.                           *)
(***************************************************************************)
EXTENDS Ingestion

CONSTANTS
    Slugs,       \* what the slugs of the titles are to the catalog
    MaxRushes    \* bound: agents started before their turn

(* A slug is a plain identifier, a word reserved in SQL, or a name that    *)
(* begins with a digit.                                                    *)
ASSUME TicketAssumption ==
    Slugs \subseteq {"plain", "reserved", "digit"} /\ MaxRushes \in Nat

VARIABLES
    slug,      \* the title's
    remote,    \* what the remote repository has: the push, the pull request
    sessions,  \* the agents with a row in table agent_session
    rushed     \* agents started before their turn, so far

vars == <<uploadVars, catalogVars, runVars, slug, remote, sessions, rushed>>

(* The agents, each named by the position its handler begins at.           *)
Agents == {"ingesting", "intake", "designing", "profiling", "building",
           "testing", "pushing"}

AgentsInit ==
    /\ Init
    /\ slug \in Slugs /\ remote = <<>>
    /\ sessions = {} /\ rushed = 0

(* A model is compiled as a view of a longer name with a longer column and *)
(* built as a table of the slug's own.                                     *)
Compiles     == slug # "digit"
Materialises == slug = "plain"

-----------------------------------------------------------------------------

RunIntake ==
    /\ worker.at = "intake"
    /\ Deliver([intake_summary |-> slug], <<<<"intake_summary">>>>, "designing")
    /\ UNCHANGED <<uploadVars, catalogVars, workspace, artifacts, faults, slug,
                   remote>>

RunDesign ==
    /\ worker.at = "designing"
    /\ Deliver([design |-> slug], <<<<"design">>>>, "DESIGN_REVIEW")
    /\ UNCHANGED <<uploadVars, catalogVars, workspace, artifacts, faults, slug,
                   remote>>

(* The gates of the ticket graph, and the agents behind them; an approval  *)
(* that does not wait for the agent in front is a move of StartEarly.      *)
Behind == [DESIGN_REVIEW |-> "profiling", READY_FOR_REVIEW |-> "pushing"]

ApproveGate ==
    /\ worker.at \in DOMAIN Behind
    /\ Goto(Behind[worker.at])
    /\ UNCHANGED <<uploadVars, catalogVars, workspace, artifacts, faults, slug,
                   remote>>

(* _run_build: the model and its tests, then dbt_compile ...               *)
RunBuild ==
    /\ worker.at = "building"
    /\ Deliver([model |-> slug, schema_yml |-> slug],
               <<<<"model", "schema_yml">>>>, "compiling")
    /\ UNCHANGED <<uploadVars, catalogVars, workspace, artifacts, faults, slug,
                   remote>>

WithFile(f, contents) == Put(workspace, f, contents)

(* Compile errors reported in the summary only.                            *)
CompileRegardless ==
    /\ worker.at = "compiling"
    /\ workspace' = WithFile("compile_summary", [errors |-> ~Compiles])
    /\ worker' = [worker EXCEPT !.at = "registering", !.then = "testing",
                                !.unregistered = <<"compile_summary">>]
    /\ UNCHANGED <<uploadVars, catalogVars, artifacts, faults, slug, remote>>

(* ... which writes its summary and then refuses a model with errors.      *)
Compile ==
    /\ worker.at = "compiling"
    /\ workspace' = WithFile("compile_summary", [errors |-> ~Compiles])
    /\ worker' = IF Compiles
                 THEN [worker EXCEPT !.at = "registering", !.then = "testing",
                                     !.unregistered = <<"compile_summary">>]
                 ELSE [worker EXCEPT !.at = "failed"]
    /\ UNCHANGED <<uploadVars, catalogVars, artifacts, faults, slug, remote>>

(* _run_qa: dbt_build answers "partial" when a model or a test fails, and  *)
(* finds nothing to fail where there is no model; the handler reports the  *)
(* answer and completes.                                                   *)
Results == [failed |-> "model" \in DOMAIN workspace /\ ~Materialises]

Test ==
    /\ worker.at = "testing"
    /\ workspace' = WithFile("run_results", Results)
    /\ worker' = [worker EXCEPT
                     !.at = "registering", !.unregistered = <<"run_results">>,
                     !.draft = [qa_report |-> Results],
                     !.order = <<<<"qa_report">>>>,
                     !.then = "READY_FOR_REVIEW"]
    /\ UNCHANGED <<uploadVars, catalogVars, artifacts, faults, slug, remote>>

(* _run_pr: the branch is pushed, then the pull request is opened, with a  *)
(* body that says the build passed.                                        *)
Push ==
    /\ worker.at = "pushing"
    /\ remote' = Append(remote, "push")
    /\ Goto("opening")
    /\ UNCHANGED <<uploadVars, catalogVars, workspace, artifacts, faults, slug>>

OpenPullRequest ==
    /\ worker.at = "opening"
    /\ remote' = Append(remote, "pull_request")
    /\ Deliver([pr_summary |-> slug], <<<<"pr_summary">>>>, "done")
    /\ UNCHANGED <<uploadVars, catalogVars, workspace, artifacts, faults, slug>>

(* The client gives up on a job of the runner: the job has done nothing,   *)
(* or all of its work.                                                     *)
JobLost ==
    /\ worker.at \in {"compiling", "testing", "pushing", "opening"} /\ MayFail
    /\ \/ UNCHANGED <<workspace, remote>>
       \/ /\ worker.at = "compiling"
          /\ workspace' = WithFile("compile_summary", [errors |-> ~Compiles])
          /\ UNCHANGED remote
       \/ /\ worker.at = "testing"
          /\ workspace' = WithFile("run_results", Results)
          /\ UNCHANGED remote
       \/ /\ worker.at = "pushing"
          /\ remote' = Append(remote, "push") /\ UNCHANGED workspace
       \/ /\ worker.at = "opening"
          /\ remote' = Append(remote, "pull_request") /\ UNCHANGED workspace
    /\ Goto("failed")
    /\ faults' = faults + 1
    /\ UNCHANGED <<uploadVars, catalogVars, artifacts, slug>>

AgentStep ==
    \/ RunIntake \/ RunDesign \/ ApproveGate
    \/ RunBuild \/ Compile \/ Test
    \/ Push \/ OpenPullRequest
    \/ JobLost

(* The guard of run_task: a handler begins only if its agent has no        *)
(* session, and gets one before it does anything.                          *)
InSession ==
    IF worker.at \in Agents /\ worker'.at # worker.at
    THEN worker.at \notin sessions /\ sessions' = sessions \cup {worker.at}
    ELSE sessions' = sessions

RunStep ==
    /\ (IngestionNext /\ UNCHANGED <<slug, remote>>) \/ AgentStep
    /\ InSession
    /\ UNCHANGED rushed

(* Between two handlers the worker takes the task of any agent that has no *)
(* session yet: POST /advance or an approval has moved the run on without  *)
(* waiting for the agent in front, and the tasks of a batch have no order. *)
StartEarly(agent) ==
    /\ rushed < MaxRushes
    /\ worker.at \in Agents \cup DOMAIN Behind \cup {"done", "failed", "crashed"}
    /\ agent \notin sessions \cup {worker.at}
    /\ worker' = [worker EXCEPT !.at = agent, !.queries = 0, !.draft = <<>>,
                                !.order = <<>>, !.unregistered = <<>>,
                                !.then = agent]
    /\ rushed' = rushed + 1
    /\ UNCHANGED <<uploadVars, catalogVars, workspace, artifacts, faults, slug,
                   remote, sessions>>

Next == RunStep \/ \E agent \in Agents : StartEarly(agent)

Spec == AgentsInit /\ [][Next]_vars
-----------------------------------------------------------------------------

Files == {"data_dictionary", "raw_tables", "requirements", "intake_summary",
          "design", "profile_report", "profiling", "model", "schema_yml",
          "compile_summary", "run_results", "qa_report", "pr_summary"}

Bytes == [upload : 0..MaxUploads, whole : BOOLEAN]

(* The type of the state.                                                  *)
TypeOK ==
    /\ disk \in [Names -> Bytes]
    /\ sent \in 0..MaxUploads /\ good \subseteq 1..sent
    /\ rows \in Seq([name : Names, upload : 1..sent, schema : Bytes])
    /\ sending \subseteq Names /\ Cardinality(sending) <= 1
    /\ catalog.exists \in BOOLEAN
    /\ \A t \in DOMAIN catalog.tables : catalog.tables[t] \in Bytes
    /\ loader.at \in {"idle", "running"}
    /\ loader.todo \in Seq(Names)
    /\ preview \in BOOLEAN /\ previews \in 0..MaxPreviews
    /\ DOMAIN workspace \subseteq Files
    /\ artifacts \in Seq(Files)
    /\ worker.listed \in 0..Len(rows) /\ worker.queries \in 0..3
    /\ worker.order \in Seq(Seq(Files))
    /\ worker.unregistered \in Seq(Files)
    /\ worker.at = "registering" => worker.unregistered # <<>>
    /\ worker.at = "writing" => worker.order # <<>>
    /\ faults \in 0..MaxFaults
    /\ slug \in Slugs
    /\ remote \in Seq({"push", "pull_request"})
    /\ sessions \subseteq Agents /\ rushed \in 0..MaxRushes

Registered == {artifacts[i] : i \in DOMAIN artifacts}

(* GET /artifacts lists no file the run has not written, and none twice,   *)
(* although files and rows are written by two processes and a handler may  *)
(* stop between any two of them.                                           *)
ArtifactsAreWritten ==
    /\ Registered \subseteq DOMAIN workspace
    /\ Cardinality(Registered) = Len(artifacts)

InTurn == rushed = 0

(* If every agent has waited for its turn, the profile says what became of *)
(* the uploads that were listed: without any it is the fixture's; with any *)
(* it counts tables of the data dictionary, all of them or three.  It      *)
(* counts none, by a placeholder query, only if none could be loaded or a  *)
(* call was lost.                                                          *)
ProfileMatchesData ==
    InTurn /\ "profile_report" \in DOMAIN workspace =>
        LET profile == workspace["profile_report"]
        IN  IF worker.listed = 0 THEN profile.source = "fixture"
            ELSE LET loaded == DOMAIN workspace["data_dictionary"]
                 IN  /\ profile.source = "catalog"
                     /\ profile.tables \subseteq loaded
                     /\ \/ profile.tables = loaded
                        \/ Cardinality(profile.tables) = 3
                        \/ profile.tables = {} /\ faults > 0

(* A branch is pushed once and a pull request opened once, after the push, *)
(* in whatever order the agents run.  If every agent has waited for its    *)
(* turn the pull request stands on the whole chain: the evidence of every  *)
(* agent is registered, the model compiled, and the QA report says what    *)
(* the build's results say.                                                *)
EvidenceBehindPR ==
    /\ remote \in {<<>>, <<"push">>, <<"push", "pull_request">>}
    /\ InTurn /\ remote # <<>> =>
          /\ {"requirements", "design", "profile_report", "compile_summary",
              "run_results", "qa_report"} \subseteq Registered
          /\ ~workspace["compile_summary"].errors
          /\ workspace["qa_report"] = workspace["run_results"]

(* Whatever is uploaded and in whatever order the agents run, a run fails  *)
(* only if a call was lost, a preview was opened before the profile was    *)
(* written, or the model does not compile.                                 *)
FailureHasCause ==
    worker.at = "failed" =>
        \/ faults > 0
        \/ previews > 0 /\ "profile_report" \notin DOMAIN workspace
        \/ "compile_summary" \in DOMAIN workspace
              /\ workspace["compile_summary"].errors

(* agent_operating_model.md: the PR agent opens the pull request with QA   *)
(* evidence, whenever the run was approved.                                *)
QABehindPR == remote # <<>> => {"run_results", "qa_report"} \subseteq Registered

(* agent_operating_model.md: a run whose QA fails goes back to BUILD; it   *)
(* waits for the review of a build that passed.                            *)
ReviewFollowsPassingQA ==
    worker.at = "READY_FOR_REVIEW" => ~workspace["run_results"].failed
=============================================================================
