----------------------------- MODULE ModelCache -----------------------------
(***************************************************************************)
(* The models of the HTTP service: create_model, list_models and           *)
(* delete_model (views.py) over the cache directory (cache.py, models.py). *)
(*                                                                         *)
(* A handler runs in the event loop and is one action up to its next       *)
(* await.  The only await of create_model is for the build, which runs in  *)
(* a thread: it compiles the C++ file, then links the extension module,    *)
(* and meanwhile the loop serves other requests.  A model's directory      *)
(* holds stanc.log, the C++ file, the extension module (a linker writes it *)
(* for a while) and, once the handler is back, stderr.log.                 *)
(***************************************************************************)
EXTENDS Naturals, FiniteSets

CONSTANTS
  Programs,        \* Stan programs, each with a model name of its own
  Invalid,         \* those that stanc refuses
  MaxCreates,      \* bound: create_model requests
  Serial,          \* whether clients leave a program alone while it is built
  StancMayTimeout, \* whether stanc may need more than its timeout of 1 s
  CrashAnytime     \* whether the server may be killed while it builds

ASSUME ModelAssumption ==
  /\ MaxCreates \in Nat /\ Invalid \subseteq Programs /\ Programs # {}
  /\ {Serial, StancMayTimeout, CrashAnytime} \subseteq BOOLEAN

VARIABLES
  dir,     \* whether the model's directory exists
  files,   \* which of the small files it holds
  so,      \* the extension module: none, being linked by a request, whole
  ncreate, \* create_model requests so far
  prog,    \* the program of a request
  build,   \* where the build of a request is
  reply,   \* the status of its response
  errors   \* handlers that have answered 500

vars == <<dir, files, so, ncreate, prog, build, reply, errors>>
cacheVars == <<dir, files, so>>
requestVars == <<ncreate, prog, build, reply>>

Creates == 1..MaxCreates
Files == {"stanc.log", "cpp", "stderr.log"}
Logs == {"stanc.log", "stderr.log"}
Linking(r) == <<"linking", r>>

TypeOK ==
  /\ dir \in [Programs -> BOOLEAN]
  /\ files \in [Programs -> SUBSET Files]
  /\ so \in [Programs ->
       {<<"none">>, <<"whole">>} \cup {Linking(r) : r \in Creates}]
  /\ ncreate \in 0..MaxCreates
  /\ prog \in [Creates -> Programs]
  /\ build \in [Creates -> {"none", "queued", "compiled", "linking", "built",
                            "failed", "over"}]
  /\ reply \in [Creates -> {"none", "201", "400", "500"}]
  /\ errors \subseteq {"create", "list", "delete", "use"}

Init ==
  /\ dir = [p \in Programs |-> FALSE]
  /\ files = [p \in Programs |-> {}]
  /\ so = [p \in Programs |-> <<"none">>]
  /\ ncreate = 0
  /\ prog = [r \in Creates |-> CHOOSE p \in Programs : TRUE]
  /\ build = [r \in Creates |-> "none"]
  /\ reply = [r \in Creates |-> "none"]
  /\ errors = {}

Active == {r \in Creates : build[r] \notin {"none", "over"}}
Busy(p) == \E r \in Active : prog[r] = p

\* import_services_extension_module: KeyError if there is no file with a
\* module's suffix, another exception if the file cannot be loaded.
Absent(p) == so[p] = <<"none">>
Importable(p) == so[p] = <<"whole">>
-----------------------------------------------------------------------------
(* handle_create_model                                                     *)

Request(p) ==
  /\ ncreate < MaxCreates
  /\ Serial => ~Busy(p)
  /\ ncreate' = ncreate + 1
  /\ prog' = [prog EXCEPT ![ncreate + 1] = p]

Answer(r, status) ==
  /\ build' = [build EXCEPT ![r] = "over"]
  /\ reply' = [reply EXCEPT ![r] = status]
  /\ errors' = IF status = "500" THEN errors \cup {"create"} ELSE errors

\* Plausible slip: any directory is taken for a cached model.
HasDirectory(p) == dir[p]
\* Plausible slip: the cache is not consulted.
NeverCached(p) == FALSE
InCache(p) == ~Absent(p)

\* The module is there: the logs are read, and a missing file is no KeyError.
CreateCached(p) ==
  /\ InCache(p) /\ Request(p)
  /\ Answer(ncreate + 1,
            IF Importable(p) /\ Logs \subseteq files[p] THEN "201" ELSE "500")
  /\ UNCHANGED cacheVars

\* What a run of stanc may end with: "refused" is raised as ValueError, and
\* after one second "timeout" as TimeoutExpired.
Stanc(p) == {IF p \in Invalid THEN "refused" ELSE "translated"}
              \cup (IF StancMayTimeout THEN {"timeout"} ELSE {})

\* The directory is removed and stanc fails; only ValueError is handled.
CreateRejected(p) ==
  /\ ~InCache(p) /\ Request(p)
  /\ dir' = [dir EXCEPT ![p] = FALSE]
  /\ files' = [files EXCEPT ![p] = {}]
  /\ so' = [so EXCEPT ![p] = <<"none">>]
  /\ \E end \in Stanc(p) \ {"translated"} :
       Answer(ncreate + 1, IF end = "refused" THEN "400" ELSE "500")

\* stanc.log is dumped; then the second run of stanc raises (every exception
\* is handled by now), or the C++ file is written and a thread builds.
CreateStarts(p) ==
  /\ "translated" \in Stanc(p) /\ ~InCache(p) /\ Request(p)
  /\ dir' = [dir EXCEPT ![p] = TRUE]
  /\ so' = [so EXCEPT ![p] = <<"none">>]
  /\ \/ /\ files' = [files EXCEPT ![p] = {"stanc.log", "cpp"}]
        /\ build' = [build EXCEPT ![ncreate + 1] = "queued"]
        /\ UNCHANGED <<reply, errors>>
     \/ /\ files' = [files EXCEPT ![p] = {"stanc.log"}]
        /\ "timeout" \in Stanc(p) /\ Answer(ncreate + 1, "400")

\* Plausible slips: stderr.log is not dumped, or under another name.
NoStderrLog(p) == files[p]
OtherLog(p) == files[p] \cup {"compiler_output.log"}
FilesOfBuilt(p) == files[p] \cup {"stderr.log"}

\* Plausible slip: only a successful build resumes the handler.
BuildSucceeded(r) == build[r] = "built"
BuildEnded(r) == build[r] \in {"built", "failed"}

\* The handler is resumed: dump stderr.log and answer, or answer the error.
FinishCreate(r) ==
  /\ BuildEnded(r)
  /\ LET p == prog[r] IN
       IF build[r] = "built"
       THEN /\ dir' = [dir EXCEPT ![p] = TRUE]
            /\ files' = [files EXCEPT ![p] = FilesOfBuilt(p)]
            /\ Answer(r, "201")
       ELSE Answer(r, "400") /\ UNCHANGED <<dir, files>>
  /\ UNCHANGED <<so, ncreate, prog>>
-----------------------------------------------------------------------------
(* The build thread: run_build_ext.                                        *)

Build(r, from, to) == build[r] = from /\ build' = [build EXCEPT ![r] = to]

\* The compiler reads the C++ file; the object file is not in the directory.
CompileCpp(r) ==
  /\ \/ "cpp" \in files[prog[r]] /\ Build(r, "queued", "compiled")
     \/ Build(r, "queued", "failed")
  /\ UNCHANGED <<cacheVars, ncreate, prog, reply, errors>>

\* The linker replaces the module by a file of its own.  In a directory that
\* is gone it fails, unless the build system creates it again.
LinkStart(r) ==
  LET p == prog[r] IN
  /\ \/ /\ Build(r, "compiled", "linking")
        /\ so' = [so EXCEPT ![p] = Linking(r)]
        /\ dir' = [dir EXCEPT ![p] = TRUE]
     \/ ~dir[p] /\ Build(r, "compiled", "failed") /\ UNCHANGED <<so, dir>>
  /\ UNCHANGED <<files, ncreate, prog, reply, errors>>

\* Plausible slip: a linker that fails leaves what it has written.
KeepOutput(r) == so
\* A linker that fails removes its output.
WithoutOutput(r) ==
  [p \in Programs |-> IF so[p] = Linking(r) THEN <<"none">> ELSE so[p]]

\* The linker finishes the file it has open, even if it was unlinked.
LinkEnd(r) ==
  /\ \/ /\ Build(r, "linking", "built")
        /\ so' = [p \in Programs |->
                    IF so[p] = Linking(r) THEN <<"whole">> ELSE so[p]]
     \/ Build(r, "linking", "failed") /\ so' = WithoutOutput(r)
  /\ UNCHANGED <<dir, files, ncreate, prog, reply, errors>>

CreateStep(r) == CompileCpp(r) \/ LinkStart(r) \/ LinkEnd(r) \/ FinishCreate(r)
-----------------------------------------------------------------------------
(* The other handlers, and a crash.                                        *)

Fails(handler) ==
  errors' = errors \cup {handler} /\ UNCHANGED <<cacheVars, requestVars>>

\* list_model_names: a directory with a file named like a module.
Listed(p) == ~Absent(p)

\* handle_list_models opens both logs of every model it lists.
ListFails ==
  /\ Serial => Active = {}
  /\ \E p \in Programs : Listed(p) /\ ~(Logs \subseteq files[p])
  /\ Fails("list")

\* handle_delete_model: 404 if there is no module.
DeleteModel(p) ==
  /\ Serial => ~Busy(p)
  /\ Importable(p)
  /\ dir' = [dir EXCEPT ![p] = FALSE]
  /\ files' = [files EXCEPT ![p] = {}]
  /\ so' = [so EXCEPT ![p] = <<"none">>]
  /\ UNCHANGED <<requestVars, errors>>

DeleteFails(p) ==
  /\ Serial => ~Busy(p)
  /\ ~Absent(p) /\ ~Importable(p)
  /\ Fails("delete")

\* The handlers that use a model (fits, parameters, log_prob and the others)
\* import it first, and answer 404 only for a KeyError.
UseFails(p) ==
  /\ Serial => ~Busy(p)
  /\ ~Absent(p) /\ ~Importable(p)
  /\ Fails("use")

\* A linker that was running may still finish, fail or be killed.
Crash ==
  /\ CrashAnytime /\ Active # {}
  /\ build' = [r \in Creates |-> IF r \in Active THEN "over" ELSE build[r]]
  /\ so' \in [Programs -> {<<"none">>, <<"whole">>}
                            \cup {Linking(r) : r \in Creates}]
  /\ \A p \in Programs : so'[p] # so[p] => ~Absent(p) /\ ~Importable(p)
  /\ \A p \in Programs : so'[p] \in {<<"none">>, <<"whole">>, so[p]}
  /\ UNCHANGED <<dir, files, ncreate, prog, reply, errors>>

\* Every request has been answered and the clients have stopped asking.
Quiet == ncreate = MaxCreates /\ Active = {} /\ UNCHANGED vars

Next ==
  \/ \E p \in Programs : \/ CreateCached(p) \/ CreateRejected(p)
                         \/ CreateStarts(p)
                         \/ DeleteModel(p) \/ DeleteFails(p) \/ UseFails(p)
  \/ \E r \in Creates : CreateStep(r)
  \/ ListFails \/ Crash \/ Quiet

Spec == Init /\ [][Next]_vars

\* A compiler and a linker end, and the loop resumes the handler.
Fairness == \A r \in Creates : WF_vars(CreateStep(r))
FairSpec == Spec /\ Fairness
-----------------------------------------------------------------------------
(* Properties.                                                             *)

Complete(p) == Importable(p) /\ Logs \subseteq files[p]

\* No handler answers 500: a module that can be seen can be loaded, and its
\* logs are where create_model and list_models look for them.
NoServerError == errors = {}

\* A model that create_model announces with 201 is there, whole and with its
\* logs, when the response is made.
AnnouncedModelsComplete ==
  [][\A r \in Creates : reply[r] # "201" /\ reply'[r] = "201" =>
       Complete(prog[r])']_vars

\* A complete model stays until it is deleted: neither another request for the
\* same program nor its build takes the module or a log away.
ModelsStay ==
  [][\A p \in Programs : Complete(p) /\ ~Complete(p)' => DeleteModel(p)]_vars

\* When no build is running the cache holds only models that every handler
\* can load.
IdleCacheLoadable ==
  Active = {} => \A p \in Programs : Absent(p) \/ Complete(p)

\* With builds of the same program interleaved, failing and cut by crashes, a
\* module that cannot be loaded belongs to a linker that still runs or that a
\* crash has cut: a build that ends leaves a whole module or none.
TornModulesOwned ==
  \A p \in Programs, r \in Creates : so[p] = Linking(r) =>
    build[r] = "linking" \/ (build[r] = "over" /\ reply[r] = "none")

\* Every create_model request that starts a build is answered, unless a crash
\* cuts it off.
CreatesAnswered == \A r \in Creates : build[r] = "queued" ~> build[r] = "over"
=============================================================================
