--------------------------- MODULE ModelCache_proofs ---------------------------
(***************************************************************************)
(* Proofs about ModelCache, for any programs and any number of requests:   *)
(* what interleaved, failing and killed builds may leave in the cache; and *)
(* that a client that leaves a program alone while it is built is told the *)
(* truth about a model that stays.                                         *)
(***************************************************************************)
EXTENDS ModelCache, Sequences, TLAPS

\* A request that has not been made, or not been answered, has no status.
FreshInv ==
  \A r \in Creates :
    /\ r > ncreate => build[r] = "none"
    /\ build[r] # "over" => reply[r] = "none"

\* A linker writes in the directory of its request's program.
HomeInv ==
  \A p \in Programs, r \in Creates : so[p] = Linking(r) => prog[r] = p

OwnInv == FreshInv /\ TornModulesOwned /\ HomeInv

\* No two builds share a directory, and the module in it tells how far the
\* build is.
BuildInv ==
  /\ \A r, s \in Active : prog[r] = prog[s] => r = s
  /\ \A r \in Active :
       /\ dir[prog[r]] /\ "stanc.log" \in files[prog[r]]
       /\ build[r] \in {"queued", "compiled", "failed"} => Absent(prog[r])
       /\ build[r] = "linking" => so[prog[r]] = Linking(r)
       /\ build[r] = "built" => Importable(prog[r])

\* Outside of builds every model is loadable, with its logs.
CleanInv ==
  /\ errors = {}
  /\ \A p \in Programs : Busy(p) \/ Absent(p) \/ Complete(p)

\* All that the proofs suppose when there are no timeouts and no crashes.
CacheInv == OwnInv /\ BuildInv /\ CleanInv
-----------------------------------------------------------------------------
(* Lemmas about the data.                                                  *)

\* The three conditions of a module are told apart, and so are its linkers.
LEMMA ModuleTags ==
  /\ <<"none">> # <<"whole">>
  /\ \A r : Linking(r) # <<"none">> /\ Linking(r) # <<"whole">>
  /\ \A r, s : Linking(r) = Linking(s) => r = s
<1>1. ASSUME NEW r PROVE Linking(r) # <<"none">> /\ Linking(r) # <<"whole">>
  <2>1. /\ Len(Linking(r)) = 2 /\ Len(<<"none">>) = 1 /\ Len(<<"whole">>) = 1
    BY DEF Linking
  <2> QED
    BY <2>1
<1>2. ASSUME NEW r, NEW s, Linking(r) = Linking(s) PROVE r = s
  BY <1>2 DEF Linking
<1> QED
  BY <1>1, <1>2

\* The request a handler answers or starts at once is a new one.
LEMMA NewRequest ==
  ASSUME TypeOK, NEW p \in Programs, Request(p)
  PROVE  \E new \in Creates :
           /\ new = ncreate + 1 /\ ncreate' = new
           /\ prog' = [prog EXCEPT ![new] = p]
           /\ Serial => ~Busy(p)
<1>1. ncreate + 1 \in Creates
  BY ModelAssumption DEF TypeOK, Request, Creates
<1> QED
  BY <1>1 DEF Request

-----------------------------------------------------------------------------
(* Type correctness.                                                       *)

LEMMA TypeInit == Init => TypeOK
<1> SUFFICES ASSUME Init PROVE TypeOK
  OBVIOUS
<1>1. (CHOOSE p \in Programs : TRUE) \in Programs
  BY ModelAssumption
<1> QED
  BY <1>1, ModelAssumption DEF Init, TypeOK, Creates

LEMMA TypeNext == TypeOK /\ [Next]_vars => TypeOK'
<1> SUFFICES ASSUME TypeOK, [Next]_vars PROVE TypeOK'
  OBVIOUS
<1> USE DEF TypeOK, cacheVars, requestVars
<1>1. ASSUME NEW r \in Creates, NEW status \in {"201", "400", "500"},
             Answer(r, status)
      PROVE  /\ build' \in [Creates -> {"none", "queued", "compiled", "linking",
                                        "built", "failed", "over"}]
             /\ reply' \in [Creates -> {"none", "201", "400", "500"}]
             /\ errors' \subseteq {"create", "list", "delete", "use"}
  BY <1>1 DEF Answer
<1>2. ASSUME NEW p \in Programs, CreateCached(p) PROVE TypeOK'
  <2>1. PICK new \in Creates : /\ new = ncreate + 1 /\ ncreate' = new
                               /\ prog' = [prog EXCEPT ![new] = p]
    BY <1>2, NewRequest DEF CreateCached
  <2>2. ncreate' \in 0..MaxCreates /\ prog' \in [Creates -> Programs]
    BY <2>1 DEF Creates
  <2> QED
    BY <1>1, <1>2, <2>1, <2>2 DEF CreateCached
<1>3. ASSUME NEW p \in Programs, CreateRejected(p) PROVE TypeOK'
  <2>1. PICK new \in Creates : /\ new = ncreate + 1 /\ ncreate' = new
                               /\ prog' = [prog EXCEPT ![new] = p]
    BY <1>3, NewRequest DEF CreateRejected
  <2>2. ncreate' \in 0..MaxCreates /\ prog' \in [Creates -> Programs]
    BY <2>1 DEF Creates
  <2>3. \E status \in {"400", "500"} : Answer(new, status)
    BY <1>3, <2>1 DEF CreateRejected
  <2> QED
    BY <1>1, <1>3, <2>2, <2>3 DEF CreateRejected
<1>4. ASSUME NEW p \in Programs, CreateStarts(p) PROVE TypeOK'
  <2>1. PICK new \in Creates : /\ new = ncreate + 1 /\ ncreate' = new
                               /\ prog' = [prog EXCEPT ![new] = p]
    BY <1>4, NewRequest DEF CreateStarts
  <2>2. ncreate' \in 0..MaxCreates /\ prog' \in [Creates -> Programs]
    BY <2>1 DEF Creates
  <2>3. /\ dir' \in [Programs -> BOOLEAN]
        /\ so' \in [Programs ->
             {<<"none">>, <<"whole">>} \cup {Linking(r) : r \in Creates}]
        /\ files' \in [Programs -> SUBSET Files]
    BY <1>4 DEF CreateStarts, Files
  <2>4. /\ build' \in [Creates -> {"none", "queued", "compiled", "linking",
                                   "built", "failed", "over"}]
        /\ reply' \in [Creates -> {"none", "201", "400", "500"}]
        /\ errors' \subseteq {"create", "list", "delete", "use"}
    <3>1. CASE Answer(new, "400")
      BY <1>1, <3>1
    <3>2. CASE /\ build' = [build EXCEPT ![new] = "queued"]
               /\ UNCHANGED <<reply, errors>>
      BY <3>2
    <3> QED
      BY <1>4, <2>1, <3>1, <3>2 DEF CreateStarts
  <2> QED
    BY <2>2, <2>3, <2>4
<1>5. ASSUME NEW r \in Creates, CreateStep(r) PROVE TypeOK'
  <2>1. CASE CompileCpp(r)
    BY <2>1 DEF CompileCpp, Build
  <2>2. CASE LinkStart(r)
    <3>1. prog[r] \in Programs
      OBVIOUS
    <3>2. so' \in [Programs ->
             {<<"none">>, <<"whole">>} \cup {Linking(s) : s \in Creates}]
      BY <2>2, <3>1 DEF LinkStart
    <3>3. dir' \in [Programs -> BOOLEAN]
      BY <2>2, <3>1 DEF LinkStart
    <3> QED
      BY <2>2, <3>2, <3>3 DEF LinkStart, Build
  <2>3. CASE LinkEnd(r)
    <3>1. so' \in [Programs ->
             {<<"none">>, <<"whole">>} \cup {Linking(s) : s \in Creates}]
      BY <2>3 DEF LinkEnd, WithoutOutput
    <3> QED
      BY <2>3, <3>1 DEF LinkEnd, Build
  <2>4. CASE FinishCreate(r)
    <3>1. /\ dir' \in [Programs -> BOOLEAN]
          /\ files' \in [Programs -> SUBSET Files]
      <4>1. prog[r] \in Programs /\ files[prog[r]] \subseteq Files
        OBVIOUS
      <4>2. FilesOfBuilt(prog[r]) \in SUBSET Files
        BY <4>1 DEF FilesOfBuilt, Files
      <4>3. CASE build[r] = "built"
        <5>1. /\ dir' = [dir EXCEPT ![prog[r]] = TRUE]
              /\ files' = [files EXCEPT ![prog[r]] = FilesOfBuilt(prog[r])]
          BY <2>4, <4>3 DEF FinishCreate
        <5> QED
          BY <4>2, <5>1
      <4>4. CASE build[r] # "built"
        BY <2>4, <4>4 DEF FinishCreate
      <4> QED
        BY <4>3, <4>4
    <3>2. \E status \in {"201", "400"} : Answer(r, status)
      BY <2>4 DEF FinishCreate
    <3> QED
      BY <1>1, <2>4, <3>1, <3>2 DEF FinishCreate
  <2> QED
    BY <1>5, <2>1, <2>2, <2>3, <2>4 DEF CreateStep
<1>6. ASSUME NEW p \in Programs, DeleteModel(p) PROVE TypeOK'
  BY <1>6 DEF DeleteModel
<1>7. ASSUME NEW p \in Programs, DeleteFails(p) \/ UseFails(p) PROVE TypeOK'
  BY <1>7 DEF DeleteFails, UseFails, Fails
<1>8. CASE ListFails
  BY <1>8 DEF ListFails, Fails
<1>9. CASE Crash
  BY <1>9 DEF Crash
<1>10. CASE UNCHANGED vars
  BY <1>10 DEF vars
<1> QED
  BY <1>2, <1>3, <1>4, <1>5, <1>6, <1>7, <1>8, <1>9, <1>10 DEF Next, Quiet

\* Every variable keeps its type, whatever clients ask for and however builds
\* end, for any programs and any number of requests.
THEOREM ModelTypes == Spec => []TypeOK
<1>1. Init => TypeOK
  BY TypeInit
<1>2. TypeOK /\ [Next]_vars => TypeOK'
  BY TypeNext
<1> QED
  BY <1>1, <1>2, PTL DEF Spec
-----------------------------------------------------------------------------
(* What builds leave, whatever clients ask for meanwhile.                  *)

LEMMA OwnInit == Init => OwnInv
<1> SUFFICES ASSUME Init PROVE OwnInv
  OBVIOUS
<1>1. FreshInv
  BY DEF Init, FreshInv
<1>2. TornModulesOwned /\ HomeInv
  BY ModuleTags DEF Init, TornModulesOwned, HomeInv
<1> QED
  BY <1>1, <1>2 DEF OwnInv

\* A request that is answered at once, or whose build starts, owned nothing.
LEMMA OwnRequest ==
  ASSUME TypeOK, OwnInv, NEW p \in Programs,
         CreateCached(p) \/ CreateRejected(p) \/ CreateStarts(p)
  PROVE  OwnInv'
<1> USE DEF TypeOK, OwnInv
<1>1. PICK new \in Creates : /\ new = ncreate + 1 /\ ncreate' = new
                             /\ prog' = [prog EXCEPT ![new] = p]
  BY NewRequest DEF CreateCached, CreateRejected, CreateStarts
<1>2. build[new] = "none" /\ new > ncreate
  BY <1>1 DEF FreshInv
<1>3. \A r \in Creates \ {new} : build'[r] = build[r] /\ reply'[r] = reply[r]
  BY <1>1 DEF CreateCached, CreateRejected, CreateStarts, Answer
<1>4. build'[new] = "over" \/ (build'[new] # "none" /\ reply'[new] = reply[new])
  BY <1>1 DEF CreateCached, CreateRejected, CreateStarts, Answer
<1>5. FreshInv'
  BY <1>1, <1>2, <1>3, <1>4 DEF FreshInv, Creates
<1>6. \A q \in Programs : so'[q] = so[q] \/ so'[q] = <<"none">>
  BY DEF CreateCached, CreateRejected, CreateStarts, cacheVars
<1>7. TornModulesOwned' /\ HomeInv'
  <2> SUFFICES ASSUME NEW q \in Programs, NEW r \in Creates, so'[q] = Linking(r)
               PROVE  /\ \/ build'[r] = "linking"
                         \/ build'[r] = "over" /\ reply'[r] = "none"
                      /\ prog'[r] = q
    BY DEF TornModulesOwned, HomeInv
  <2>1. so[q] = Linking(r)
    BY <1>6, ModuleTags
  <2>2. build[r] = "linking" \/ (build[r] = "over" /\ reply[r] = "none")
    BY <2>1 DEF TornModulesOwned
  <2>3. r # new
    BY <1>2, <2>2
  <2> QED
    BY <1>1, <1>3, <2>1, <2>2, <2>3 DEF HomeInv
<1> QED
  BY <1>5, <1>7

\* A build that ends has finished or removed what it was linking.
LEMMA OwnBuild ==
  ASSUME TypeOK, OwnInv, NEW r \in Creates, CreateStep(r)
  PROVE  OwnInv'
<1> USE DEF TypeOK, OwnInv
<1>1. ncreate' = ncreate /\ build[r] \notin {"none", "over"}
  BY DEF CreateStep, CompileCpp, LinkStart, LinkEnd, FinishCreate, Build,
     BuildEnded
<1>2. /\ \A s \in Creates \ {r} : build'[s] = build[s] /\ reply'[s] = reply[s]
      /\ build'[r] = "over" \/ reply'[r] = reply[r]
  BY DEF CreateStep, CompileCpp, LinkStart, LinkEnd, FinishCreate, Build,
     Answer
<1>3. FreshInv'
  BY <1>1, <1>2 DEF FreshInv
<1>4. \A q \in Programs, s \in Creates : so'[q] = Linking(s) =>
        \/ so[q] = Linking(s) /\ s # r
        \/ s = r /\ build'[r] = "linking" /\ prog[r] = q
  <2> SUFFICES ASSUME NEW q \in Programs, NEW s \in Creates,
                      so'[q] = Linking(s)
               PROVE  \/ so[q] = Linking(s) /\ s # r
                      \/ s = r /\ build'[r] = "linking" /\ prog[r] = q
    OBVIOUS
  <2>1. CASE CompileCpp(r)
    BY <2>1 DEF CompileCpp, Build, cacheVars, TornModulesOwned
  <2>2. CASE LinkStart(r)
    <3>1. build[r] = "compiled" /\ so[q] # Linking(r)
      BY <2>2 DEF LinkStart, Build, TornModulesOwned
    <3>2. CASE so' = so
      BY <3>1, <3>2
    <3>3. CASE so' = [so EXCEPT ![prog[r]] = Linking(r)]
               /\ build'[r] = "linking"
      BY <3>1, <3>3, ModuleTags
    <3> QED
      BY <2>2, <3>2, <3>3 DEF LinkStart, Build
  <2>3. CASE LinkEnd(r)
    <3>1. so'[q] = IF so[q] = Linking(r) THEN so'[q] ELSE so[q]
      BY <2>3 DEF LinkEnd, WithoutOutput
    <3>2. so[q] = Linking(r) => so'[q] \in {<<"none">>, <<"whole">>}
      BY <2>3 DEF LinkEnd, WithoutOutput
    <3> QED
      BY <3>1, <3>2, ModuleTags
  <2>4. CASE FinishCreate(r)
    BY <2>4 DEF FinishCreate, BuildEnded, TornModulesOwned
  <2> QED
    BY <2>1, <2>2, <2>3, <2>4 DEF CreateStep
<1>5. prog' = prog
  BY DEF CreateStep, CompileCpp, LinkStart, LinkEnd, FinishCreate
<1>6. TornModulesOwned' /\ HomeInv'
  BY <1>2, <1>4, <1>5 DEF TornModulesOwned, HomeInv
<1> QED
  BY <1>3, <1>6

LEMMA OwnNext == TypeOK /\ OwnInv /\ [Next]_vars => OwnInv'
<1> SUFFICES ASSUME TypeOK, OwnInv, [Next]_vars PROVE OwnInv'
  OBVIOUS
<1> USE DEF TypeOK, OwnInv, cacheVars, requestVars
<1>1. ASSUME UNCHANGED requestVars,
             \A q \in Programs : so'[q] = so[q] \/ so'[q] = <<"none">>
      PROVE  OwnInv'
  <2>1. FreshInv'
    BY <1>1 DEF FreshInv
  <2>2. \A q \in Programs, s \in Creates :
          so'[q] = Linking(s) => so[q] = Linking(s)
    BY <1>1, ModuleTags
  <2>3. TornModulesOwned' /\ HomeInv'
    BY <1>1, <2>2 DEF TornModulesOwned, HomeInv
  <2> QED
    BY <2>1, <2>3
<1>2. ASSUME NEW p \in Programs, DeleteModel(p) PROVE OwnInv'
  BY <1>1, <1>2 DEF DeleteModel
<1>3. ASSUME NEW p \in Programs, DeleteFails(p) \/ UseFails(p) PROVE OwnInv'
  BY <1>1, <1>3 DEF DeleteFails, UseFails, Fails
<1>4. CASE ListFails
  BY <1>1, <1>4 DEF ListFails, Fails
<1>5. CASE UNCHANGED vars
  BY <1>1, <1>5 DEF vars
<1>6. CASE Crash
  <2>1. FreshInv'
    BY <1>6 DEF Crash, Active, FreshInv
  <2>2. \A q \in Programs, s \in Creates :
          so'[q] = Linking(s) => so[q] = Linking(s)
    BY <1>6, ModuleTags DEF Crash
  <2>3. TornModulesOwned' /\ HomeInv'
    BY <1>6, <2>2 DEF Crash, Active, FreshInv, TornModulesOwned, HomeInv
  <2> QED
    BY <2>1, <2>3
<1> QED
  BY <1>2, <1>3, <1>4, <1>5, <1>6, OwnRequest, OwnBuild DEF Next, Quiet

LEMMA OwnAlways == Spec => []OwnInv
<1>1. Init => OwnInv
  BY OwnInit
<1>2. TypeOK /\ OwnInv /\ [Next]_vars => OwnInv'
  BY OwnNext
<1> QED
  BY <1>1, <1>2, ModelTypes, PTL DEF Spec

\* A module that cannot be loaded belongs to a linker that still runs or that
\* a crash has cut, for any interleaving of any number of builds of any
\* programs, with deletions, stanc timeouts and crashes.
THEOREM TornModulesHaveOwner == Spec => []TornModulesOwned
<1>1. OwnInv => TornModulesOwned
  BY DEF OwnInv
<1> QED
  BY <1>1, OwnAlways, PTL
-----------------------------------------------------------------------------
(* Clients that leave a program alone while it is built.                   *)

LEMMA BuildInit == Init => BuildInv
  BY DEF Init, BuildInv, Active

\* A request is made for a program that no build works on, and what it does
\* to the cache it does to that program.
LEMMA BuildRequest ==
  ASSUME Serial, TypeOK, OwnInv, BuildInv, NEW p \in Programs,
         CreateCached(p) \/ CreateRejected(p) \/ CreateStarts(p)
  PROVE  BuildInv'
<1> USE DEF TypeOK
<1>1. PICK new \in Creates : /\ new = ncreate + 1
                             /\ prog' = [prog EXCEPT ![new] = p] /\ ~Busy(p)
  BY NewRequest DEF CreateCached, CreateRejected, CreateStarts
<1>2. new \notin Active /\ build[new] = "none"
  BY <1>1 DEF OwnInv, FreshInv, Creates, Active
<1>3. ASSUME NEW r \in Active
      PROVE  /\ r \in Creates /\ r # new /\ prog'[r] = prog[r] /\ prog[r] # p
             /\ prog[r] \in Programs
  BY <1>1, <1>2 DEF Active, Busy
<1>4. \A q \in Programs \ {p} : /\ so'[q] = so[q] /\ files'[q] = files[q]
                                /\ dir'[q] = dir[q]
  BY DEF CreateCached, CreateRejected, CreateStarts, cacheVars
<1>5. \A r \in Creates \ {new} : build'[r] = build[r]
  BY <1>1 DEF CreateCached, CreateRejected, CreateStarts, Answer
<1>6. \/ build'[new] = "over"
      \/ /\ build'[new] = "queued" /\ dir'[p] /\ "stanc.log" \in files'[p]
         /\ so'[p] = <<"none">>
  <2>1. CASE CreateCached(p) \/ CreateRejected(p)
    BY <1>1, <2>1 DEF CreateCached, CreateRejected, Answer
  <2>2. CASE CreateStarts(p)
    <3>1. dir'[p] /\ so'[p] = <<"none">> /\ "stanc.log" \in files'[p]
      BY <2>2 DEF CreateStarts, Files
    <3>2. build'[new] \in {"over", "queued"}
      BY <1>1, <2>2 DEF CreateStarts, Answer
    <3> QED
      BY <3>1, <3>2
  <2> QED
    BY <2>1, <2>2
<1>7. Active' \subseteq Active \cup {new}
  BY <1>5 DEF Active
<1>8. prog'[new] = p
  BY <1>1
<1>9. \A r, s \in Active' : prog'[r] = prog'[s] => r = s
  BY <1>3, <1>7, <1>8 DEF BuildInv
<1>10. ASSUME NEW r \in Active'
       PROVE  /\ dir'[prog'[r]] /\ "stanc.log" \in files'[prog'[r]]
              /\ build'[r] \in {"queued", "compiled", "failed"}
                   => so'[prog'[r]] = <<"none">>
              /\ build'[r] = "linking" => so'[prog'[r]] = Linking(r)
              /\ build'[r] = "built" => so'[prog'[r]] = <<"whole">>
  <2>1. CASE r = new
    <3>1. build'[new] # "over"
      BY <2>1 DEF Active
    <3> QED
      BY <1>6, <1>8, <2>1, <3>1 DEF Absent
  <2>2. CASE r \in Active
    <3>1. build'[r] = build[r]
      BY <1>3, <1>5, <2>2
    <3>2. /\ so'[prog'[r]] = so[prog[r]] /\ files'[prog'[r]] = files[prog[r]]
          /\ dir'[prog'[r]] = dir[prog[r]]
      BY <1>3, <1>4, <2>2
    <3> QED
      BY <2>2, <3>1, <3>2 DEF BuildInv, Absent, Importable
  <2> QED
    BY <1>7, <2>1, <2>2
<1> QED
  BY <1>9, <1>10 DEF BuildInv, Absent, Importable

\* A build works in its own directory only.
LEMMA BuildLocal ==
  ASSUME TypeOK, OwnInv, BuildInv, NEW r \in Creates, CreateStep(r)
  PROVE  /\ r \in Active /\ prog' = prog /\ prog[r] \in Programs
         /\ \A s \in Creates \ {r} : build'[s] = build[s]
         /\ \A q \in Programs \ {prog[r]} :
              so'[q] = so[q] /\ files'[q] = files[q] /\ dir'[q] = dir[q]
<1> USE DEF TypeOK
<1>1. /\ r \in Active /\ prog' = prog /\ prog[r] \in Programs
      /\ \A s \in Creates \ {r} : build'[s] = build[s]
  BY DEF CreateStep, CompileCpp, LinkStart, LinkEnd, FinishCreate, Build,
     BuildEnded, Answer, Active
<1>2. ASSUME NEW q \in Programs \ {prog[r]}
      PROVE  so'[q] = so[q] /\ files'[q] = files[q] /\ dir'[q] = dir[q]
  <2>1. CASE CompileCpp(r)
    BY <2>1 DEF CompileCpp, cacheVars
  <2>2. CASE LinkStart(r)
    BY <1>1, <2>2 DEF LinkStart
  <2>3. CASE LinkEnd(r)
    <3>1. so[q] # Linking(r)
      BY DEF OwnInv, HomeInv
    <3> QED
      BY <2>3, <3>1 DEF LinkEnd, WithoutOutput
  <2>4. CASE FinishCreate(r)
    BY <1>1, <2>4 DEF FinishCreate
  <2> QED
    BY <2>1, <2>2, <2>3, <2>4 DEF CreateStep
<1> QED
  BY <1>1, <1>2

\* A build takes its directory through the phases that BuildInv describes.
LEMMA BuildWork ==
  ASSUME TypeOK, OwnInv, BuildInv, NEW r \in Creates, CreateStep(r)
  PROVE  BuildInv'
<1> USE DEF TypeOK
<1>1. /\ r \in Active /\ prog' = prog /\ prog[r] \in Programs
      /\ \A s \in Creates \ {r} : build'[s] = build[s]
      /\ \A q \in Programs \ {prog[r]} :
           so'[q] = so[q] /\ files'[q] = files[q] /\ dir'[q] = dir[q]
  BY BuildLocal
<1>2. Active' \subseteq Active
  BY <1>1 DEF Active
<1>3. \A s, t \in Active' : prog'[s] = prog'[t] => s = t
  BY <1>1, <1>2 DEF BuildInv
<1>4. ASSUME NEW s \in Active', s # r
      PROVE  /\ dir'[prog[s]] /\ "stanc.log" \in files'[prog[s]]
             /\ build'[s] \in {"queued", "compiled", "failed"}
                  => so'[prog[s]] = <<"none">>
             /\ build'[s] = "linking" => so'[prog[s]] = Linking(s)
             /\ build'[s] = "built" => so'[prog[s]] = <<"whole">>
  <2>1. s \in Active /\ s \in Creates /\ build'[s] = build[s]
    BY <1>1, <1>2, <1>4 DEF Active
  <2>2. prog[s] \in Programs \ {prog[r]}
    BY <1>1, <1>4, <2>1 DEF BuildInv
  <2> QED
    BY <1>1, <2>1, <2>2 DEF BuildInv, Absent, Importable
<1>5. /\ dir[prog[r]] /\ "stanc.log" \in files[prog[r]]
      /\ build[r] \in {"queued", "compiled", "failed"}
           => so[prog[r]] = <<"none">>
      /\ build[r] = "linking" => so[prog[r]] = Linking(r)
      /\ build[r] = "built" => so[prog[r]] = <<"whole">>
  BY <1>1 DEF BuildInv, Absent, Importable
<1>6. r \in Active' =>
        /\ dir'[prog[r]] /\ "stanc.log" \in files'[prog[r]]
        /\ build'[r] \in {"queued", "compiled", "failed"}
             => so'[prog[r]] = <<"none">>
        /\ build'[r] = "linking" => so'[prog[r]] = Linking(r)
        /\ build'[r] = "built" => so'[prog[r]] = <<"whole">>
  <2>1. CASE CompileCpp(r)
    BY <1>5, <2>1 DEF CompileCpp, Build, cacheVars
  <2>2. CASE LinkStart(r)
    <3>1. build'[r] = "linking" /\ so'[prog[r]] = Linking(r) /\ dir'[prog[r]]
          /\ files' = files
      BY <1>1, <1>5, <2>2 DEF LinkStart, Build
    <3> QED
      BY <1>5, <3>1
  <2>3. CASE LinkEnd(r)
    <3>1. so[prog[r]] = Linking(r) /\ files' = files /\ dir' = dir
      BY <1>5, <2>3 DEF LinkEnd, Build
    <3>2. \/ build'[r] = "built" /\ so'[prog[r]] = <<"whole">>
          \/ build'[r] = "failed" /\ so'[prog[r]] = <<"none">>
      BY <1>1, <2>3, <3>1 DEF LinkEnd, Build, WithoutOutput
    <3> QED
      BY <1>5, <3>1, <3>2
  <2>4. CASE FinishCreate(r)
    <3>1. build'[r] = "over"
      BY <2>4 DEF FinishCreate, Answer
    <3> QED
      BY <3>1 DEF Active
  <2> QED
    BY <2>1, <2>2, <2>3, <2>4 DEF CreateStep
<1> QED
  BY <1>1, <1>3, <1>4, <1>6 DEF BuildInv, Absent, Importable

\* Deleting a model leaves the builds of the others alone.
LEMMA BuildDelete ==
  ASSUME Serial, TypeOK, BuildInv, NEW p \in Programs, DeleteModel(p)
  PROVE  BuildInv'
<1> USE DEF TypeOK
<1>1. ~Busy(p) /\ UNCHANGED <<prog, build>>
  BY DEF DeleteModel, requestVars
<1>2. Active' = Active
  BY <1>1 DEF Active
<1>3. ASSUME NEW r \in Active
      PROVE  /\ so'[prog[r]] = so[prog[r]] /\ dir'[prog[r]] = dir[prog[r]]
             /\ files'[prog[r]] = files[prog[r]]
  BY <1>1 DEF DeleteModel, Busy, Active
<1>4. ASSUME NEW r \in Active
      PROVE  /\ Absent(prog[r]) => Absent(prog[r])'
             /\ Importable(prog[r]) => Importable(prog[r])'
  <2> HIDE DEF TypeOK
  <2> QED
    BY <1>1, <1>3 DEF Absent, Importable
<1>5. /\ \A r, s \in Active : prog[r] = prog[s] => r = s
      /\ \A r \in Active :
           /\ dir[prog[r]] /\ "stanc.log" \in files[prog[r]]
           /\ build[r] \in {"queued", "compiled", "failed"} => Absent(prog[r])
           /\ build[r] = "linking" => so[prog[r]] = Linking(r)
           /\ build[r] = "built" => Importable(prog[r])
  BY DEF BuildInv
<1>6. \A r \in Active :
        /\ dir'[prog[r]] /\ "stanc.log" \in files'[prog[r]]
        /\ build[r] \in {"queued", "compiled", "failed"} => Absent(prog[r])'
        /\ build[r] = "linking" => so'[prog[r]] = Linking(r)
        /\ build[r] = "built" => Importable(prog[r])'
  <2> HIDE DEF TypeOK
  <2> QED
    BY <1>3, <1>4, <1>5
<1> HIDE DEF TypeOK
<1> QED
  BY <1>1, <1>2, <1>5, <1>6 DEF BuildInv

LEMMA BuildNext ==
  Serial /\ TypeOK /\ OwnInv /\ BuildInv /\ [Next]_vars => BuildInv'
<1> SUFFICES ASSUME Serial, TypeOK, OwnInv, BuildInv, [Next]_vars
             PROVE  BuildInv'
  OBVIOUS
<1>1. ASSUME UNCHANGED <<cacheVars, requestVars>> PROVE BuildInv'
  BY <1>1 DEF cacheVars, requestVars, BuildInv, Active, Absent, Importable
<1>2. ASSUME NEW p \in Programs, DeleteFails(p) \/ UseFails(p) PROVE BuildInv'
  BY <1>1, <1>2 DEF DeleteFails, UseFails, Fails
<1>3. CASE ListFails
  BY <1>1, <1>3 DEF ListFails, Fails
<1>4. CASE UNCHANGED vars
  BY <1>1, <1>4 DEF vars, cacheVars, requestVars
<1>5. CASE Crash
  <2>1. Active' = {}
    BY <1>5 DEF Crash, Active, TypeOK
  <2> QED
    BY <2>1 DEF BuildInv
<1> QED
  BY <1>2, <1>3, <1>4, <1>5, BuildRequest, BuildWork, BuildDelete
     DEF Next, Quiet

LEMMA BuildAlways == Serial => (Spec => []BuildInv)
<1> SUFFICES ASSUME Serial PROVE Spec => []BuildInv
  OBVIOUS
<1>1. Init => BuildInv
  BY BuildInit
<1>2. TypeOK /\ OwnInv /\ BuildInv /\ [Next]_vars => BuildInv'
  BY BuildNext
<1> QED
  BY <1>1, <1>2, ModelTypes, OwnAlways, PTL DEF Spec
-----------------------------------------------------------------------------
(* Announced models.                                                       *)

LEMMA AnnounceStep ==
  ASSUME TypeOK, OwnInv, BuildInv, [Next]_vars, NEW r \in Creates,
         reply[r] # "201", reply'[r] = "201"
  PROVE  Complete(prog[r])'
<1> USE DEF TypeOK
<1>1. \A q : /\ so'[q] = <<"whole">> /\ Logs \subseteq files'[q] /\ prog'[r] = q
             => Complete(prog[r])'
  BY DEF Complete, Importable
<1>2. ASSUME NEW p \in Programs, CreateCached(p) PROVE Complete(prog[r])'
  <2>1. PICK new \in Creates : /\ new = ncreate + 1
                               /\ prog' = [prog EXCEPT ![new] = p]
    BY <1>2, NewRequest DEF CreateCached
  <2>2. r = new
    BY <1>2, <2>1 DEF CreateCached, Answer
  <2>3. Importable(p) /\ Logs \subseteq files[p]
    BY <1>2, <2>1, <2>2 DEF CreateCached, Answer
  <2>4. so'[p] = <<"whole">> /\ files' = files
    BY <1>2, <2>3 DEF CreateCached, cacheVars, Importable
  <2> QED
    BY <1>1, <2>1, <2>2, <2>3, <2>4
<1>3. ASSUME NEW s \in Creates, FinishCreate(s) PROVE Complete(prog[r])'
  <2>1. s = r /\ build[s] = "built" /\ prog' = prog /\ so' = so
    BY <1>3 DEF FinishCreate, Answer
  <2>2. so[prog[r]] = <<"whole">> /\ "stanc.log" \in files[prog[r]]
        /\ prog[r] \in Programs
    BY <2>1 DEF BuildInv, Importable, Active
  <2>3. Logs \subseteq files'[prog[r]]
    BY <1>3, <2>1, <2>2 DEF FinishCreate, FilesOfBuilt, Logs
  <2> QED
    BY <1>1, <2>1, <2>2, <2>3
<1>4. ASSUME NEW p \in Programs, CreateRejected(p) \/ CreateStarts(p)
      PROVE  FALSE
  BY <1>4 DEF CreateRejected, CreateStarts, Answer
<1>5. ASSUME NEW s \in Creates, CompileCpp(s) \/ LinkStart(s) \/ LinkEnd(s)
      PROVE  FALSE
  BY <1>5 DEF CompileCpp, LinkStart, LinkEnd
<1>6. ASSUME NEW p \in Programs, DeleteModel(p) \/ DeleteFails(p) \/ UseFails(p)
      PROVE  FALSE
  BY <1>6 DEF DeleteModel, DeleteFails, UseFails, Fails, requestVars
<1>7. CASE ListFails \/ Crash \/ UNCHANGED vars
  BY <1>7 DEF ListFails, Fails, Crash, vars, requestVars
<1> QED
  BY <1>2, <1>3, <1>4, <1>5, <1>6, <1>7 DEF Next, Quiet, CreateStep

\* When clients leave a program alone while it is built, a model that is
\* announced with 201 is there with both logs when the response is made,
\* whatever stanc timeouts and crashes came before.
THEOREM AnnouncedComplete == Serial => (Spec => AnnouncedModelsComplete)
<1> SUFFICES ASSUME Serial PROVE Spec => AnnouncedModelsComplete
  OBVIOUS
<1> DEFINE Announced ==
      \A r \in Creates : reply[r] # "201" /\ reply'[r] = "201" =>
        Complete(prog[r])'
<1>1. TypeOK /\ OwnInv /\ BuildInv /\ [Next]_vars => [Announced]_vars
  BY AnnounceStep
<1> QED
  BY <1>1, ModelTypes, OwnAlways, BuildAlways, PTL
     DEF Spec, AnnouncedModelsComplete
-----------------------------------------------------------------------------
(* Complete models.                                                        *)

LEMMA StayStep ==
  ASSUME TypeOK, OwnInv, BuildInv, [Next]_vars, NEW p \in Programs,
         Complete(p), ~Complete(p)'
  PROVE  DeleteModel(p)
<1> USE DEF TypeOK
<1>1. so[p] = <<"whole">> /\ Logs \subseteq files[p]
  BY DEF Complete, Importable
<1>2. ~(so'[p] = so[p] /\ files[p] \subseteq files'[p])
  BY <1>1 DEF Complete, Importable
<1>3. ASSUME NEW q \in Programs,
             CreateCached(q) \/ CreateRejected(q) \/ CreateStarts(q)
      PROVE  FALSE
  <2>1. CASE CreateCached(q)
    BY <1>2, <2>1 DEF CreateCached, cacheVars
  <2>2. CASE CreateRejected(q) \/ CreateStarts(q)
    <3>1. so[q] = <<"none">>
      BY <2>2 DEF CreateRejected, CreateStarts, InCache, Absent
    <3>2. q # p
      BY <1>1, <3>1, ModuleTags
    <3> QED
      BY <1>2, <2>2, <3>2 DEF CreateRejected, CreateStarts
  <2> QED
    BY <1>3, <2>1, <2>2
<1>4. ASSUME NEW r \in Creates, CreateStep(r) PROVE FALSE
  <2>1. r \in Active /\ prog[r] \in Programs
        /\ (p # prog[r] => so'[p] = so[p] /\ files'[p] = files[p])
    BY <1>4, BuildLocal
  <2>2. p = prog[r]
    BY <1>2, <2>1
  <2>3. build[r] = "built"
    <3>1. /\ build[r] \in {"queued", "compiled", "failed"}
               => so[p] = <<"none">>
          /\ build[r] = "linking" => so[p] = Linking(r)
      BY <2>1, <2>2 DEF BuildInv, Absent
    <3> QED
      BY <1>1, <2>1, <3>1, ModuleTags DEF Active
  <2>4. FinishCreate(r)
    BY <1>4, <2>3 DEF CreateStep, CompileCpp, LinkStart, LinkEnd, Build
  <2>5. so' = so /\ files'[p] = FilesOfBuilt(p)
    BY <2>2, <2>3, <2>4 DEF FinishCreate
  <2> QED
    BY <1>2, <2>5 DEF FilesOfBuilt
<1>5. ASSUME NEW q \in Programs, DeleteModel(q) PROVE q = p
  BY <1>2, <1>5 DEF DeleteModel
<1>6. ASSUME NEW q \in Programs, DeleteFails(q) \/ UseFails(q) PROVE FALSE
  BY <1>2, <1>6 DEF DeleteFails, UseFails, Fails, cacheVars
<1>7. CASE ListFails \/ UNCHANGED vars
  BY <1>2, <1>7 DEF ListFails, Fails, cacheVars, vars
<1>8. CASE Crash
  <2>1. so'[p] = so[p] /\ files' = files
    BY <1>1, <1>8 DEF Crash, Importable
  <2> QED
    BY <1>2, <2>1
<1> QED
  BY <1>3, <1>4, <1>5, <1>6, <1>7, <1>8 DEF Next, Quiet

\* Under the same condition a complete model stays until a client deletes it:
\* no request, build, timeout or crash takes its module or a log away.
THEOREM CompleteStays == Serial => (Spec => ModelsStay)
<1> SUFFICES ASSUME Serial PROVE Spec => ModelsStay
  OBVIOUS
<1> DEFINE Stays ==
      \A p \in Programs : Complete(p) /\ ~Complete(p)' => DeleteModel(p)
<1>1. TypeOK /\ OwnInv /\ BuildInv /\ [Next]_vars => [Stays]_vars
  BY StayStep
<1> QED
  BY <1>1, ModelTypes, OwnAlways, BuildAlways, PTL DEF Spec, ModelsStay
-----------------------------------------------------------------------------
(* No handler fails.                                                       *)

LEMMA CleanInit == Init => CleanInv
  BY DEF Init, CleanInv, Absent

\* stanc that keeps its time refuses a program or translates it.
LEMMA StancInTime ==
  ASSUME ~StancMayTimeout, NEW p
  PROVE  Stanc(p) = {IF p \in Invalid THEN "refused" ELSE "translated"}
  BY DEF Stanc

LEMMA CleanRequest ==
  ASSUME Serial, ~StancMayTimeout, TypeOK, OwnInv, CleanInv,
         NEW p \in Programs,
         CreateCached(p) \/ CreateRejected(p) \/ CreateStarts(p)
  PROVE  CleanInv'
<1> USE DEF TypeOK
<1>1. PICK new \in Creates : /\ new = ncreate + 1
                             /\ prog' = [prog EXCEPT ![new] = p] /\ ~Busy(p)
  BY NewRequest DEF CreateCached, CreateRejected, CreateStarts
<1>2. new \notin Active
  BY <1>1 DEF OwnInv, FreshInv, Creates, Active
<1>3. \A r \in Creates \ {new} : build'[r] = build[r] /\ prog'[r] = prog[r]
  BY <1>1 DEF CreateCached, CreateRejected, CreateStarts, Answer
<1>4. \A q \in Programs : Busy(q) => Busy(q)'
  BY <1>2, <1>3 DEF Busy, Active
<1>5. \A q \in Programs \ {p} : so'[q] = so[q] /\ files'[q] = files[q]
  BY DEF CreateCached, CreateRejected, CreateStarts, cacheVars
<1>6. Absent(p) \/ Complete(p)
  BY <1>1 DEF CleanInv
<1>7. errors' = {}
  <2>1. CASE CreateCached(p)
    <3>1. Complete(p)
      BY <1>6, <2>1 DEF CreateCached, InCache
    <3> QED
      BY <2>1, <3>1 DEF CreateCached, Complete, Answer, CleanInv
  <2>2. CASE CreateRejected(p)
    <3>1. Stanc(p) \ {"translated"} \subseteq {"refused"}
      BY StancInTime
    <3> QED
      BY <2>2, <3>1 DEF CreateRejected, Answer, CleanInv
  <2>3. CASE CreateStarts(p)
    BY <2>3 DEF CreateStarts, Answer, CleanInv
  <2> QED
    BY <2>1, <2>2, <2>3
<1>8. Busy(p)' \/ Absent(p)' \/ Complete(p)'
  <2>1. CASE CreateCached(p)
    BY <1>6, <2>1 DEF CreateCached, cacheVars, Absent, Complete, Importable
  <2>2. CASE CreateRejected(p) \/ CreateStarts(p)
    BY <2>2 DEF CreateRejected, CreateStarts, Absent
  <2> QED
    BY <2>1, <2>2
<1>9. \A q \in Programs \ {p} : Busy(q)' \/ Absent(q)' \/ Complete(q)'
  BY <1>4, <1>5 DEF CleanInv, Absent, Complete, Importable
<1> QED
  BY <1>7, <1>8, <1>9 DEF CleanInv

LEMMA CleanWork ==
  ASSUME TypeOK, OwnInv, BuildInv, CleanInv, NEW r \in Creates, CreateStep(r)
  PROVE  CleanInv'
<1> USE DEF TypeOK
<1>1. /\ r \in Active /\ prog' = prog /\ prog[r] \in Programs
      /\ \A s \in Creates \ {r} : build'[s] = build[s]
      /\ \A q \in Programs \ {prog[r]} :
           so'[q] = so[q] /\ files'[q] = files[q] /\ dir'[q] = dir[q]
  BY BuildLocal
<1>2. errors' = {}
  BY DEF CreateStep, CompileCpp, LinkStart, LinkEnd, FinishCreate, Answer,
     CleanInv
<1>3. ASSUME NEW q \in Programs, q # prog[r]
      PROVE  Busy(q)' \/ Absent(q)' \/ Complete(q)'
  <2>1. Busy(q) => Busy(q)'
    BY <1>1, <1>3 DEF Busy, Active
  <2> QED
    BY <1>1, <1>3, <2>1 DEF CleanInv, Absent, Complete, Importable
<1>4. Busy(prog[r])' \/ Absent(prog[r])' \/ Complete(prog[r])'
  <2>1. CASE build'[r] # "over"
    <3>1. r \in Active'
      BY <1>1, <2>1 DEF CreateStep, CompileCpp, LinkStart, LinkEnd,
         FinishCreate, Build, Answer, Active
    <3> QED
      BY <1>1, <3>1 DEF Busy
  <2>2. CASE build'[r] = "over"
    <3>1. FinishCreate(r)
      BY <2>2 DEF CreateStep, CompileCpp, LinkStart, LinkEnd, Build
    <3>2. /\ build[r] \in {"built", "failed"} /\ so' = so
          /\ build[r] = "failed" => so[prog[r]] = <<"none">>
          /\ build[r] = "built" => so[prog[r]] = <<"whole">>
          /\ "stanc.log" \in files[prog[r]]
      BY <1>1, <3>1 DEF FinishCreate, BuildEnded, BuildInv, Absent, Importable
    <3>3. build[r] = "built" => Logs \subseteq files'[prog[r]]
      BY <1>1, <3>1, <3>2 DEF FinishCreate, FilesOfBuilt, Logs
    <3> QED
      BY <1>1, <3>2, <3>3 DEF Absent, Complete, Importable
  <2> QED
    BY <2>1, <2>2
<1> QED
  BY <1>1, <1>2, <1>3, <1>4 DEF CleanInv

LEMMA CleanNext ==
  ASSUME Serial, ~StancMayTimeout, ~CrashAnytime,
         TypeOK, OwnInv, BuildInv, CleanInv, [Next]_vars
  PROVE  CleanInv'
<1> USE DEF TypeOK
<1>1. ASSUME NEW p \in Programs, ~Busy(p), ~Absent(p)
      PROVE  Importable(p) /\ Logs \subseteq files[p]
  BY <1>1 DEF CleanInv, Complete
<1>2. ASSUME NEW p \in Programs, DeleteModel(p) PROVE CleanInv'
  <2>1. \A q \in Programs : Busy(q)' <=> Busy(q)
    BY <1>2 DEF DeleteModel, requestVars, Busy, Active
  <2>2. Absent(p)' /\ \A q \in Programs \ {p} :
                        so'[q] = so[q] /\ files'[q] = files[q]
    BY <1>2 DEF DeleteModel, Absent
  <2>3. errors' = {}
    BY <1>2 DEF DeleteModel, CleanInv
  <2> QED
    BY <2>1, <2>2, <2>3 DEF CleanInv, Absent, Complete, Importable
<1>3. ASSUME NEW p \in Programs, DeleteFails(p) \/ UseFails(p) PROVE FALSE
  BY <1>1, <1>3 DEF DeleteFails, UseFails
<1>4. ~ListFails
  BY <1>1 DEF ListFails, Listed, Busy
<1>5. CASE UNCHANGED vars
  BY <1>5 DEF vars, CleanInv, Busy, Active, Absent, Complete, Importable
<1>6. ~Crash
  BY DEF Crash
<1> QED
  BY <1>2, <1>3, <1>4, <1>5, <1>6, CleanRequest, CleanWork DEF Next, Quiet

LEMMA CleanAlways ==
  Serial /\ ~StancMayTimeout /\ ~CrashAnytime => (Spec => []CleanInv)
<1> SUFFICES ASSUME Serial, ~StancMayTimeout, ~CrashAnytime
             PROVE  Spec => []CleanInv
  OBVIOUS
<1>1. Init => CleanInv
  BY CleanInit
<1>2. TypeOK /\ OwnInv /\ BuildInv /\ CleanInv /\ [Next]_vars => CleanInv'
  BY CleanNext
<1> QED
  BY <1>1, <1>2, ModelTypes, OwnAlways, BuildAlways, PTL DEF Spec

\* Without overlapping requests, stanc timeouts and crashes no handler that
\* makes, lists, deletes or uses a model answers 500, for any programs and any
\* number of requests.
THEOREM NoHandlerFails ==
  Serial /\ ~StancMayTimeout /\ ~CrashAnytime => (Spec => []NoServerError)
<1> SUFFICES ASSUME Serial, ~StancMayTimeout, ~CrashAnytime
             PROVE  Spec => []NoServerError
  OBVIOUS
<1>1. CleanInv => NoServerError
  BY DEF CleanInv, NoServerError
<1> QED
  BY <1>1, CleanAlways, PTL

\* Under the same conditions a cache in which nothing is built holds only
\* models that every handler can load.
THEOREM IdleCacheLoads ==
  Serial /\ ~StancMayTimeout /\ ~CrashAnytime => (Spec => []IdleCacheLoadable)
<1> SUFFICES ASSUME Serial, ~StancMayTimeout, ~CrashAnytime
             PROVE  Spec => []IdleCacheLoadable
  OBVIOUS
<1>1. CleanInv => IdleCacheLoadable
  BY DEF CleanInv, IdleCacheLoadable, Busy
<1> QED
  BY <1>1, CleanAlways, PTL

\* The invariant of the model cache without overlapping requests, timeouts and
\* crashes: a torn module belongs to a handler that is linking it, a build has
\* its directory to itself, and outside of builds every model is complete.
THEOREM CacheHolds ==
  Serial /\ ~StancMayTimeout /\ ~CrashAnytime => (Spec => []CacheInv)
<1> SUFFICES ASSUME Serial, ~StancMayTimeout, ~CrashAnytime
             PROVE  Spec => []CacheInv
  OBVIOUS
<1> QED
  BY OwnAlways, BuildAlways, CleanAlways, PTL DEF CacheInv
=============================================================================
