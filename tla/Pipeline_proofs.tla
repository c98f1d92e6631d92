---------------------------- MODULE Pipeline_proofs ----------------------------
(***************************************************************************)
(* Proofs about Pipeline, for any number of shells, commands, invocations  *)
(* and credentials.                                                        *)
(*                                                                         *)
(* The properties speak of a command that runs alone; Solo says that while *)
(* it does no other command is live, so that whatever happens to the files *)
(* happens through it.  Keeps and Tears add what the command knows of the  *)
(* files at the place it has reached, Saved where its credential is from.  *)
(***************************************************************************)
EXTENDS Pipeline, TLAPS

FileNames == {"pkl", "onnx"}

Contents == {Missing, Torn} \cup {c.weights : c \in Commands}

Stages ==
  {"off", "look", "lookOnnx", "connect", "write", "compile", "save",
   "session", "source", "export", "prompt"}

(* The variables have their types, and are functions on the shells.         *)
Shape ==
  /\ TypeOK
  /\ retried \in [Procs -> BOOLEAN] /\ alone \in [Procs -> BOOLEAN]
  /\ command = [p \in Procs |-> command[p]]
  /\ params = [p \in Procs |-> params[p]]
  /\ failure = [p \in Procs |-> failure[p]]
  /\ before = [p \in Procs |-> before[p]]

(* What a live command has read.                                            *)
Sound(p) ==
  /\ Live(p) => command[p] \in Commands
  /\ at[p] = "save" => params[p] \in Contents

Solo(p) == (Live(p) /\ alone[p]) => \A q \in Procs : q # p => ~Live(q)

(* A pipeline makes only files that were not there.                         *)
Keeps(p) ==
  (Live(p) /\ alone[p] /\ Name(p) = "pipeline") =>
    /\ \A f \in FileNames : before[p].file[f] # Missing => file[f] = before[p].file[f]
    /\ at[p] \in {"connect", "write"} => before[p].file[Target(p)] = Missing
    /\ at[p] \in {"compile", "save"} => before[p].file["onnx"] = Missing

(* In its first attempt a command can have torn only the file it is         *)
(* writing, or whose writing has just raised.                               *)
Tears(p) ==
  (Live(p) /\ alone[p] /\ ~retried[p]) =>
    \A f \in FileNames : file[f] = Torn =>
      \/ before[p].file[f] = Torn
      \/ f = Target(p) /\ (at[p] = "write" \/ (at[p] = "prompt" /\ failure[p] = "write"))
      \/ f = "onnx" /\ (at[p] = "save" \/ (at[p] = "prompt" /\ failure[p] = "save"))

(* The first attempt uses the credential .env named.                        *)
Saved(p) ==
  /\ Live(p) =>
       /\ before[p].envFile # KeyPath => before[p].saved = before[p].envFile
       /\ (before[p].envFile = KeyPath /\ alone[p] /\ ~retried[p]) => keyFile = before[p].saved
       /\ (before[p].envFile # None /\ ~retried[p]) => env[p] = before[p].envFile
  /\ (/\ ~retried[p] /\ before[p].saved = Good
      /\ before[p].envFile # KeyPath \/ alone[p]) => failure[p] # "refused"

Fine(p) == Sound(p) /\ Solo(p) /\ Keeps(p) /\ Tears(p) /\ Saved(p)

IInv == Shape /\ \A p \in Procs : Fine(p)

-----------------------------------------------------------------------------
(* How the invariant is kept.                                               *)

LEMMA InitInv == Init => IInv
<1> SUFFICES ASSUME Init PROVE IInv
  OBVIOUS
<1> USE DEF Init
<1>1. TypeOK
  BY CommandAssumption DEF TypeOK
<1>2. Shape
  BY <1>1 DEF Shape
<1>3. ASSUME NEW p \in Procs PROVE Fine(p)
  <2>1. ~Live(p) /\ at[p] # "save"
    BY DEF Live
  <2> QED
    BY <2>1, CommandAssumption DEF Fine, Sound, Solo, Keeps, Tears, Saved
<1> QED
  BY <1>2, <1>3 DEF IInv

(* What a command does to itself and to the files leaves alone whatever is  *)
(* said of another one: two live commands are not alone.                    *)
LEMMA Others ==
  ASSUME IInv, NEW p \in Procs, Live(p), NEW q \in Procs, q # p,
         UNCHANGED <<at[q], command[q], env[q], retried[q], params[q], failure[q]>>,
         UNCHANGED <<before[q], alone[q]>>
  PROVE  Fine(q)'
<1>1. Sound(q) /\ Solo(q) /\ Saved(q)
  BY DEF IInv, Fine
<1>2. Live(q)' => Live(q)
  BY DEF Live
<1>3. Live(q) => ~alone[q]
  BY <1>1 DEF Solo
<1>4. Sound(q)'
  BY <1>1, <1>2 DEF Sound
<1>5. Solo(q)' /\ Keeps(q)' /\ Tears(q)'
  BY <1>2, <1>3 DEF Solo, Keeps, Tears
<1>6. Saved(q)'
  BY <1>1, <1>2, <1>3 DEF Saved
<1> QED
  BY <1>4, <1>5, <1>6 DEF Fine

(* A step of a command that leaves the environment and the credentials.     *)
LEMMA QuietStep ==
  ASSUME IInv, NEW p \in Procs, Live(p),
         UNCHANGED <<envFile, keyFile, env, retried>>, NoStart,
         NEW where \in Stages, at' = [at EXCEPT ![p] = where],
         NEW what, failure' = [failure EXCEPT ![p] = what],
         NEW given, params' = [params EXCEPT ![p] = given],
         file' \in [FileNames -> Contents],
         where = "prompt" => ~retried[p],
         where = "save" => given \in Contents /\ Readable(given),
         where # "off" => Keeps(p)' /\ Tears(p)',
         what = "refused" => what = failure[p] \/ Credential(env[p]) # Good
  PROVE  IInv'
<1>1. /\ Shape /\ Sound(p) /\ Solo(p) /\ Saved(p)
      /\ UNCHANGED <<started, before, alone, command>>
  BY DEF IInv, Fine, NoStart
<1>2. /\ DOMAIN at = Procs /\ DOMAIN failure = Procs /\ DOMAIN params = Procs
  BY <1>1 DEF Shape, TypeOK
<1>3. /\ at'[p] = where /\ failure'[p] = what /\ params'[p] = given
      /\ \A q \in Procs : q # p =>
           at'[q] = at[q] /\ failure'[q] = failure[q] /\ params'[q] = params[q]
  BY <1>2
<1>4. \A q \in Procs : q # p => Fine(q)'
  BY <1>1, <1>3, Others, Zenon
<1>5. Live(p)' = (where # "off")
  BY <1>3 DEF Live
<1>6. Sound(p)'
  BY <1>1, <1>3 DEF Sound
<1>7. Solo(p)'
  BY <1>1, <1>3 DEF Solo, Live
<1>8. Keeps(p)' /\ Tears(p)'
  BY <1>5 DEF Keeps, Tears
<1>9. Saved(p)'
  <2>1. Live(p)' =>
          /\ before[p].envFile # KeyPath => before[p].saved = before[p].envFile
          /\ (before[p].envFile = KeyPath /\ alone[p] /\ ~retried[p]) => keyFile = before[p].saved
          /\ (before[p].envFile # None /\ ~retried[p]) => env[p] = before[p].envFile
    BY <1>1 DEF Saved
  <2>2. ASSUME ~retried[p], before[p].saved = Good, before[p].envFile # KeyPath \/ alone[p]
        PROVE  what # "refused"
    <3>1. Good \in Credentials /\ None \notin Credentials /\ failure[p] # "refused"
      BY <1>1, <2>2, CommandAssumption DEF Saved
    <3>2. before[p].envFile # None
      BY <1>1, <2>2, <3>1, CommandAssumption DEF Saved
    <3>3. Credential(env[p]) = Good
      BY <1>1, <2>2, <3>2 DEF Saved, Credential
    <3> QED
      BY <2>2, <3>1, <3>3
  <2> QED
    BY <1>1, <1>3, <2>1, <2>2 DEF Saved
<1>10. TypeOK'
  <2>1. at' \in [Procs -> Stages]
    BY <1>1 DEF Shape, TypeOK, Stages
  <2>2. \A q \in Procs : at'[q] = "prompt" => ~retried'[q]
    BY <1>1, <1>3 DEF Shape, TypeOK
  <2>3. \A q \in Procs : at'[q] = "save" => Readable(params'[q])
    BY <1>1, <1>3 DEF Shape, TypeOK
  <2> QED
    BY <1>1, <2>1, <2>2, <2>3 DEF Shape, TypeOK, Stages, FileNames, Contents
<1>11. Shape'
  <2>1. failure' = [q \in Procs |-> failure'[q]] /\ params' = [q \in Procs |-> params'[q]]
    BY <1>2
  <2> QED
    BY <1>1, <1>10, <2>1 DEF Shape
<1> QED
  BY <1>4, <1>6, <1>7, <1>8, <1>9, <1>11 DEF IInv, Fine

(* The files and contents a command names exist.                            *)
LEMMA CommandFacts ==
  ASSUME IInv, NEW p \in Procs, Live(p)
  PROVE  /\ Target(p) \in FileNames
         /\ command[p].weights \in Contents /\ Readable(command[p].weights)
<1>1. command[p] \in Commands
  BY DEF IInv, Fine, Sound
<1> QED
  BY <1>1, CommandAssumption DEF Target, FileNames, Contents, Readable

(* What stays of the shape when a command only moves on.                    *)
LEMMA ShapeFacts ==
  ASSUME IInv
  PROVE  /\ file \in [FileNames -> Contents]
         /\ params = [p \in Procs |-> params[p]] /\ failure = [p \in Procs |-> failure[p]]
         /\ \A p \in Procs : at[p] = "prompt" => ~retried[p]
         /\ \A p \in Procs : failure = [failure EXCEPT ![p] = failure[p]]
         /\ \A p \in Procs : params = [params EXCEPT ![p] = params[p]]
         /\ \A p \in Procs : Fine(p)
         /\ DOMAIN at = Procs /\ DOMAIN failure = Procs /\ DOMAIN params = Procs
BY DEF IInv, Shape, TypeOK, FileNames, Contents

(* A command that moves on, or ends, and leaves the files and what it has   *)
(* read.                                                                    *)
LEMMA MoveStep ==
  ASSUME IInv, NEW p \in Procs, Live(p),
         UNCHANGED <<envFile, keyFile, env, retried, params, file>>, NoStart,
         NEW where \in Stages \ {"save", "write", "prompt"}, at' = [at EXCEPT ![p] = where],
         NEW what \in {failure[p], "other"}, failure' = [failure EXCEPT ![p] = what],
         at[p] \notin {"save", "write", "prompt"} \/ where = "off",
         Keeps(p) /\ where # "off" => Keeps(p)'
  PROVE  IInv'
<1>1. /\ file \in [FileNames -> Contents] /\ Fine(p) /\ DOMAIN at = Procs
      /\ params = [params EXCEPT ![p] = params[p]]
      /\ command' = command /\ before' = before /\ alone' = alone
  BY ShapeFacts DEF NoStart
<1>2. at'[p] = where
  BY <1>1
<1>3. where # "off" => Tears(p)'
  BY <1>1, <1>2 DEF Fine, Tears, Live
<1>4. where # "off" => Keeps(p)'
  BY <1>1 DEF Fine
<1> HIDE DEF IInv
<1> DEFINE given == params[p]
<1>5. params' = [params EXCEPT ![p] = given]
  BY <1>1
<1>6. file' \in [FileNames -> Contents]
  BY <1>1
<1>7. where \in Stages /\ where # "prompt" /\ where # "save"
  OBVIOUS
<1> HIDE DEF given
<1> QED
  BY <1>3, <1>4, <1>5, <1>6, <1>7, QuietStep

Quiet == UNCHANGED <<envFile, keyFile, env, retried, params>> /\ NoStart

(* A step that writes one file: the others stay.                            *)
LEMMA StoreFacts ==
  ASSUME IInv, NEW f \in FileNames, NEW x \in Contents, Store(f, x)
  PROVE  /\ file' \in [FileNames -> Contents] /\ file'[f] = x
         /\ \A g \in FileNames : g # f => file'[g] = file[g]
BY ShapeFacts DEF Store

(* An exception, whatever its text: the file that was being written stays   *)
(* torn, and no other changes.                                              *)
LEMMA RaiseStep ==
  ASSUME IInv, NEW p \in Procs, Live(p), Quiet, at[p] # "prompt",
         NEW what, NEW authentication \in BOOLEAN, RaiseAs(p, what, authentication),
         what = "refused" => Credential(env[p]) # Good,
         \/ at[p] \notin {"write", "save"} /\ file' = file
         \/ at[p] = "write" /\ what = "write" /\ Store(Target(p), Torn)
         \/ at[p] = "save" /\ what = "save" /\ Store("onnx", Torn)
  PROVE  IInv'
<1> DEFINE where == IF authentication /\ MayRetry(p) THEN "prompt" ELSE "off"
<1>1. /\ at' = [at EXCEPT ![p] = where] /\ failure' = [failure EXCEPT ![p] = what]
      /\ where \in {"prompt", "off"} /\ (where = "prompt" => ~retried[p])
      /\ UNCHANGED <<command, before, alone, retried, params>>
      /\ params = [params EXCEPT ![p] = params[p]] /\ Fine(p)
      /\ Target(p) \in FileNames /\ "onnx" \in FileNames /\ Torn \in Contents
  BY ShapeFacts, CommandFacts DEF RaiseAs, Go, MayRetry, Quiet, NoStart, FileNames, Contents
<1> HIDE DEF where
<1>2. at'[p] = where /\ failure'[p] = what
  BY <1>1, ShapeFacts
<1>3. /\ file' \in [FileNames -> Contents]
      /\ \A g \in FileNames :
           \/ file'[g] = file[g]
           \/ at[p] = "write" /\ what = "write" /\ g = Target(p)
           \/ at[p] = "save" /\ what = "save" /\ g = "onnx"
  BY <1>1, StoreFacts, ShapeFacts
<1>4. Keeps(p)'
  BY <1>1, <1>2, <1>3 DEF Fine, Keeps, Live, Name, Target
<1>5. where # "off" => Tears(p)'
  <2> SUFFICES ASSUME where = "prompt", alone[p], NEW f \in FileNames, file'[f] = Torn
               PROVE  \/ before[p].file[f] = Torn
                      \/ f = Target(p) /\ what = "write"
                      \/ f = "onnx" /\ what = "save"
    BY <1>1, <1>2 DEF Tears, Target
  <2> QED
    BY <1>1, <1>3 DEF Fine, Tears
<1>6. where \in Stages /\ where # "save" /\ params' = [params EXCEPT ![p] = params[p]]
  BY <1>1 DEF Stages
<1> QED
  BY <1>1, <1>3, <1>4, <1>5, <1>6, QuietStep DEF Quiet

(* Raising where a command stands, short of the files.                      *)
LEMMA PlainRaise ==
  ASSUME IInv, NEW p \in Procs, Live(p), Quiet, file' = file, Raise(p, "other"),
         at[p] \notin {"prompt", "write", "save"}
  PROVE  IInv'
<1>1. PICK authentication \in BOOLEAN : RaiseAs(p, "other", authentication)
  BY DEF Raise
<1> QED
  BY <1>1, RaiseStep

LEMMA LookKeeps == ASSUME IInv, NEW p \in Procs, Look(p), Quiet PROVE IInv'
<1>a. CASE Raise(p, "other")
  BY <1>a, PlainRaise DEF Look, Live
<1> SUFFICES ASSUME ~Raise(p, "other") PROVE IInv'
  BY <1>a
<1> DEFINE where == IF Exists(Target(p)) THEN AfterTarget(p) ELSE "connect"
<1>1. /\ Live(p) /\ at[p] = "look" /\ at' = [at EXCEPT ![p] = where]
      /\ failure' = [failure EXCEPT ![p] = failure[p]] /\ file' = file
      /\ UNCHANGED <<command, before, alone>>
  BY ShapeFacts DEF Look, Continue, Go, Live, Quiet, NoStart
<1>2. where \in {"session", "lookOnnx", "connect"}
  BY DEF AfterTarget
<1>3. Target(p) \in FileNames /\ at'[p] = where /\ Target(p)' = Target(p)
  BY <1>1, CommandFacts, ShapeFacts DEF Target
<1>4. ASSUME Keeps(p) PROVE Keeps(p)'
  <2> SUFFICES ASSUME Live(p)', alone'[p], Name(p)' = "pipeline" PROVE Keeps(p)'
    BY DEF Keeps
  <2>1. \A f \in FileNames : before[p].file[f] # Missing => file[f] = before[p].file[f]
    BY <1>1, <1>4 DEF Keeps, Name
  <2>2. where = "connect" => before[p].file[Target(p)] = Missing
    BY <1>2, <1>3, <2>1 DEF Exists, AfterTarget
  <2> QED
    BY <1>1, <1>2, <1>3, <2>1, <2>2 DEF Keeps
<1> HIDE DEF where
<1>5. where \in Stages \ {"save", "write", "prompt"}
  BY <1>2 DEF Stages
<1> QED
  BY <1>1, <1>4, <1>5, MoveStep DEF Quiet

LEMMA LookOnnxKeeps == ASSUME IInv, NEW p \in Procs, LookOnnx(p), Quiet PROVE IInv'
<1> DEFINE where == IF Exists("onnx") THEN "session" ELSE "compile"
<1>1. /\ Live(p) /\ at[p] = "lookOnnx" /\ at' = [at EXCEPT ![p] = where]
      /\ failure' = [failure EXCEPT ![p] = failure[p]] /\ file' = file
      /\ UNCHANGED <<command, before, alone>>
  BY ShapeFacts DEF LookOnnx, Continue, Go, Live, Quiet, NoStart
<1>2. at'[p] = where
  BY <1>1, ShapeFacts
<1>3. ASSUME Keeps(p) PROVE Keeps(p)'
  <2> SUFFICES ASSUME Live(p)', alone'[p], Name(p)' = "pipeline" PROVE Keeps(p)'
    BY DEF Keeps
  <2>1. \A f \in FileNames : before[p].file[f] # Missing => file[f] = before[p].file[f]
    BY <1>1, <1>3 DEF Keeps, Name
  <2>2. where = "compile" => before[p].file["onnx"] = Missing
    BY <2>1 DEF Exists, FileNames
  <2> QED
    BY <1>1, <1>2, <2>1, <2>2 DEF Keeps
<1>4. where \in Stages \ {"save", "write", "prompt"}
  BY DEF Stages
<1> HIDE DEF where
<1> QED
  BY <1>1, <1>3, <1>4, MoveStep DEF Quiet

(* The steps of the model and of its source leave the files.                *)
LEMMA LateKeeps ==
  ASSUME IInv, NEW p \in Procs, Session(p) \/ Export(p) \/ Source(p), Quiet
  PROVE  IInv'
<1>1. Live(p) /\ at[p] \in {"session", "export", "source"} /\ file' = file
  BY DEF Session, Export, Source, Live
<1>2. UNCHANGED <<command, before, alone, params, retried>>
  BY DEF Quiet, NoStart
<1>3. ASSUME NEW where \in {"off", "source", "export"}, at' = [at EXCEPT ![p] = where]
      PROVE  (Keeps(p) => Keeps(p)') /\ (Tears(p) => Tears(p)')
  <2>1. at'[p] = where
    BY <1>3, ShapeFacts
  <2> QED
    BY <1>1, <1>2, <2>1 DEF Keeps, Tears, Name, Target, Live
<1>4. CASE Raise(p, "other")
  BY <1>1, <1>4, PlainRaise
<1>5. ASSUME NEW what, NEW authentication \in BOOLEAN, RaiseAs(p, what, authentication),
             what = "refused" => Credential(env[p]) # Good
      PROVE  IInv'
  BY <1>1, <1>5, RaiseStep
<1>6. ASSUME NEW where \in {"off", "source", "export"}, at' = [at EXCEPT ![p] = where],
             failure' = [failure EXCEPT ![p] = failure[p]]
      PROVE  IInv'
  <2>1. where \in Stages \ {"save", "write", "prompt"}
    BY DEF Stages
  <2> QED
    BY <1>1, <1>3, <1>6, <2>1, MoveStep DEF Quiet
<1>7. failure = [failure EXCEPT ![p] = failure[p]]
  BY ShapeFacts
<1>8. CASE Session(p)
  BY <1>4, <1>6, <1>7, <1>8 DEF Session, Return, Continue, Go, AfterSession
<1>9. CASE Export(p)
  <2>1. ASSUME RaiseAs(p, "export", FALSE) PROVE IInv'
    BY <1>5, <2>1
  <2> QED
    BY <1>4, <1>6, <1>7, <1>9, <2>1 DEF Export, Continue, Go
<1>10. CASE Source(p)
  <2>1. ~Accepts(p) => Credential(env[p]) # Good
    BY DEF Accepts
  <2> QED
    BY <1>4, <1>5, <1>6, <1>7, <1>10, <2>1 DEF Source, Return, Go, Raise
<1> QED
  BY <1>8, <1>9, <1>10

LEMMA ConnectKeeps == ASSUME IInv, NEW p \in Procs, Connect(p), Quiet PROVE IInv'
<1>1. /\ Live(p) /\ at[p] = "connect" /\ Fine(p) /\ Target(p) \in FileNames
      /\ UNCHANGED <<command, before, alone, params, retried>>
      /\ params = [params EXCEPT ![p] = params[p]]
      /\ failure = [failure EXCEPT ![p] = failure[p]]
  BY ShapeFacts, CommandFacts DEF Connect, Live, Quiet, NoStart
<1>2. CASE Continue(p, "write") /\ Store(Target(p), Torn)
  <2>1. at' = [at EXCEPT ![p] = "write"] /\ failure' = [failure EXCEPT ![p] = failure[p]]
        /\ at'[p] = "write" /\ Target(p)' = Target(p)
    BY <1>1, <1>2, ShapeFacts DEF Continue, Go, Target
  <2>2. /\ file' \in [FileNames -> Contents]
        /\ \A g \in FileNames : g # Target(p) => file'[g] = file[g]
    <3>1. Torn \in Contents
      BY DEF Contents
    <3> QED
      BY <1>1, <1>2, <3>1, StoreFacts
  <2>3. Keeps(p)'
    BY <1>1, <2>1, <2>2 DEF Fine, Keeps, Live, Name
  <2>4. Tears(p)'
    <3>1. alone[p] /\ ~retried[p] =>
            \A f \in FileNames : file[f] = Torn => before[p].file[f] = Torn
      BY <1>1 DEF Fine, Tears
    <3> QED
      BY <1>1, <2>1, <2>2, <3>1 DEF Tears
  <2>5. "write" \in Stages /\ params' = [params EXCEPT ![p] = params[p]]
    BY <1>1 DEF Stages
  <2> QED
    BY <1>1, <2>1, <2>2, <2>3, <2>4, <2>5, QuietStep DEF Quiet
<1>3. CASE Raise(p, "other") /\ UNCHANGED file
  BY <1>1, <1>3, PlainRaise
<1> QED
  BY <1>2, <1>3 DEF Connect

(* p, which was writing f, has written x to it and goes on, or ends.        *)
LEMMA WrittenStep ==
  ASSUME IInv, NEW p \in Procs, Live(p), Quiet,
         NEW f \in FileNames,
         \/ at[p] = "write" /\ f = Target(p)
         \/ at[p] = "save" /\ f = "onnx",
         NEW x \in Contents, Store(f, x),
         NEW where \in {"off", "session", "lookOnnx"}, at' = [at EXCEPT ![p] = where],
         failure' = [failure EXCEPT ![p] = failure[p]],
         where # "off" /\ alone[p] => x # Torn
  PROVE  IInv'
<1>1. /\ Fine(p) /\ UNCHANGED <<command, before, alone, params, retried>>
      /\ params = [params EXCEPT ![p] = params[p]] /\ at'[p] = where
  BY ShapeFacts DEF Quiet, NoStart
<1>2. /\ file' \in [FileNames -> Contents] /\ file'[f] = x
      /\ \A g \in FileNames : g # f => file'[g] = file[g]
  BY StoreFacts
<1>3. Keeps(p)'
  BY <1>1, <1>2 DEF Fine, Keeps, Live, Name, Target
<1>4. where # "off" => Tears(p)'
  BY <1>1, <1>2 DEF Fine, Tears, Live
<1>5. where \in Stages /\ where # "prompt" /\ where # "save"
      /\ params' = [params EXCEPT ![p] = params[p]]
  BY <1>1 DEF Stages
<1> QED
  BY <1>2, <1>3, <1>4, <1>5, QuietStep DEF Quiet

LEMMA WriteKeeps == ASSUME IInv, NEW p \in Procs, Write(p), Quiet PROVE IInv'
<1>1. /\ Live(p) /\ at[p] = "write" /\ Target(p) \in FileNames
      /\ command[p].weights \in Contents /\ Readable(command[p].weights)
      /\ failure = [failure EXCEPT ![p] = failure[p]] /\ Torn \in Contents
  <2>1. Live(p) /\ at[p] = "write"
    BY DEF Write, Live
  <2> QED
    BY <2>1, ShapeFacts, CommandFacts DEF Contents
<1>2. ASSUME NEW x \in AsWritten(p, Target(p), command[p].weights), Store(Target(p), x),
             IF Name(p) = "pipeline" THEN Continue(p, AfterTarget(p)) ELSE Return(p)
      PROVE  IInv'
  <2> DEFINE where == IF Name(p) = "pipeline" THEN AfterTarget(p) ELSE "off"
  <2>1. at' = [at EXCEPT ![p] = where] /\ failure' = [failure EXCEPT ![p] = failure[p]]
        /\ where \in {"off", "session", "lookOnnx"}
    BY <1>1, <1>2 DEF Continue, Return, Go, AfterTarget
  <2>2. x \in Contents /\ (alone[p] => x # Torn)
    BY <1>1, <1>2 DEF AsWritten, Contents, Readable
  <2> HIDE DEF where
  <2> QED
    BY <1>1, <1>2, <2>1, <2>2, WrittenStep
<1>3. CASE Raise(p, "write") /\ Store(Target(p), Torn)
  BY <1>1, <1>3, RaiseStep DEF Raise
<1> QED
  BY <1>2, <1>3 DEF Write

LEMMA SaveKeeps == ASSUME IInv, NEW p \in Procs, Save(p), Quiet PROVE IInv'
<1>1. /\ Live(p) /\ at[p] = "save" /\ "onnx" \in FileNames
      /\ params[p] \in Contents /\ Readable(params[p])
      /\ failure = [failure EXCEPT ![p] = failure[p]] /\ Torn \in Contents
  <2>1. Live(p) /\ at[p] = "save" /\ Fine(p)
    BY ShapeFacts DEF Save, Live
  <2>2. params[p] \in Contents /\ Readable(params[p])
    BY <2>1 DEF Fine, Sound, IInv, Shape, TypeOK
  <2> QED
    BY <2>1, <2>2, ShapeFacts DEF Contents, FileNames
<1>2. ASSUME NEW x \in AsWritten(p, "onnx", params[p]), Store("onnx", x),
             IF Name(p) = "pipeline" THEN Continue(p, "session") ELSE Return(p)
      PROVE  IInv'
  <2> DEFINE where == IF Name(p) = "pipeline" THEN "session" ELSE "off"
  <2>1. at' = [at EXCEPT ![p] = where] /\ failure' = [failure EXCEPT ![p] = failure[p]]
        /\ where \in {"off", "session", "lookOnnx"}
    BY <1>1, <1>2 DEF Continue, Return, Go
  <2>2. x \in Contents /\ (alone[p] => x # Torn)
    BY <1>1, <1>2 DEF AsWritten, Contents, Readable
  <2> HIDE DEF where
  <2> QED
    BY <1>1, <1>2, <2>1, <2>2, WrittenStep
<1>3. CASE Raise(p, "save") /\ Store("onnx", Torn)
  BY <1>1, <1>3, RaiseStep DEF Raise
<1> QED
  BY <1>2, <1>3 DEF Save

(* The conversion reads the pickle and opens the ONNX file last.            *)
LEMMA CompileKeeps ==
  ASSUME IInv, NEW p \in Procs, Compile(p), UNCHANGED <<envFile, keyFile, env, retried>>, NoStart
  PROVE  IInv'
<1>1. /\ Live(p) /\ at[p] = "compile" /\ Fine(p) /\ UNCHANGED <<command, before, alone, retried>>
      /\ failure = [failure EXCEPT ![p] = failure[p]]
      /\ "pkl" \in FileNames /\ "onnx" \in FileNames /\ Torn \in Contents
  BY ShapeFacts DEF Compile, Live, NoStart, FileNames, Contents
<1>2. CASE /\ Readable(file["pkl"]) /\ params' = [params EXCEPT ![p] = file["pkl"]]
           /\ Continue(p, "save") /\ Store("onnx", Torn)
  <2>1. at' = [at EXCEPT ![p] = "save"] /\ failure' = [failure EXCEPT ![p] = failure[p]]
        /\ at'[p] = "save" /\ "save" \in Stages /\ file["pkl"] \in Contents
    BY <1>1, <1>2, ShapeFacts DEF Continue, Go, Stages
  <2>2. /\ file' \in [FileNames -> Contents]
        /\ \A g \in FileNames : g # "onnx" => file'[g] = file[g]
    BY <1>1, <1>2, StoreFacts
  <2>3. Keeps(p)'
    BY <1>1, <2>1, <2>2 DEF Fine, Keeps, Live, Name, Target
  <2>4. Tears(p)'
    <3>1. alone[p] /\ ~retried[p] =>
            \A f \in FileNames : file[f] = Torn => before[p].file[f] = Torn
      BY <1>1 DEF Fine, Tears
    <3> QED
      BY <1>1, <2>1, <2>2, <3>1 DEF Tears
  <2> QED
    BY <1>1, <1>2, <2>1, <2>2, <2>3, <2>4, QuietStep
<1>3. CASE Raise(p, "other") /\ UNCHANGED <<file, params>>
  BY <1>1, <1>3, PlainRaise DEF Quiet
<1> QED
  BY <1>2, <1>3 DEF Compile

(* The user declines, or the process dies: nothing else changes.            *)
LEMMA StopKeeps == ASSUME IInv, NEW p \in Procs, Decline(p) \/ Kill(p) PROVE IInv'
<1>1. /\ Live(p) /\ UNCHANGED <<file, envFile, keyFile, env, retried, params>> /\ NoStart
      /\ at' = [at EXCEPT ![p] = "off"] /\ "off" \in Stages \ {"save", "write", "prompt"}
  BY DEF Decline, Kill, Return, Go, Live, Stages
<1>2. PICK what \in {failure[p], "other"} : failure' = [failure EXCEPT ![p] = what]
  BY ShapeFacts DEF Decline, Kill, Return
<1> QED
  BY <1>1, <1>2, MoveStep

(* The second attempt starts, and nobody is prompted again.                 *)
LEMMA AnswerKeeps ==
  ASSUME IInv, NEW p \in Procs, NEW c \in Credentials, NEW pasted \in BOOLEAN,
         NEW save \in BOOLEAN, Answer(p, c, pasted, save)
  PROVE  IInv'
<1> DEFINE given == IF pasted THEN KeyPath ELSE c
           where == Entry(command[p])
<1>1. /\ Live(p) /\ at[p] = "prompt" /\ Fine(p) /\ Shape
      /\ at' = [at EXCEPT ![p] = where] /\ env' = [env EXCEPT ![p] = given]
      /\ retried' = [retried EXCEPT ![p] = TRUE]
      /\ keyFile' = (IF pasted THEN c ELSE keyFile)
      /\ envFile' = (IF save THEN given ELSE envFile)
      /\ failure' = [failure EXCEPT ![p] = "other"]
      /\ UNCHANGED <<file, params, started, before, alone, command>>
  BY ShapeFacts DEF Answer, KeyAfter, Go, NoStart, Live, IInv
<1>2. /\ where \in {"connect", "compile", "look", "session"}
      /\ where \in {"connect", "compile"} => Name(p) # "pipeline"
  <2>1. command[p] \in Commands
    BY <1>1 DEF Fine, Sound
  <2> QED
    BY <2>1, CommandAssumption DEF Entry, Name
<1>3. /\ DOMAIN at = Procs /\ DOMAIN env = Procs /\ DOMAIN retried = Procs
      /\ DOMAIN failure = Procs
      /\ given \in Credentials \cup {KeyPath} /\ c # None /\ c # KeyPath
  BY <1>1, CommandAssumption DEF Shape, TypeOK
<1> HIDE DEF where
<1>4. /\ at'[p] = where /\ retried'[p] = TRUE
      /\ \A q \in Procs : q # p =>
           /\ at'[q] = at[q] /\ env'[q] = env[q] /\ retried'[q] = retried[q]
           /\ failure'[q] = failure[q]
  BY <1>1, <1>3
<1>5. ASSUME NEW q \in Procs, q # p PROVE Fine(q)'
  BY <1>1, <1>4, <1>5, Others
<1>6. Fine(p)'
  <2>1. Sound(p)' /\ Solo(p)'
    BY <1>1, <1>2, <1>4 DEF Fine, Sound, Solo, Live
  <2>2. Keeps(p)' /\ Tears(p)'
    BY <1>1, <1>2, <1>4 DEF Fine, Keeps, Tears, Live, Name, Target
  <2>3. Saved(p)'
    BY <1>1, <1>2, <1>4 DEF Fine, Saved, Live
  <2> QED
    BY <2>1, <2>2, <2>3 DEF Fine
<1>7. TypeOK'
  <2>1. /\ file' \in [FileNames -> Contents]
        /\ envFile' \in Credentials \cup {None, KeyPath}
        /\ keyFile' \in Credentials \cup {None}
        /\ env' \in [Procs -> Credentials \cup {None, KeyPath}]
    BY <1>1, <1>3 DEF Shape, TypeOK, FileNames, Contents
  <2>2. keyFile' = None => envFile' # KeyPath /\ \A q \in Procs : env'[q] # KeyPath
    <3>1. keyFile = None => envFile # KeyPath /\ \A q \in Procs : env[q] # KeyPath
      BY <1>1 DEF Shape, TypeOK
    <3>2. env'[p] = given
      BY <1>1, <1>3
    <3> QED
      BY <1>1, <1>3, <1>4, <3>1, <3>2
  <2>3. at' \in [Procs -> Stages]
    BY <1>1, <1>2 DEF Shape, TypeOK, Stages
  <2>4. \A q \in Procs : at'[q] = "prompt" => ~retried'[q]
    BY <1>1, <1>2, <1>4 DEF Shape, TypeOK
  <2>5. \A q \in Procs : at'[q] = "save" => Readable(params'[q])
    BY <1>1, <1>2, <1>4 DEF Shape, TypeOK
  <2> QED
    BY <2>1, <2>2, <2>3, <2>4, <2>5 DEF TypeOK, FileNames, Contents, Stages
<1>8. failure' = [q \in Procs |-> failure'[q]]
  BY <1>1, <1>3
<1>9. Shape'
  BY <1>1, <1>7, <1>8 DEF Shape
<1> QED
  BY <1>5, <1>6, <1>9 DEF IInv

(* A new command: whoever ran before is no longer alone.                    *)
LEMMA StartKeeps ==
  ASSUME IInv, NEW p \in Procs, NEW c \in Commands, NEW exported \in Exported,
         Start(p, c, exported)
  PROVE  IInv'
<1> DEFINE where == Entry(c)
           given == LoadEnv(exported)
           then == [file |-> file, envFile |-> envFile, saved |-> Credential(envFile)]
<1>1. /\ at[p] = "off" /\ Shape /\ UNCHANGED <<file, envFile, keyFile>>
      /\ at' = [at EXCEPT ![p] = where] /\ env' = [env EXCEPT ![p] = given]
      /\ retried' = [retried EXCEPT ![p] = FALSE] /\ command' = [command EXCEPT ![p] = c]
      /\ params' = [params EXCEPT ![p] = None] /\ failure' = [failure EXCEPT ![p] = "other"]
      /\ before' = [before EXCEPT ![p] = then]
      /\ alone' = [q \in Procs |-> q = p /\ \A o \in Procs : ~Live(o)]
  BY DEF Start, Go, Live, IInv
<1>2. /\ where \in {"connect", "compile", "look", "session"}
      /\ where \in {"connect", "compile"} => c.name # "pipeline"
  BY CommandAssumption DEF Entry
<1>3. /\ given \in Credentials \cup {None, KeyPath}
      /\ envFile # None => given = envFile
      /\ given = KeyPath => envFile = KeyPath
  <2>1. exported \in Credentials \cup {None} /\ exported # KeyPath
    BY CommandAssumption
  <2> QED
    BY <1>1, <2>1 DEF LoadEnv, Shape, TypeOK
<1>4. /\ DOMAIN at = Procs /\ DOMAIN env = Procs /\ DOMAIN retried = Procs
      /\ DOMAIN command = Procs /\ DOMAIN params = Procs /\ DOMAIN failure = Procs
      /\ DOMAIN before = Procs
  BY <1>1 DEF Shape, TypeOK
<1> HIDE DEF where, given
<1>5. /\ at'[p] = where /\ env'[p] = given /\ ~retried'[p] /\ command'[p] = c
      /\ before'[p] = then /\ failure'[p] = "other"
      /\ \A q \in Procs : q # p =>
           /\ at'[q] = at[q] /\ env'[q] = env[q] /\ retried'[q] = retried[q]
           /\ command'[q] = command[q] /\ params'[q] = params[q] /\ failure'[q] = failure[q]
           /\ before'[q] = before[q] /\ ~alone'[q]
      /\ alone'[p] => \A o \in Procs : ~Live(o)
  BY <1>1, <1>4
<1>6. ASSUME NEW q \in Procs, q # p PROVE Fine(q)'
  <2>1. Fine(q)
    BY DEF IInv
  <2>2. Sound(q)' /\ Solo(q)' /\ Keeps(q)' /\ Tears(q)'
    BY <1>5, <1>6, <2>1 DEF Fine, Sound, Solo, Keeps, Tears, Live
  <2>3. Saved(q)'
    BY <1>5, <1>6, <2>1 DEF Fine, Saved, Live
  <2> QED
    BY <2>2, <2>3 DEF Fine
<1>7. Fine(p)'
  <2>1. Sound(p)'
    BY <1>2, <1>5 DEF Sound
  <2>2. Solo(p)'
    BY <1>5 DEF Solo, Live
  <2>3. before'[p].file = file /\ before'[p].envFile = envFile
        /\ before'[p].saved = Credential(envFile)
    BY <1>5
  <2>4. Keeps(p)'
    BY <1>1, <1>2, <1>5, <2>3 DEF Keeps, Name
  <2>5. Tears(p)'
    BY <1>1, <1>5, <2>3 DEF Tears
  <2>6. Saved(p)'
    BY <1>1, <1>2, <1>3, <1>5, <2>3 DEF Saved, Credential
  <2> QED
    BY <2>1, <2>2, <2>4, <2>5, <2>6 DEF Fine
<1>8. TypeOK'
  <2>1. /\ file' \in [FileNames -> Contents]
        /\ envFile' \in Credentials \cup {None, KeyPath}
        /\ keyFile' \in Credentials \cup {None}
        /\ env' \in [Procs -> Credentials \cup {None, KeyPath}]
    BY <1>1, <1>3 DEF Shape, TypeOK, FileNames, Contents
  <2>2. keyFile' = None => envFile' # KeyPath /\ \A q \in Procs : env'[q] # KeyPath
    <3>1. keyFile = None => envFile # KeyPath /\ \A q \in Procs : env[q] # KeyPath
      BY <1>1 DEF Shape, TypeOK
    <3> QED
      BY <1>1, <1>3, <1>5, <3>1
  <2>3. at' \in [Procs -> Stages]
    BY <1>1, <1>2 DEF Shape, TypeOK, Stages
  <2>4. \A q \in Procs : at'[q] = "prompt" => ~retried'[q]
    BY <1>1, <1>2, <1>5 DEF Shape, TypeOK
  <2>5. \A q \in Procs : at'[q] = "save" => Readable(params'[q])
    BY <1>1, <1>2, <1>5 DEF Shape, TypeOK
  <2> QED
    BY <2>1, <2>2, <2>3, <2>4, <2>5 DEF TypeOK, FileNames, Contents, Stages
<1>9. Shape'
  <2>1. retried' \in [Procs -> BOOLEAN] /\ alone' \in [Procs -> BOOLEAN]
    BY <1>1 DEF Shape
  <2>2. /\ command' = [q \in Procs |-> command'[q]] /\ params' = [q \in Procs |-> params'[q]]
        /\ failure' = [q \in Procs |-> failure'[q]] /\ before' = [q \in Procs |-> before'[q]]
    BY <1>1, <1>4
  <2> QED
    BY <1>8, <2>1, <2>2 DEF Shape
<1> QED
  BY <1>6, <1>7, <1>9 DEF IInv

-----------------------------------------------------------------------------
(* The theorems.                                                            *)

LEMMA NextKeeps == ASSUME IInv, Next PROVE IInv'
<1>1. PICK p \in Procs : \/ \E c \in Commands, exported \in Exported : Start(p, c, exported)
                         \/ Advance(p) \/ Kill(p)
  BY DEF Next
<1>2. CASE \E c \in Commands, exported \in Exported : Start(p, c, exported)
  BY <1>2, StartKeeps
<1>3. CASE Kill(p)
  BY <1>3, StopKeeps
<1>4. CASE Advance(p)
  <2>1. CASE /\ \/ Look(p) \/ LookOnnx(p) \/ Download(p)
                \/ Save(p) \/ Session(p) \/ Source(p) \/ Export(p)
             /\ Quiet
    BY <2>1, LookKeeps, LookOnnxKeeps, ConnectKeeps, WriteKeeps, SaveKeeps, LateKeeps DEF Download
  <2>2. CASE Compile(p) /\ UNCHANGED <<envFile, keyFile, env, retried>> /\ NoStart
    BY <2>2, CompileKeeps
  <2>3. CASE Decline(p)
    BY <2>3, StopKeeps
  <2>4. CASE \E c \in Credentials, pasted, save \in BOOLEAN : Answer(p, c, pasted, save)
    BY <2>4, AnswerKeeps
  <2> QED
    BY <1>4, <2>1, <2>2, <2>3, <2>4 DEF Advance, Quiet
<1> QED
  BY <1>1, <1>2, <1>3, <1>4

(* The invariant holds in every reachable state.                            *)
THEOREM Inductive == Spec => []IInv
<1>1. IInv /\ UNCHANGED vars => IInv'
  BY DEF vars, process, IInv, Shape, TypeOK, Fine, Sound, Solo, Keeps, Tears, Saved,
         Live, Name, Target, Readable
<1>2. IInv /\ [Next]_vars => IInv'
  BY <1>1, NextKeeps
<1> QED
  BY InitInv, <1>2, PTL DEF Spec

(* The files hold what some command writes, the credentials are ones the    *)
(* user may give, and nobody is prompted twice (cli.py:634-646).            *)
THEOREM TypeCorrect == Spec => []TypeOK
<1>1. IInv => TypeOK
  BY DEF IInv, Shape
<1> QED
  BY <1>1, Inductive, PTL

(* A pipeline run, however it fails and even when it starts over, leaves a  *)
(* file that was there as it was (cli.py:576-580, 585-592).                 *)
THEOREM FilesKept == Spec => []PipelineKeepsFiles
<1>1. IInv => PipelineKeepsFiles
  BY DEF IInv, Fine, Keeps, PipelineKeepsFiles, FileNames
<1> QED
  BY <1>1, Inductive, PTL

(* Whatever exception leads a command to the prompt, it has torn no file    *)
(* but the one whose writing raised (utils.py:25-27, cli.py:406, 433, 639). *)
THEOREM OneFileTorn == Spec => []OnlyFailedWriteTears
<1>1. IInv => OnlyFailedWriteTears
  BY DEF IInv, Shape, TypeOK, Fine, Tears, OnlyFailedWriteTears, FileNames, Live
<1> QED
  BY <1>1, Inductive, PTL

(* A good credential that .env leads to is never refused before the user    *)
(* has typed another (utils.py:31-42, 73-76).                               *)
THEOREM CredentialUsed == Spec => []SavedCredentialIsUsed
<1>1. IInv => SavedCredentialIsUsed
  BY DEF IInv, Fine, Saved, SavedCredentialIsUsed, Live
<1> QED
  BY <1>1, Inductive, PTL

-----------------------------------------------------------------------------
(* What is left of a command.                                               *)

Descends(q) ==
  Live(q) => IF at'[q] = at[q] THEN retried'[q] = retried[q] ELSE Left(q)' < Left(q)

(* p moves on to w, nearer to its end, or to the prompt of a first attempt. *)
Nearer(p, w) ==
  /\ Live(p) /\ at' = [at EXCEPT ![p] = w]
  /\ \/ w = "prompt" /\ at[p] # "prompt" /\ ~retried[p]
     \/ w = "off"
     \/ w # "prompt" /\ at[p] # "prompt" /\ Distance[w] < Distance[at[p]]

Moves(p) == \E w \in Stages : Nearer(p, w)

(* A step within an attempt, to its end or to the prompt.                   *)
LEMMA WithinAttempt ==
  ASSUME IInv, NEW p \in Procs, retried' = retried,
         NEW w \in Stages, Nearer(p, w)
  PROVE  \A q \in Procs : Descends(q)
<1> USE DEF Nearer
<1>1. at'[p] = w /\ at[p] \in Stages /\ at[p] # "off" /\ \A q \in Procs : q # p => at'[q] = at[q]
  BY DEF IInv, Shape, TypeOK, Live, Stages
<1>2. \A s \in Stages : /\ Distance[s] \in 0 .. 10
                        /\ s # "off" => Distance[s] > 0
                        /\ s = "prompt" => Distance[s] = 10
                        /\ s # "prompt" => Distance[s] < 10
  BY DEF Stages, Distance
<1>3. Distance["prompt"] = 10 /\ Distance["off"] = 0
  BY DEF Distance
<1>4. Left(p)' = IF w = "off" \/ w = "prompt" \/ retried[p] THEN Distance[w] ELSE 10 + Distance[w]
  BY <1>1, <1>3 DEF Left
<1>5. Left(p) = IF at[p] = "prompt" \/ retried[p] THEN Distance[at[p]] ELSE 10 + Distance[at[p]]
  BY <1>1, <1>3 DEF Left
<1>6. Left(p)' < Left(p)
  BY <1>1, <1>2, <1>3, <1>4, <1>5
<1> QED
  BY <1>1, <1>6 DEF Descends

(* Where each call leads.                                                   *)
LEMMA Leads ==
  ASSUME IInv, NEW p \in Procs,
         \/ Look(p) \/ LookOnnx(p) \/ Download(p) \/ Compile(p)
         \/ Save(p) \/ Session(p) \/ Source(p) \/ Export(p)
  PROVE  Moves(p)
<1>0. at[p] \notin {"off", "prompt"} => \A what, x : RaiseAs(p, what, x) => Moves(p)
  <2> SUFFICES ASSUME at[p] \notin {"off", "prompt"}, NEW what, NEW x, RaiseAs(p, what, x)
               PROVE  Moves(p)
    OBVIOUS
  <2>1. \/ at' = [at EXCEPT ![p] = "prompt"] /\ ~retried[p]
        \/ at' = [at EXCEPT ![p] = "off"]
    BY DEF RaiseAs, Go, MayRetry
  <2>2. "prompt" \in Stages /\ "off" \in Stages
    BY DEF Stages
  <2> QED
    BY <2>1, <2>2 DEF Moves, Nearer, Live
<1>1. at[p] \notin {"off", "prompt"} => \A what : Raise(p, what) => Moves(p)
  BY <1>0 DEF Raise
<1>2. at[p] # "off" => (Return(p) => Moves(p))
  BY DEF Return, Go, Live, Stages, Moves, Nearer
<1>3. at[p] \notin {"off", "prompt"} =>
        \A w \in Stages : (w # "prompt" /\ Continue(p, w) /\ Distance[w] < Distance[at[p]])
                             => Moves(p)
  BY DEF Continue, Go, Live, Moves, Nearer
<1>4. /\ Distance["source"] < Distance["export"] /\ Distance["export"] < Distance["session"]
      /\ Distance["source"] < Distance["session"] /\ Distance["session"] < Distance["save"]
      /\ Distance["save"] < Distance["compile"] /\ Distance["compile"] < Distance["lookOnnx"]
      /\ Distance["session"] < Distance["lookOnnx"]
      /\ Distance["session"] < Distance["write"] /\ Distance["lookOnnx"] < Distance["write"]
      /\ Distance["write"] < Distance["connect"] /\ Distance["connect"] < Distance["look"]
      /\ Distance["session"] < Distance["look"] /\ Distance["lookOnnx"] < Distance["look"]
  BY DEF Distance
<1>5. {"source", "export", "session", "save", "compile", "lookOnnx", "write", "connect", "look"}
        \subseteq Stages
  BY DEF Stages
<1>6. CASE Look(p)
  BY <1>1, <1>3, <1>4, <1>5, <1>6 DEF Look, AfterTarget
<1>7. CASE LookOnnx(p)
  BY <1>3, <1>4, <1>5, <1>7 DEF LookOnnx
<1>8. CASE Connect(p)
  BY <1>1, <1>3, <1>4, <1>5, <1>8 DEF Connect
<1>9. CASE Write(p)
  BY <1>1, <1>2, <1>3, <1>4, <1>5, <1>9 DEF Write, AfterTarget
<1>10. CASE Compile(p)
  BY <1>1, <1>3, <1>4, <1>5, <1>10 DEF Compile
<1>11. CASE Save(p)
  BY <1>1, <1>2, <1>3, <1>4, <1>5, <1>11 DEF Save
<1>12. CASE Session(p)
  BY <1>1, <1>2, <1>3, <1>4, <1>5, <1>12 DEF Session, AfterSession
<1>13. CASE Source(p)
  BY <1>0, <1>1, <1>2, <1>13 DEF Source
<1>14. CASE Export(p)
  BY <1>0, <1>1, <1>3, <1>4, <1>5, <1>14 DEF Export
<1> QED
  BY <1>6, <1>7, <1>8, <1>9, <1>10, <1>11, <1>12, <1>13, <1>14 DEF Download

(* The second attempt has less before it than the prompt.                   *)
LEMMA SecondAttempt ==
  ASSUME IInv, NEW p \in Procs, NEW c, NEW pasted, NEW save, Answer(p, c, pasted, save)
  PROVE  \A q \in Procs : Descends(q)
<1>1. /\ at[p] = "prompt" /\ at' = [at EXCEPT ![p] = Entry(command[p])]
      /\ retried' = [retried EXCEPT ![p] = TRUE] /\ DOMAIN retried = Procs /\ DOMAIN at = Procs
  BY DEF Answer, Continue, Go, IInv, Shape, TypeOK
<1>2. command[p] \in Commands
  BY <1>1 DEF IInv, Fine, Sound, Live
<1>3. Entry(command[p]) \in {"connect", "compile", "look", "session"}
  BY <1>2, CommandAssumption DEF Entry
<1>4. Left(p)' = Distance[Entry(command[p])] /\ Left(p) = Distance["prompt"]
  BY <1>1 DEF Left
<1>5. Left(p)' < Left(p)
  BY <1>3, <1>4 DEF Distance
<1>6. \A q \in Procs : q # p => at'[q] = at[q] /\ retried'[q] = retried[q]
  BY <1>1
<1>7. at'[p] # at[p]
  BY <1>1, <1>3
<1> QED
  BY <1>5, <1>6, <1>7 DEF Descends

(* Every step takes from what is left of the command that makes it.         *)
LEMMA NextDescends == ASSUME IInv, [Next]_vars PROVE \A q \in Procs : Descends(q)
<1>1. CASE UNCHANGED vars
  BY <1>1 DEF vars, process, Descends
<1>2. ASSUME NEW p \in Procs, NEW c \in Commands, NEW exported \in Exported, Start(p, c, exported)
      PROVE  \A q \in Procs : Descends(q)
  <2>1. ~Live(p) /\ \A q \in Procs : q # p => at'[q] = at[q] /\ retried'[q] = retried[q]
    BY <1>2 DEF Start, Go, IInv, Shape, TypeOK
  <2> QED
    BY <2>1 DEF Descends
<1>3. ASSUME NEW p \in Procs, Kill(p) \/ Decline(p)
      PROVE  \A q \in Procs : Descends(q)
  <2>1. Live(p) /\ at' = [at EXCEPT ![p] = "off"] /\ retried' = retried /\ "off" \in Stages
    BY <1>3 DEF Kill, Decline, Return, Go, Live, Stages
  <2> QED
    BY <2>1, WithinAttempt DEF Nearer
<1>4. ASSUME NEW p \in Procs,
             \/ Look(p) \/ LookOnnx(p) \/ Download(p) \/ Compile(p)
             \/ Save(p) \/ Session(p) \/ Source(p) \/ Export(p),
             retried' = retried
      PROVE  \A q \in Procs : Descends(q)
  BY <1>4, Leads, WithinAttempt DEF Moves
<1>5. ASSUME NEW p \in Procs, Advance(p)
      PROVE  \A q \in Procs : Descends(q)
  BY <1>3, <1>4, <1>5, SecondAttempt DEF Advance
<1> QED
  BY <1>1, <1>2, <1>3, <1>5 DEF Next

(* Each call of a command leaves fewer to make, in every shell and whatever *)
(* the others do (cli.py:574-609, 634-646): with fairness, Terminates.      *)
THEOREM StepsRunOut == Spec => EachStepDescends
<1>1. IInv /\ [Next]_vars =>
        [\A p \in Procs : Live(p) =>
           IF at'[p] = at[p] THEN retried'[p] = retried[p] ELSE Left(p)' < Left(p)]_vars
  BY NextDescends DEF Descends
<1> QED
  BY <1>1, Inductive, PTL DEF Spec, EachStepDescends

=============================================================================
