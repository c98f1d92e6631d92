------------------------------- MODULE Pipeline -------------------------------
(***************************************************************************)
(* The command line over a work directory: main, which loads .env, runs a  *)
(* command and on an authentication failure prompts for credentials and    *)
(* runs it once more, and the commands download-model, compile-model,      *)
(* pipeline, forecast, ensemble and inspect.  Invocations may share the    *)
(* directory (by default the user's cache), follow one another, fail and   *)
(* be killed.                                                              *)
(*                                                                         *)
(* A model file is Missing, Torn (opened for writing and not finished) or  *)
(* stands for the parameters in it.                                        *)
(***************************************************************************)
EXTENDS Integers, FiniteSets

CONSTANTS
  Procs,          \* shells
  Commands,       \* [name, target, weights, open]: the file to download, what its
                  \* URL serves, whether its source asks for no credential
  Credentials,    \* what a user may type
  Exported,       \* what a shell may export, or None
  Good,           \* the one the data source accepts
  MaxInvocations, \* bound
  KeyPath,        \* the path of gcp_credentials.json
  Missing, Torn, None

ASSUME CommandAssumption ==
  /\ \A c \in Commands :
       /\ c.name \in {"download-model", "compile-model", "pipeline", "forecast",
                     "ensemble", "inspect"}
       /\ c.target \in {"pkl", "onnx"}
       /\ c.weights \notin {Missing, Torn}
       /\ c.open \in BOOLEAN
  /\ Good \in Credentials /\ Exported \subseteq Credentials \cup {None}
  /\ Credentials \cap {None, KeyPath} = {} /\ None # KeyPath

VARIABLES
  file,       \* model.pkl and model.onnx
  envFile,    \* what the last line of .env that names a credential says, or None
  keyFile,    \* the credential in gcp_credentials.json, or None
  started,    \* invocations so far
  at,         \* where each shell's command is, "off" when none runs
  command,
  env,        \* what the process environment says
  retried,    \* whether this is the second attempt
  params,     \* the parameters convert_to_onnx has read
  failure,    \* the last exception of the attempt: "write", "save", "refused" (by the
              \* source), "export" (for its arguments), or "other"
  before,     \* the files, .env and its credential when the command began
  alone       \* no other invocation has run in the meantime

process == <<at, command, env, retried, params, failure>>
vars == <<file, envFile, keyFile, started, process, before, alone>>

Readable(x) == x \notin {Missing, Torn}

(* A credential is given in place or as the path of the key file.           *)
Credential(x) == IF x = KeyPath THEN keyFile ELSE x

Live(p) == at[p] # "off"

Name(p) == command[p].name

Target(p) == command[p].target

Go(p, where) == at' = [at EXCEPT ![p] = where]

Store(f, x) == file' = [file EXCEPT ![f] = x]

NoStart == UNCHANGED <<started, before, alone, command>>

-----------------------------------------------------------------------------
(* Plausible slips, each the body of one definition below.                  *)

RetryAlways(p) == TRUE

NeverThere(f) == FALSE

TornBeforeConnect(p) ==
  \/ at[p] = "connect" /\ Go(p, "write") /\ Store(Target(p), Torn) /\ UNCHANGED failure
  \/ /\ at[p] = "write" /\ Go(p, "prompt")
     /\ failure' = [failure EXCEPT ![p] = "other"] /\ UNCHANGED file

ExportedWins(exported) == IF exported = None THEN envFile ELSE exported

-----------------------------------------------------------------------------

Init ==
  /\ file = [f \in {"pkl", "onnx"} |-> Missing]
  /\ envFile = None /\ keyFile = None
  /\ started = 0
  /\ at = [p \in Procs |-> "off"]
  /\ command = [p \in Procs |-> CHOOSE c \in Commands : TRUE]
  /\ env = [p \in Procs |-> None]
  /\ retried = [p \in Procs |-> FALSE]
  /\ params = [p \in Procs |-> None]
  /\ failure = [p \in Procs |-> "other"]
  /\ before = [p \in Procs |-> [file |-> file, envFile |-> None, saved |-> None]]
  /\ alone = [p \in Procs |-> TRUE]

(* Where args.func(args) begins; steps is at least 1.                       *)
Entry(c) ==
  CASE c.name = "download-model" -> "connect"
    [] c.name = "compile-model" -> "compile"
    [] c.name = "pipeline" -> "look"
    [] c.name \in {"forecast", "ensemble", "inspect"} -> "session"

(* load_env_file: a line of .env replaces what the user exported.           *)
LoadEnv(exported) == IF envFile = None THEN exported ELSE envFile

Start(p, c, exported) ==
  /\ ~Live(p) /\ started < MaxInvocations
  /\ started' = started + 1
  /\ Go(p, Entry(c))
  /\ command' = [command EXCEPT ![p] = c]
  /\ env' = [env EXCEPT ![p] = LoadEnv(exported)]
  /\ retried' = [retried EXCEPT ![p] = FALSE]
  /\ params' = [params EXCEPT ![p] = None]
  /\ failure' = [failure EXCEPT ![p] = "other"]
  /\ before' = [before EXCEPT ![p] = [file |-> file, envFile |-> envFile,
                                          saved |-> Credential(envFile)]]
  /\ alone' = [q \in Procs |-> q = p /\ \A o \in Procs : ~Live(o)]
  /\ UNCHANGED <<file, envFile, keyFile>>

(* An exception reaches main.  Only the first attempt is inside the try     *)
(* whose handler prompts.  Any exception is taken for one of authentication *)
(* when its text, or a path in it, holds one of a few words, among them     *)
(* "auth".                                                                  *)
MayRetry(p) == ~retried[p]

RaiseAs(p, what, authentication) ==
  /\ failure' = [failure EXCEPT ![p] = what]
  /\ Go(p, IF authentication /\ MayRetry(p) THEN "prompt" ELSE "off")

Raise(p, what) == \E authentication \in BOOLEAN : RaiseAs(p, what, authentication)

Return(p) == Go(p, "off") /\ UNCHANGED failure

Continue(p, where) == Go(p, where) /\ UNCHANGED failure

-----------------------------------------------------------------------------
(* The pipeline makes its work directory, which may raise, and looks for    *)
(* the files it would make before it makes them.                            *)

Exists(f) == file[f] # Missing

AfterTarget(p) == IF Target(p) = "onnx" THEN "session" ELSE "lookOnnx"

Look(p) ==
  /\ at[p] = "look"
  /\ \/ Continue(p, IF Exists(Target(p)) THEN AfterTarget(p) ELSE "connect")
     \/ Raise(p, "other")
  /\ UNCHANGED file

LookOnnx(p) ==
  /\ at[p] = "lookOnnx"
  /\ Continue(p, IF Exists("onnx") THEN "session" ELSE "compile")
  /\ UNCHANGED file

(* download_file: urlopen may raise, for want of authority or else; only    *)
(* then is the file opened, which empties it; the response is read whole    *)
(* and written, or not.                                                     *)
Connect(p) ==
  /\ at[p] = "connect"
  /\ \/ Continue(p, "write") /\ Store(Target(p), Torn)
     \/ Raise(p, "other") /\ UNCHANGED file

(* What a file holds when p has written x: another process that wrote since *)
(* p opened it may leave a longer rest, or write over it.                   *)
AsWritten(p, f, x) == IF file[f] = Torn \/ alone[p] THEN {x} ELSE {x, Torn}

Write(p) ==
  /\ at[p] = "write"
  /\ \/ /\ \E x \in AsWritten(p, Target(p), command[p].weights) : Store(Target(p), x)
        /\ IF Name(p) = "pipeline" THEN Continue(p, AfterTarget(p)) ELSE Return(p)
     \/ Raise(p, "write") /\ Store(Target(p), Torn)

(* convert_to_onnx: unpickling a torn file raises, and so may the export;   *)
(* the ONNX file is opened last.                                            *)
Compile(p) ==
  /\ at[p] = "compile"
  /\ \/ /\ Readable(file["pkl"])
        /\ params' = [params EXCEPT ![p] = file["pkl"]]
        /\ Continue(p, "save") /\ Store("onnx", Torn)
     \/ Raise(p, "other") /\ UNCHANGED <<file, params>>

Save(p) ==
  /\ at[p] = "save"
  /\ \/ /\ \E x \in AsWritten(p, "onnx", params[p]) : Store("onnx", x)
        /\ IF Name(p) = "pipeline" THEN Continue(p, "session") ELSE Return(p)
     \/ Raise(p, "save") /\ Store("onnx", Torn)

(* The model is built, and but for inspect the adapter of the source, which *)
(* only keeps its arguments.  An ensemble may have refused its numbers      *)
(* before, and refuses its other options after.                             *)
AfterSession(p) == IF Name(p) = "ensemble" THEN "source" ELSE "export"

Session(p) ==
  /\ at[p] = "session"
  /\ \/ /\ Readable(file["onnx"])
        /\ IF Name(p) = "inspect" THEN Return(p) ELSE Continue(p, AfterSession(p))
     \/ Raise(p, "other")
  /\ UNCHANGED file

(* The export is called with args.start_time, an option the pipeline's      *)
(* parser does not define: an AttributeError, whose text holds none of the  *)
(* words.  Otherwise it may refuse its arguments.                           *)
HasStartTime(p) == Name(p) # "pipeline"

Export(p) ==
  /\ at[p] = "export"
  /\ \/ HasStartTime(p) /\ (Continue(p, "source") \/ Raise(p, "other"))
     \/ ~HasStartTime(p) /\ RaiseAs(p, "export", FALSE)
  /\ UNCHANGED file

(* The adapter loads, with the credential in the environment unless its     *)
(* source is open to all; the rollout and the export, or the ensemble and   *)
(* its files, follow and may raise too.                                     *)
Accepts(p) == command[p].open \/ Credential(env[p]) = Good

Source(p) ==
  /\ at[p] = "source"
  /\ \/ Accepts(p) /\ Return(p)
     \/ ~Accepts(p) /\ Raise(p, "refused")
     \/ Raise(p, "other")
  /\ UNCHANGED file

-----------------------------------------------------------------------------

(* prompt_for_credentials: the user declines, or types a credential that is *)
(* put into the environment and, if wanted, appended to .env; the command   *)
(* then starts again, and reads none of the arguments a first attempt of    *)
(* the pipeline wrote before it has written them anew.  A key for Google    *)
(* Cloud may be pasted: it goes into the key file, and its path stands for  *)
(* it.                                                                      *)
Decline(p) ==
  /\ at[p] = "prompt"
  /\ Return(p)
  /\ UNCHANGED <<file, envFile, keyFile, env, retried, params>> /\ NoStart

KeyAfter(credential, pasted) == IF pasted THEN credential ELSE keyFile

Answer(p, credential, pasted, save) ==
  LET given == IF pasted THEN KeyPath ELSE credential IN
  /\ at[p] = "prompt"
  /\ keyFile' = KeyAfter(credential, pasted)
  /\ env' = [env EXCEPT ![p] = given]
  /\ envFile' = IF save THEN given ELSE envFile
  /\ retried' = [retried EXCEPT ![p] = TRUE]
  /\ Go(p, Entry(command[p])) /\ failure' = [failure EXCEPT ![p] = "other"]
  /\ UNCHANGED <<file, params>> /\ NoStart

(* The process is killed; what it was writing stays torn.                   *)
Kill(p) ==
  /\ Live(p)
  /\ Go(p, "off") /\ failure' = [failure EXCEPT ![p] = "other"]
  /\ UNCHANGED <<file, envFile, keyFile, env, retried, params>> /\ NoStart

Download(p) == Connect(p) \/ Write(p)

Advance(p) ==
  \/ /\ \/ Look(p) \/ LookOnnx(p) \/ Download(p)
        \/ Save(p) \/ Session(p) \/ Source(p) \/ Export(p)
     /\ UNCHANGED <<envFile, keyFile, env, retried, params>> /\ NoStart
  \/ Compile(p) /\ UNCHANGED <<envFile, keyFile, env, retried>> /\ NoStart
  \/ Decline(p)
  \/ \E c \in Credentials, pasted, save \in BOOLEAN : Answer(p, c, pasted, save)

Next ==
  \E p \in Procs :
    \/ \E c \in Commands, exported \in Exported : Start(p, c, exported)
    \/ Advance(p)
    \/ Kill(p)

(* Every call a command waits for returns or raises, and the user answers.  *)
Spec == Init /\ [][Next]_vars /\ \A p \in Procs : WF_vars(Advance(p))

-----------------------------------------------------------------------------

(* The variables have their types, and nobody is prompted twice.            *)
TypeOK ==
  LET Contents == {Missing, Torn} \cup {c.weights : c \in Commands} IN
  /\ file \in [{"pkl", "onnx"} -> Contents]
  /\ envFile \in Credentials \cup {None, KeyPath}
  /\ keyFile \in Credentials \cup {None}
  /\ env \in [Procs -> Credentials \cup {None, KeyPath}]
  /\ keyFile = None => envFile # KeyPath /\ \A p \in Procs : env[p] # KeyPath
  /\ at \in [Procs -> {"off", "look", "lookOnnx", "connect", "write", "compile", "save",
                       "session", "source", "export", "prompt"}]
  /\ \A p \in Procs : at[p] = "prompt" => ~retried[p]
  /\ \A p \in Procs : at[p] = "save" => Readable(params[p])

(* How many calls a command may still make, through a prompt and a second   *)
(* attempt.                                                                 *)
Distance ==
  [off |-> 0, source |-> 1, export |-> 2, session |-> 3, save |-> 4, compile |-> 5,
   lookOnnx |-> 6, write |-> 7, connect |-> 8, look |-> 9, prompt |-> 10]

Left(p) ==
  IF at[p] = "off" \/ at[p] = "prompt" \/ retried[p] THEN Distance[at[p]]
  ELSE Distance["prompt"] + Distance[at[p]]

(* No step of a command repeats one, neither in an attempt nor by a second  *)
(* prompt, and no step of another command takes it back: what is left gets  *)
(* less with each (cli.py:574-609, 634-646).                                *)
EachStepDescends ==
  [][\A p \in Procs : Live(p) =>
       IF at'[p] = at[p] THEN retried'[p] = retried[p] ELSE Left(p)' < Left(p)]_vars

(* Every command comes to an end: the second attempt is the last            *)
(* (cli.py:634-646).                                                        *)
Terminates == \A p \in Procs : Live(p) ~> ~Live(p)

(* A pipeline run, however it fails and even when it starts over, leaves a  *)
(* file that was there as it was.  So it never spoils a whole model, and it *)
(* never repairs one an interrupted download left torn: that takes          *)
(* download-model or compile-model (cli.py:576-580, 585-592).               *)
PipelineKeepsFiles ==
  \A p \in Procs : (Live(p) /\ Name(p) = "pipeline" /\ alone[p]) =>
    \A f \in {"pkl", "onnx"} :
      before[p].file[f] # Missing => file[f] = before[p].file[f]

(* A command that stands at the prompt, whatever exception led there, has   *)
(* torn no file but the one whose writing raised: a URL is opened before    *)
(* the file is, a conversion opens its file last, and the source is asked   *)
(* when the model is whole (utils.py:25-27, cli.py:406, 433, 639).          *)
OnlyFailedWriteTears ==
  \A p \in Procs : (at[p] = "prompt" /\ alone[p]) =>
    \A f \in {"pkl", "onnx"} : file[f] = Torn =>
      \/ before[p].file[f] = Torn
      \/ failure[p] = "write" /\ f = Target(p)
      \/ failure[p] = "save" /\ f = "onnx"

(* Once .env leads to a credential the source accepts, the source refuses   *)
(* no later command before it has prompted, whatever its shell exports,     *)
(* unless another command changes the key file under it (utils.py:31-42,    *)
(* 73-76).                                                                  *)
SavedCredentialIsUsed ==
  \A p \in Procs :
    (~retried[p] /\ before[p].saved = Good /\ (before[p].envFile # KeyPath \/ alone[p])) =>
      failure[p] # "refused"

(* utils.py:101 tells a user who does not save that the credentials are     *)
(* applied for this session only: what later sessions will use stays.       *)
SessionOnly ==
  [][\A p \in Procs, c \in Credentials, pasted \in BOOLEAN :
       Answer(p, c, pasted, FALSE) => Credential(envFile)' = Credential(envFile)]_vars

(* docs_src/intro/quickstart-cli.md:124 promises the whole workflow in one  *)
(* execution.  A download, a conversion, a session or a source may fail;    *)
(* between the session and the source nothing is there to fail.             *)
PipelineCompletes ==
  \A p \in Procs : (~Live(p) /\ Name(p) = "pipeline") => failure[p] # "export"

=============================================================================
