-------------------------------- MODULE Cli --------------------------------
(***************************************************************************)
(* The administration thread.  A command is read in the loop of Cli(); the *)
(* commands that take data prompt for it in loops of the same form:        *)
(*   while (!NeedQuit) { if (InputAvailable) { fgets; break; } sleep; }    *)
(* and then run on with whatever userInput holds, whichever way the loop   *)
(* was left.  A text is a value, not characters: the operator types names, *)
(* object identifiers and options from small disjoint sets.                *)
(***************************************************************************)
EXTENDS Process, UserStore

CONSTANTS
  Oids,           \* object identifiers bson_oid_init may generate (a bound)
  Names,          \* user names the operator types
  ServiceNames,   \* service names the operator types
  Commands,       \* commands the operator types in a run
  InitialUsers    \* contents of usercol the process may find at its start

VARIABLES
  cliPc,          \* the loop, prompt or driver call the thread is in
  cliAt,          \* inside a polling loop: test, quit, poll, fgets
  userInput,      \* the buffer of the command being executed
  userOid,        \* the _id in the query of updateUser
  stdin,          \* what waits on standard input
  usercol, servcol, usedOids

cliVars == <<cliPc, cliAt, userInput, userOid, stdin>>
dbVars == <<usercol, servcol, usedOids>>

\* Where a command line takes the loop: a prompt, a listing, or round again.
CommandTable ==
  [exit |-> "done", help |-> "loop", adduser |-> "addUser",
   updateuser |-> "updateUser", deluser |-> "deleteUser",
   addservice |-> "AddService", delservice |-> "DelService",
   showusers |-> "list", showservices |-> "list", unknown |-> "loop"]

Prompts == {"addUser", "AddService", "deleteUser", "DelService",
            "updateUser", "option", "serviceToAdd", "serviceToRemove"}

CliCalls == {"insertUser", "insertService", "removeUser", "removeService",
             "findUser", "addToSet", "pull", "list"}

\* "cut" stands for a text that has lost its last character.
Options == {"add", "remove", "other"}
Texts == Names \cup ServiceNames \cup Oids \cup Options \cup {"", "cut"}

ASSUME CliAssumption ==
  /\ Commands \subseteq DOMAIN CommandTable
  /\ InitialUsers \subseteq Seq(UserDocs(Oids, Names, ServiceNames))
  /\ NoServices \notin Seq(Texts)
  /\ (Names \cup ServiceNames) \cap (Oids \cup Options \cup {"", "cut"}) = {}

CliTypeOK ==
  /\ cliPc \in {"off", "loop", "done"} \cup Prompts \cup CliCalls
  /\ cliAt \in {"test", "quit", "poll", "fgets"}
  /\ userInput \in Texts
  /\ userOid \in Texts
  /\ stdin \in {"idle", "partial", "line", "eof"}
  /\ usercol \in Seq(UserDocs(Oids, Texts, Texts))
  /\ servcol \in Seq(ServiceDocs(Oids, Texts))
  /\ usedOids \subseteq Oids

CliInit ==
  /\ cliPc = "off"
  /\ cliAt = "test"
  /\ userInput = ""
  /\ userOid = ""
  /\ stdin = "idle"
  /\ usercol \in InitialUsers
  /\ servcol = <<>>
  /\ usedOids = {usercol[i].oid : i \in DOMAIN usercol}

-----------------------------------------------------------------------------
\* Back in the loop of Cli(): the locals of the command are gone.
Return ==
  /\ cliPc' = "loop"
  /\ cliAt' = "test"
  /\ userInput' = ""
  /\ userOid' = ""

\* The code after the polling loop of a prompt, which runs with the buffer
\* as it is: where it goes next.
CallAfter ==
  [addUser |-> "insertUser", AddService |-> "insertService",
   deleteUser |-> "removeUser", DelService |-> "removeService",
   updateUser |-> "findUser", serviceToAdd |-> "addToSet",
   serviceToRemove |-> "pull"]

AfterPrompt(prompt, text) ==
  IF prompt # "option" THEN CallAfter[prompt]
  ELSE IF text = "add" THEN "serviceToAdd"
  ELSE IF text = "remove" THEN "serviceToRemove"
  ELSE "loop"

LeavePrompt(text) ==
  IF AfterPrompt(cliPc, text) = "loop"
    THEN Return
    ELSE /\ cliPc' = AfterPrompt(cliPc, text)
         /\ cliAt' = "test"
         /\ userInput' = text
         /\ userOid' = IF cliPc = "updateUser" THEN text ELSE userOid

\* What the operator answers to a prompt (any line would do; these tell the
\* branches apart).
Typed(prompt) ==
  CASE prompt = "addUser" -> Names
    [] prompt \in {"AddService", "serviceToAdd", "serviceToRemove"} -> ServiceNames
    [] prompt = "option" -> Options
    [] OTHER -> Oids

\* At the end of file fgets leaves the buffer alone, and the statement that
\* removes the newline removes the last character of what was there.
Cut(text) == IF text = "" THEN "" ELSE "cut"

InPolling == cliPc \in {"loop"} \cup Prompts

-----------------------------------------------------------------------------
\* NeedQuit: pthread_mutex_trylock gives EBUSY, the loop goes on.
CliStays ==
  /\ InPolling /\ cliAt = "test" /\ Busy
  /\ cliAt' = "poll"
  /\ UNCHANGED <<cliPc, userInput, userOid, stdin, dbVars, processVars>>

\* NeedQuit: pthread_mutex_trylock succeeds.
CliGetsStopper ==
  /\ InPolling /\ cliAt = "test" /\ TryLock("cli")
  /\ cliAt' = "quit"
  /\ UNCHANGED <<cliPc, userInput, userOid, stdin, dbVars,
                 proc, masked, pending, handles>>

\* NeedQuit unlocks and returns 1: the loop of Cli() ends the thread, a
\* prompt carries on with the command.
CliSeesQuit ==
  /\ InPolling /\ cliAt = "quit"
  /\ Unlock
  /\ IF cliPc = "loop"
       THEN /\ cliPc' = "done" /\ cliAt' = "test"
            /\ UNCHANGED <<userInput, userOid>>
       ELSE LeavePrompt(userInput)
  /\ UNCHANGED <<stdin, dbVars, proc, masked, pending, handles>>

\* Variant: the break of a prompt stands outside the test of InputAvailable.
CliBreaksWithoutInput ==
  /\ InPolling /\ cliAt = "poll" /\ stdin = "idle"
  /\ IF cliPc = "loop" THEN Return ELSE LeavePrompt(userInput)
  /\ UNCHANGED <<stdin, dbVars, processVars>>

\* InputAvailable finds nothing: sleep and test again.
CliSleeps ==
  /\ InPolling /\ cliAt = "poll" /\ stdin = "idle"
  /\ cliAt' = "test"
  /\ UNCHANGED <<cliPc, userInput, userOid, stdin, dbVars, processVars>>

\* select() reports input that is not yet a line: fgets waits for the rest.
CliBlocksInFgets ==
  /\ InPolling /\ cliAt = "poll" /\ stdin = "partial"
  /\ cliAt' = "fgets"
  /\ UNCHANGED <<cliPc, userInput, userOid, stdin, dbVars, processVars>>

LineRead == cliAt \in {"poll", "fgets"} /\ stdin = "line" /\ stdin' = "idle"

\* A command line.  A command that inserts is typed only while the bound on
\* generated identifiers leaves one.
CliReadsCommand ==
  /\ cliPc = "loop" /\ LineRead
  /\ \E command \in Commands :
       /\ CommandTable[command] \in {"addUser", "AddService"} => usedOids # Oids
       /\ cliPc' = CommandTable[command]
       /\ IF command = "exit" THEN Raise("USR1") ELSE UNCHANGED <<proc, pending>>
  /\ cliAt' = "test"
  /\ UNCHANGED <<userInput, userOid, dbVars, masked, stopper, handles>>

\* The answer to a prompt.
CliReadsAnswer ==
  /\ cliPc \in Prompts /\ LineRead
  /\ \E text \in Typed(cliPc) : LeavePrompt(text)
  /\ UNCHANGED <<dbVars, processVars>>

\* End of file is always "available".  In the loop the empty buffer is an
\* unknown command; a prompt goes on with the old buffer cut by one.
CliReadsEof ==
  /\ InPolling /\ cliAt = "poll" /\ stdin = "eof"
  /\ IF cliPc = "loop" THEN Return ELSE LeavePrompt(Cut(userInput))
  /\ UNCHANGED <<stdin, dbVars, processVars>>

-----------------------------------------------------------------------------
\* Driver calls.  One step is the call's completion with its effect; a call
\* that reports an error may still have taken effect on the server.  All but
\* the deletions print the error and finish as if it had not happened.

\* A write to a collection: the effect is lost only by a failing call.
Writes(coll, effect, racing) ==
  \/ coll' = effect
  \/ CallMayFail(racing) /\ coll' = coll

InsertUser(racing) ==
  /\ cliPc = "insertUser"
  /\ \E oid \in Oids \ usedOids :
       /\ usedOids' = usedOids \cup {oid}
       /\ Writes(usercol, Append(usercol, NewUser(oid, userInput)), racing)
  /\ Return
  /\ UNCHANGED <<stdin, servcol, processVars>>

InsertService(racing) ==
  /\ cliPc = "insertService"
  /\ \E oid \in Oids \ usedOids :
       /\ usedOids' = usedOids \cup {oid}
       /\ Writes(servcol, Append(servcol, NewService(oid, userInput)), racing)
  /\ Return
  /\ UNCHANGED <<stdin, usercol, processVars>>

\* A deletion that fails ends the process with exit(1).
ReturnOrExit(racing) ==
  \/ Return /\ UNCHANGED proc
  \/ /\ CallMayFail(racing)
     /\ proc' = "exited"
     /\ UNCHANGED <<cliPc, cliAt, userInput, userOid>>

RemoveUser(racing) ==
  /\ cliPc = "removeUser"
  /\ Writes(usercol, DeleteOne(usercol, userInput), racing)
  /\ ReturnOrExit(racing)
  /\ usercol' = DeleteOne(usercol, userInput) \/ proc' = "exited"
  /\ UNCHANGED <<stdin, servcol, usedOids, masked, pending, stopper, handles>>

RemoveService(racing) ==
  /\ cliPc = "removeService"
  /\ Writes(servcol, DeleteOne(servcol, userInput), racing)
  /\ ReturnOrExit(racing)
  /\ servcol' = DeleteOne(servcol, userInput) \/ proc' = "exited"
  /\ UNCHANGED <<stdin, usercol, usedOids, masked, pending, stopper, handles>>

\* updateUser looks the document up; a cursor in error yields none.
FindUser(racing) ==
  /\ cliPc = "findUser"
  /\ \/ /\ HasOid(usercol, userOid)
        /\ cliPc' = "option" /\ cliAt' = "test"
        /\ UNCHANGED <<userInput, userOid>>
     \/ ~HasOid(usercol, userOid) /\ Return
     \/ CallMayFail(racing) /\ Return
  /\ UNCHANGED <<stdin, dbVars, processVars>>

AddToServices(racing) ==
  /\ cliPc = "addToSet"
  /\ Writes(usercol, AddToSetOne(usercol, userOid, userInput), racing)
  /\ Return
  /\ UNCHANGED <<stdin, servcol, usedOids, processVars>>

PullFromServices(racing) ==
  /\ cliPc = "pull"
  /\ Writes(usercol, PullOne(usercol, userOid, userInput), racing)
  /\ Return
  /\ UNCHANGED <<stdin, servcol, usedOids, processVars>>

\* showUsers and ShowServices: a cursor is read to its end, or to an error.
List ==
  /\ cliPc = "list"
  /\ Return
  /\ UNCHANGED <<stdin, dbVars, processVars>>

CliCrashes(racing) ==
  /\ cliPc \in CliCalls /\ CallMayCrash(racing)
  /\ proc' = "crashed"
  /\ UNCHANGED <<cliVars, dbVars, masked, pending, stopper, handles>>

InCliCall == cliPc \in CliCalls

CliStep(racing) ==
  /\ Running
  /\ \/ CliStays \/ CliGetsStopper \/ CliSeesQuit \/ CliSleeps
     \/ CliBlocksInFgets \/ CliReadsCommand \/ CliReadsAnswer \/ CliReadsEof
     \/ InsertUser(racing) \/ InsertService(racing)
     \/ RemoveUser(racing) \/ RemoveService(racing)
     \/ FindUser(racing) \/ AddToServices(racing) \/ PullFromServices(racing)
     \/ List \/ CliCrashes(racing)

-----------------------------------------------------------------------------
\* The operator at the terminal.
OperatorTypesLine ==
  /\ Running /\ stdin \in {"idle", "partial"}
  /\ stdin' = "line"
  /\ UNCHANGED <<cliPc, cliAt, userInput, userOid, dbVars, processVars>>

OperatorTypesPart ==
  /\ Running /\ stdin = "idle"
  /\ stdin' = "partial"
  /\ UNCHANGED <<cliPc, cliAt, userInput, userOid, dbVars, processVars>>

OperatorEndsInput ==
  /\ Running /\ stdin = "idle"
  /\ stdin' = "eof"
  /\ UNCHANGED <<cliPc, cliAt, userInput, userOid, dbVars, processVars>>
=============================================================================
