------------------------------ MODULE Migrate ------------------------------
(***************************************************************************)
(* Runs of uap-migrate that share an output directory.  A run looks for    *)
(* the card of its issuer, asks the MCP server for its tools (or reads an  *)
(* A2A card), signs a card and writes it.  Runs may overlap, and a run may *)
(* be killed at any time.                                                  *)
(*                                                                         *)
(* The MCP server, the file system and the A2A cards are external.  The    *)
(* length of a card depends on the run that wrote it.                      *)
(***************************************************************************)
EXTENDS Integers

CONSTANTS
  Runs,         \* runs of uap-migrate
  Names,        \* issuers, and names of A2A agents: the names of the card files
  None          \* no file

ASSUME ConstantsAssumption == {None, "empty", "torn"} \cap Runs = {} /\ None \notin {"empty", "torn"}

VARIABLES
  command,      \* run -> "mcp" or "a2a"
  issuer,       \* run -> --issuer, or its default
  agent,        \* run -> the name in the A2A card
  file,         \* name -> the run whose card is in the file; "empty"; "torn": a
                \* card that is cut short or followed by the rest of another; or None
  place,        \* run -> where it is
  broken,       \* run -> whether it was killed, or failed, amid writing (history)
  shared        \* the files that two runs had open at once (history)

options == <<command, issuer, agent>>
vars == <<options, file, place, broken, shared>>

\* The exit codes: "zero" with MIGRATION_SKIPPED or MIGRATION_COMPLETED, "one" with
\* MIGRATION_FAILED.
Places == {"idle", "build", "write", "disconnect", "zero", "one", "killed"}

Running == {"build", "write", "disconnect"}

\* Every run is somewhere on its way, and every file holds one card or rubbish.
TypeOK ==
  /\ command \in [Runs -> {"mcp", "a2a"}]
  /\ issuer \in [Runs -> Names]
  /\ agent \in [Runs -> Names]
  /\ file \in [Names -> Runs \cup {"empty", "torn", None}]
  /\ place \in [Runs -> Places]
  /\ broken \in [Runs -> BOOLEAN]
  /\ shared \in SUBSET Names

\* The file that a run writes is named for its card's issuer: the name in the A2A card,
\* which need not be that of the file it looked for, or --issuer.
Output(r) == IF command[r] = "a2a" THEN agent[r] ELSE issuer[r]

Init ==
  /\ command \in [Runs -> {"mcp", "a2a"}]
  /\ issuer \in [Runs -> Names]
  /\ agent \in [Runs -> Names]
  /\ \A r \in Runs : command[r] = "mcp" => agent[r] = issuer[r]
  /\ file = [n \in Names |-> None]
  /\ place = [r \in Runs |-> "idle"]
  /\ broken = [r \in Runs |-> FALSE]
  /\ shared = {}

Goto(r, where) == place' = [place EXCEPT ![r] = where]

\* Mutant: the file is not looked for.
BeginAlways(r) ==
  /\ place[r] = "idle"
  /\ Goto(r, "build")
  /\ UNCHANGED <<options, file, broken, shared>>

\* A run ends at once if the card file of its issuer exists, whatever is in it.
Begin(r) ==
  /\ place[r] = "idle"
  /\ Goto(r, IF file[issuer[r]] # None THEN "zero" ELSE "build")
  /\ UNCHANGED <<options, file, broken, shared>>

\* Mutant: a timeout of the MCP server is only logged.
BuildFailsLogged(r) == place[r] = "build" /\ UNCHANGED vars

\* The key or the A2A card cannot be read, the server is not there, fails or does not
\* answer within 10 and 15 seconds, or the directory or the file cannot be made.
BuildFails(r) ==
  /\ place[r] = "build"
  /\ Goto(r, "one")
  /\ UNCHANGED <<options, file, broken, shared>>

\* The runs that have file n open.
Writers(n) == {r \in Runs : place[r] = "write" /\ Output(r) = n}

\* The card is signed; writeFileSync opens the file and empties it.
Open(r) ==
  /\ place[r] = "build"
  /\ Goto(r, "write")
  /\ file' = [file EXCEPT ![Output(r)] = "empty"]
  /\ shared' = IF Writers(Output(r)) = {} THEN shared ELSE shared \cup {Output(r)}
  /\ UNCHANGED <<options, broken>>

\* writeFileSync writes the card from the start of the file.  What another run wrote
\* there since remains after its end if it is longer.
Write(r) ==
  /\ place[r] = "write"
  /\ \/ file' = [file EXCEPT ![Output(r)] = r]
     \/ file[Output(r)] # "empty" /\ file' = [file EXCEPT ![Output(r)] = "torn"]
  /\ Goto(r, IF command[r] = "mcp" THEN "disconnect" ELSE "zero")
  /\ UNCHANGED <<options, broken, shared>>

\* Mutant: an error of writeFileSync is ignored.
WriteFailsSilently(r) ==
  /\ place[r] = "write"
  /\ file' = [file EXCEPT ![Output(r)] = "torn"]
  /\ Goto(r, IF command[r] = "mcp" THEN "disconnect" ELSE "zero")
  /\ UNCHANGED <<options, broken, shared>>

\* The disk is full: what was written of the card stays.
WriteFails(r) ==
  /\ place[r] = "write"
  /\ file' = [file EXCEPT ![Output(r)] = "torn"]
  /\ Goto(r, "one")
  /\ broken' = [broken EXCEPT ![r] = TRUE]
  /\ UNCHANGED <<options, shared>>

\* Mutant: a bridge that cannot be closed is left alone, and the run with it.
DisconnectLeft(r) ==
  /\ place[r] = "disconnect"
  /\ \E code \in {"zero", "left"} : Goto(r, code)
  /\ UNCHANGED <<options, file, broken, shared>>

\* bridge.disconnect: if it fails, a run that reported success ends with 1.
Disconnect(r) ==
  /\ place[r] = "disconnect"
  /\ \E code \in {"zero", "one"} : Goto(r, code)
  /\ UNCHANGED <<options, file, broken, shared>>

Kill(r) ==
  /\ place[r] \in Running
  /\ Goto(r, "killed")
  /\ \/ UNCHANGED file
     \/ place[r] = "write" /\ file' = [file EXCEPT ![Output(r)] = "torn"]
  /\ broken' = [broken EXCEPT ![r] = broken[r] \/ place[r] = "write"]
  /\ UNCHANGED <<options, shared>>

Step(r) == Begin(r) \/ BuildFails(r) \/ Open(r) \/ Write(r) \/ WriteFails(r) \/ Disconnect(r)

Next == \E r \in Runs : Step(r) \/ Kill(r)

Spec == Init /\ [][Next]_vars

\* The requests to the MCP server and the closing of its process have time limits;
\* the rest of a run only waits for the disk.
FairSpec ==
  /\ Spec
  /\ \A r \in Runs : WF_vars(BuildFails(r)) /\ WF_vars(Write(r) \/ WriteFails(r)) /\ WF_vars(Disconnect(r))

-----------------------------------------------------------------------------
(* Properties *)

\* The file of n exists, whatever is in it, and no run that might write it is on its way.
Settled(n) ==
  file[n] # None /\ \A r \in Runs : Output(r) = n => place[r] \notin {"build", "write"}

\* Run r is of the a2a command and does not look for the file that it writes.
Astray(r) == command[r] = "a2a" /\ agent[r] # issuer[r]

\* To migrate a server again is a no-op: once its file is there and the runs that began
\* before have ended, the file stays as it is, a partial card included, and no run sets out
\* to write it, however runs overlap; but for a run of the a2a command whose --issuer is
\* not the agent's name.
NoOpWhenMigrated ==
  [][\A n \in Names : Settled(n) =>
       /\ file'[n] = file[n]
       /\ \/ Settled(n)'
          \/ \E r \in Runs : Astray(r) /\ Output(r) = n /\ place[r] = "idle" /\ place'[r] = "build"]_vars

\* What exit code 0 tells: there is a file, that was looked for or that was written.  It
\* does not tell that a card is in it, but a file without a card has a cause: a run
\* is writing there, was killed or reported failure amid writing, or two runs had the file
\* open at once.  What such a file holds, every later run takes for a card.
ExitZero ==
  /\ \A r \in Runs : place[r] = "zero" => file[issuer[r]] # None \/ file[Output(r)] # None
  /\ \A n \in Names : file[n] \notin Runs \cup {None} =>
       n \in shared \/ \E r \in Runs : Output(r) = n /\ (place[r] = "write" \/ broken[r])

\* Every run ends, although the MCP server may never answer.
RunsEnd == \A r \in Runs : place[r] \in Running ~> place[r] \in {"zero", "one", "killed"}
=============================================================================
