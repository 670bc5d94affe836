--------------------------- MODULE Migrate_proofs ---------------------------
(***************************************************************************)
(* What Migrate promises, for any number of runs and names.                *)
(***************************************************************************)
EXTENDS Migrate, TLAPS

\* What is known of run r.
Fine(r) ==
  /\ place[r] = "disconnect" => file[Output(r)] # None
  /\ place[r] = "zero" => file[issuer[r]] # None \/ file[Output(r)] # None

\* A run is about to write to file n, or has stopped amid writing.
Unfinished(n) == \E r \in Runs : Output(r) = n /\ (place[r] = "write" \/ broken[r])

\* What is known of a file that no two runs have had open at once.
Unshared(n) ==
  /\ \A r, q \in Writers(n) : r = q
  /\ \A r \in Writers(n) : file[n] = "empty"
  /\ file[n] \notin Runs \cup {None} => Unfinished(n)

IInv ==
  /\ TypeOK
  /\ \A r \in Runs : Fine(r)
  /\ \A n \in Names \ shared : Unshared(n)

LEMMA OutputNamed == ASSUME TypeOK, NEW r \in Runs PROVE Output(r) \in Names
BY DEF TypeOK, Output

LEMMA OutputSame == ASSUME UNCHANGED options PROVE \A r : Output(r)' = Output(r)
BY DEF options, Output

LEMMA InitFine == Init => IInv
BY ConstantsAssumption DEF Init, IInv, TypeOK, Fine, Unshared, Unfinished, Writers, Places

LEMMA TypedStep == TypeOK /\ [Next]_vars => TypeOK'
<1> SUFFICES ASSUME TypeOK, [Next]_vars PROVE TypeOK'
  OBVIOUS
<1> USE DEF TypeOK, Places, Goto, options
<1>1. ASSUME NEW r \in Runs, Step(r) \/ Kill(r) PROVE TypeOK'
  <2>0. Output(r) \in Names
    BY OutputNamed
  <2>1. CASE Begin(r) \/ BuildFails(r) \/ Disconnect(r)
    BY <2>1 DEF Begin, BuildFails, Disconnect
  <2>2. CASE Open(r)
    BY <2>0, <2>2 DEF Open
  <2>3. CASE Write(r)
    BY <2>0, <2>3 DEF Write
  <2>4. CASE WriteFails(r)
    BY <2>0, <2>4 DEF WriteFails
  <2>5. CASE Kill(r)
    BY <2>0, <2>5 DEF Kill
  <2> QED
    BY <1>1, <2>1, <2>2, <2>3, <2>4, <2>5 DEF Step
<1>2. CASE UNCHANGED vars
  BY <1>2 DEF vars
<1> QED
  BY <1>1, <1>2 DEF Next

\* A step of run r: the places and the histories of the others stay, none is mended and no file goes.
LEMMA Others ==
  ASSUME TypeOK, NEW r \in Runs, Step(r) \/ Kill(r)
  PROVE  /\ UNCHANGED options
         /\ \A q \in Runs \ {r} : place'[q] = place[q] /\ broken'[q] = broken[q]
         /\ \A q \in Runs : broken[q] => broken'[q]
         /\ \A n \in Names : file[n] # None => file'[n] # None
         /\ \A n \in Names \ {Output(r)} : file'[n] = file[n]
         /\ shared \subseteq shared'
<1> USE DEF TypeOK, Goto
<1>0. Output(r) \in Names
  BY OutputNamed
<1>1. CASE Begin(r) \/ BuildFails(r) \/ Disconnect(r)
  BY <1>1 DEF Begin, BuildFails, Disconnect
<1>2. CASE Open(r)
  BY <1>0, <1>2, ConstantsAssumption DEF Open
<1>3. CASE Write(r) \/ WriteFails(r)
  BY <1>0, <1>3, ConstantsAssumption DEF Write, WriteFails
<1>4. CASE Kill(r)
  BY <1>0, <1>4, ConstantsAssumption DEF Kill
<1> QED
  BY <1>1, <1>2, <1>3, <1>4 DEF Step

LEMMA FineStep ==
  ASSUME IInv, NEW r \in Runs, Step(r) \/ Kill(r)
  PROVE  \A q \in Runs : Fine(q)'
<1> TypeOK /\ \A q \in Runs : Fine(q)
  BY DEF IInv
<1>0. \A q \in Runs : Output(q) \in Names /\ Output(q)' = Output(q) /\ issuer[q] \in Names
  BY Others, OutputNamed, OutputSame DEF TypeOK
<1>1. ASSUME NEW q \in Runs \ {r} PROVE Fine(q)'
  BY <1>0, <1>1, Others DEF Fine, options
<1>2. Fine(r)'
  <2> USE DEF TypeOK, Goto, Fine
  <2>1. CASE Begin(r)
    BY <2>1, <1>0, Others DEF Begin, options
  <2>2. CASE BuildFails(r)
    BY <2>2 DEF BuildFails
  <2>3. CASE Open(r)
    BY <2>3 DEF Open
  <2>4. CASE Write(r)
    <3>1. file'[Output(r)] # None
      BY <2>4, <1>0, ConstantsAssumption DEF Write
    <3>2. place'[r] \in {"disconnect", "zero"}
      BY <2>4 DEF Write
    <3> QED
      BY <3>1, <3>2, <1>0
  <2>5. CASE WriteFails(r)
    BY <2>5 DEF WriteFails
  <2>6. CASE Disconnect(r)
    <3>1. file'[Output(r)] # None /\ place'[r] \in {"zero", "one"}
      BY <2>6 DEF Disconnect
    <3> QED
      BY <3>1, <1>0
  <2>7. CASE Kill(r)
    BY <2>7 DEF Kill, Running
  <2> QED
    BY <2>1, <2>2, <2>3, <2>4, <2>5, <2>6, <2>7 DEF Step
<1> QED
  BY <1>1, <1>2

LEMMA UnsharedStep ==
  ASSUME IInv, NEW r \in Runs, Step(r) \/ Kill(r), NEW n \in Names \ shared'
  PROVE  Unshared(n)'
<1> TypeOK /\ n \notin shared /\ Unshared(n) /\ n \in Names
  BY Others DEF IInv
<1>0. \A q \in Runs : Output(q)' = Output(q)
  BY Others, OutputSame
<1> USE DEF TypeOK, Goto
\* Of a run that writes elsewhere, or does not write.
<1>1. ASSUME file'[n] = file[n], Output(r) = n => place[r] # "write" /\ place'[r] # "write"
      PROVE  Unshared(n)'
  <2>1. Writers(n)' = Writers(n)
    BY <1>0, <1>1, Others DEF Writers
  <2>2. Unfinished(n) => Unfinished(n)'
    BY <1>0, <1>1, Others DEF Unfinished
  <2> QED
    BY <1>1, <2>1, <2>2 DEF Unshared
<1>2. CASE Output(r) # n
  BY <1>1, <1>2, Others
<1>3. CASE Output(r) = n
  <2>1. CASE Begin(r) \/ BuildFails(r) \/ Disconnect(r)
    BY <1>1, <2>1 DEF Begin, BuildFails, Disconnect
  <2>2. CASE Open(r)
    <3>1. Writers(n) = {} /\ file'[n] = "empty" /\ place'[r] = "write"
      BY <1>3, <2>2 DEF Open
    <3>2. Writers(n)' = {r}
      BY <1>0, <1>3, <3>1, Others DEF Writers
    <3> QED
      BY <1>0, <1>3, <3>1, <3>2 DEF Unshared, Unfinished
  <2>3. CASE Write(r) \/ WriteFails(r)
    <3>1. r \in Writers(n) /\ place'[r] # "write"
      BY <1>3, <2>3 DEF Write, WriteFails, Writers
    <3>2. Writers(n)' = {}
      BY <1>0, <3>1, Others DEF Writers, Unshared
    <3>3. CASE Write(r)
      <4>1. file[n] = "empty"
        BY <3>1 DEF Unshared
      <4>2. file'[n] = r
        BY <1>3, <3>3, <4>1 DEF Write
      <4> QED
        BY <3>2, <4>2 DEF Unshared
    <3>4. CASE WriteFails(r)
      <4>1. broken'[r]
        BY <3>4 DEF WriteFails
      <4> QED
        BY <1>0, <1>3, <3>2, <4>1 DEF Unshared, Unfinished
    <3> QED
      BY <2>3, <3>3, <3>4
  <2>4. CASE Kill(r)
    <3>1. place'[r] = "killed"
      BY <2>4 DEF Kill
    <3>2. CASE place[r] = "write"
      <4>1. Writers(n)' = {}
        BY <1>0, <1>3, <3>1, <3>2, Others DEF Writers, Unshared
      <4>2. broken'[r]
        BY <2>4, <3>2 DEF Kill
      <4> QED
        BY <1>0, <1>3, <4>1, <4>2 DEF Unshared, Unfinished
    <3>3. CASE place[r] # "write"
      BY <1>1, <2>4, <3>1, <3>3 DEF Kill
    <3> QED
      BY <3>2, <3>3
  <2> QED
    BY <2>1, <2>2, <2>3, <2>4 DEF Step
<1> QED
  BY <1>2, <1>3

LEMMA InvStep == IInv /\ [Next]_vars => IInv'
<1> SUFFICES ASSUME IInv, [Next]_vars PROVE IInv'
  OBVIOUS
<1>1. TypeOK'
  BY TypedStep DEF IInv
<1>2. ASSUME NEW r \in Runs, Step(r) \/ Kill(r) PROVE IInv'
  BY <1>1, <1>2, FineStep, UnsharedStep DEF IInv
<1>3. CASE UNCHANGED vars
  <2>1. \A r \in Runs : Output(r)' = Output(r)
    BY <1>3, OutputSame DEF vars
  <2>2. \A r \in Runs : Fine(r)'
    BY <1>3, <2>1 DEF IInv, vars, options, Fine
  <2>3. \A n : Writers(n)' = Writers(n)
    BY <1>3, <2>1 DEF vars, Writers
  <2>4. \A n \in Names \ shared' : Unshared(n)'
    BY <1>3, <2>1, <2>3 DEF IInv, vars, Unshared, Unfinished
  <2> QED
    BY <1>1, <2>2, <2>4 DEF IInv
<1> QED
  BY <1>2, <1>3 DEF Next

THEOREM Invariant == Spec => []IInv
BY InitFine, InvStep, PTL DEF Spec

\* Every run is somewhere on its way, and every file holds one card or rubbish.
THEOREM TypeCorrect == Spec => []TypeOK
<1>1. IInv => TypeOK
  BY DEF IInv
<1> QED
  BY <1>1, Invariant, PTL

\* Exit code 0 leaves a file; a file without a card has an unfinished writer, or two
\* writers at once, to answer for it, and nothing else makes one.
THEOREM ExitZeroAlways == Spec => []ExitZero
<1>1. IInv => ExitZero
  BY DEF IInv, Fine, Unshared, Unfinished, ExitZero
<1> QED
  BY <1>1, Invariant, PTL

\* A file that is settled, whatever it holds, is not written again before a run of the
\* a2a command that looks for another file begins.
THEOREM MigratedStays == Spec => NoOpWhenMigrated
<1> DEFINE Strays(n) ==
      \E r \in Runs : Astray(r) /\ Output(r) = n /\ place[r] = "idle" /\ place'[r] = "build"
<1>1. ASSUME TypeOK, [Next]_vars, NEW n \in Names, Settled(n)
      PROVE  file'[n] = file[n] /\ (Settled(n)' \/ Strays(n))
  <2>1. ASSUME NEW r \in Runs, Step(r) \/ Kill(r)
        PROVE  file'[n] = file[n] /\ (Settled(n)' \/ Strays(n))
    <3>0. \A q \in Runs : Output(q)' = Output(q)
      BY <1>1, <2>1, Others, OutputSame
    <3>1. CASE Output(r) # n
      BY <1>1, <2>1, <3>0, <3>1, Others DEF Settled
    <3>2. CASE Output(r) = n
      <4>1. place[r] \notin {"build", "write"} /\ file[n] # None
        BY <1>1, <3>2 DEF Settled
      <4>2. file' = file
        BY <1>1, <2>1, <4>1 DEF TypeOK, Step, Begin, BuildFails, Open, Write, WriteFails, Disconnect, Kill
      <4>3. CASE place'[r] \notin {"build", "write"}
        BY <1>1, <2>1, <3>0, <4>2, <4>3, Others DEF Settled
      <4>4. CASE place'[r] \in {"build", "write"}
        <5>1. place[r] = "idle" /\ place'[r] = "build" /\ file[issuer[r]] = None
          BY <1>1, <2>1, <4>1, <4>4
          DEF TypeOK, Step, Begin, BuildFails, Open, Write, WriteFails, Disconnect, Kill, Goto
        <5>2. Astray(r)
          BY <1>1, <3>2, <4>1, <5>1 DEF TypeOK, Astray, Output
        <5> QED
          BY <3>2, <4>2, <5>1, <5>2
      <4> QED
        BY <4>3, <4>4
    <3> QED
      BY <3>1, <3>2
  <2>2. CASE UNCHANGED vars
    <3>1. \A q \in Runs : Output(q)' = Output(q)
      BY <2>2, OutputSame DEF vars
    <3> QED
      BY <1>1, <2>2, <3>1 DEF vars, Settled
  <2> QED
    BY <1>1, <2>1, <2>2 DEF Next
<1>2. TypeOK /\ [Next]_vars =>
        [\A n \in Names : Settled(n) =>
           /\ file'[n] = file[n]
           /\ \/ Settled(n)'
              \/ \E r \in Runs : Astray(r) /\ Output(r) = n /\ place[r] = "idle" /\ place'[r] = "build"]_vars
  BY <1>1
<1> QED
  BY <1>2, TypeCorrect, PTL DEF Spec, NoOpWhenMigrated
=============================================================================
