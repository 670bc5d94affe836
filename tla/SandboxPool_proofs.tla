------------------------- MODULE SandboxPool_proofs -------------------------
(***************************************************************************)
(* Proofs about SandboxPool, for any number of calls and containers and    *)
(* any pool size.                                                          *)
(***************************************************************************)
EXTENDS SandboxPool, SequenceTheorems, FiniteSetTheorems, TLAPS

\* pop() leaves a sequence of containers, one shorter, that agrees with the old
\* one where it is defined.
LEMMA PopSequence ==
  ASSUME NEW s \in Seq(Containers), s # <<>>
  PROVE  /\ Len(s) \in Nat /\ Len(s) \in 1 .. Len(s)
         /\ s[Len(s)] \in Containers
         /\ SubSeq(s, 1, Len(s) - 1) \in Seq(Containers)
         /\ Len(SubSeq(s, 1, Len(s) - 1)) = Len(s) - 1
         /\ \A n \in 1 .. Len(s) - 1 : SubSeq(s, 1, Len(s) - 1)[n] = s[n]
<1>1. Len(s) \in Nat \ {0}
  BY EmptySeq
<1>2. \A n \in 1 .. Len(s) : s[n] \in Containers
  BY ElementOfSeq
<1>3. \A n \in 1 .. Len(s) - 1 : s[n] \in Containers
  BY <1>1, <1>2
<1>4. /\ SubSeq(s, 1, Len(s) - 1) \in Seq(Containers)
      /\ Len(SubSeq(s, 1, Len(s) - 1)) =
           (IF 1 <= Len(s) - 1 THEN (Len(s) - 1) - 1 + 1 ELSE 0)
      /\ \A n \in 1 .. (Len(s) - 1) - 1 + 1 : SubSeq(s, 1, Len(s) - 1)[n] = s[1 + n - 1]
  <2>1. 1 \in Int /\ Len(s) - 1 \in Int
    BY <1>1
  <2> QED
    BY <1>3, <2>1, SubSeqProperties
<1>5. Len(SubSeq(s, 1, Len(s) - 1)) = Len(s) - 1
  <2>1. \A l \in Nat \ {0} : (IF 1 <= l - 1 THEN (l - 1) - 1 + 1 ELSE 0) = l - 1
    OBVIOUS
  <2> QED
    BY <1>1, <1>4, <2>1
<1>6. ASSUME NEW n \in 1 .. Len(s) - 1
      PROVE  SubSeq(s, 1, Len(s) - 1)[n] = s[n]
  <2>1. n \in 1 .. (Len(s) - 1) - 1 + 1 /\ 1 + n - 1 = n
    BY <1>1
  <2> QED
    BY <1>4, <2>1
<1>7. Len(s) \in 1 .. Len(s)
  BY <1>1
<1> QED
  BY <1>1, <1>2, <1>4, <1>5, <1>6, <1>7

\* The containers of a sequence, and that none occurs in it twice.
Elements(s) == {s[n] : n \in 1 .. Len(s)}
Distinct(s) == \A m, n \in 1 .. Len(s) : s[m] = s[n] => m = n

\* pop() takes one container out of the pool and leaves the others.
LEMMA PopElements ==
  ASSUME NEW s \in Seq(Containers), s # <<>>, Distinct(s),
         NEW t, t = SubSeq(s, 1, Len(s) - 1)
  PROVE  /\ s[Len(s)] \in Elements(s)
         /\ Elements(t) = Elements(s) \ {s[Len(s)]}
         /\ Distinct(t)
<1>1. /\ Len(s) \in Nat /\ Len(s) \in 1 .. Len(s)
      /\ Len(t) = Len(s) - 1
      /\ \A n \in 1 .. Len(s) - 1 : t[n] = s[n]
  BY PopSequence
<1>2. s[Len(s)] \in Elements(s)
  BY <1>1 DEF Elements
<1>3. \A n \in 1 .. Len(s) - 1 : n \in 1 .. Len(s) /\ n # Len(s)
  BY <1>1
<1>4. \A n \in 1 .. Len(s) : n = Len(s) \/ n \in 1 .. Len(s) - 1
  BY <1>1
<1>5. Elements(t) = Elements(s) \ {s[Len(s)]}
  <2>1. ASSUME NEW k \in Elements(t) PROVE k \in Elements(s) /\ k # s[Len(s)]
    BY <1>1, <1>3 DEF Elements, Distinct
  <2>2. ASSUME NEW k \in Elements(s), k # s[Len(s)] PROVE k \in Elements(t)
    <3>1. PICK n \in 1 .. Len(s) : k = s[n]
      BY DEF Elements
    <3>2. n \in 1 .. Len(s) - 1 /\ k = t[n] /\ n \in 1 .. Len(t)
      BY <1>1, <1>4, <2>2, <3>1
    <3> QED
      BY <3>2 DEF Elements
  <2> QED
    BY <2>1, <2>2
<1>6. Distinct(t)
  BY <1>1, <1>3 DEF Distinct
<1> QED
  BY <1>2, <1>5, <1>6

\* push() adds one container to the pool.
LEMMA PushElements ==
  ASSUME NEW s \in Seq(Containers), Distinct(s),
         NEW k \in Containers, k \notin Elements(s),
         NEW t, t = Append(s, k)
  PROVE  Elements(t) = Elements(s) \cup {k} /\ Distinct(t)
<1>1. /\ Len(s) \in Nat /\ Len(t) = Len(s) + 1
      /\ \A n \in 1 .. Len(s) : t[n] = s[n]
      /\ t[Len(s) + 1] = k
  BY AppendProperties, LenProperties
<1>2. \A n \in 1 .. Len(t) : n = Len(s) + 1 \/ n \in 1 .. Len(s)
  BY <1>1
<1>3. Len(s) + 1 \in 1 .. Len(t) /\ \A n \in 1 .. Len(s) : n \in 1 .. Len(t)
  BY <1>1
<1>4. Elements(t) = Elements(s) \cup {k}
  BY <1>1, <1>2, <1>3 DEF Elements
<1>5. Distinct(t)
  BY <1>1, <1>2 DEF Elements, Distinct
<1> QED
  BY <1>4, <1>5

\* What release() does with the container of a call, as two cases.
LEMMA ReleaseCases ==
  ASSUME TypeOK, NEW c \in Calls, held[c] \in Containers, Release(c)
  PROVE  /\ available' \in Seq(Containers)
         /\ held' \in [Calls -> Containers \cup {None}]
         /\ pc' \in [Calls -> Places]
         /\ \/ /\ Len(available) < MaxSize
               /\ available' = Append(available, held[c])
               /\ held' = [held EXCEPT ![c] = None]
               /\ pc' = [pc EXCEPT ![c] = "idle"]
            \/ /\ available' = available
               /\ held' = held
               /\ pc' = [pc EXCEPT ![c] = "remove"]
<1>1. CASE Len(available) < MaxSize
  <2>1. /\ available' = Append(available, held[c])
        /\ held' = [held EXCEPT ![c] = None]
        /\ pc' = [pc EXCEPT ![c] = "idle"]
    BY <1>1 DEF Release, Goto
  <2>2. available' \in Seq(Containers)
    BY <2>1, AppendProperties DEF TypeOK
  <2> QED
    BY <1>1, <2>1, <2>2 DEF TypeOK, Places
<1>2. CASE ~ (Len(available) < MaxSize)
  <2>1. available' = available /\ held' = held /\ pc' = [pc EXCEPT ![c] = "remove"]
    BY <1>2 DEF Release, Goto
  <2> QED
    BY <2>1 DEF TypeOK, Places
<1> QED
  BY <1>1, <1>2

\* The next round of drain()'s loop, as two cases.
LEMMA DrainCases ==
  ASSUME TypeOK, DrainNext
  PROVE  /\ available' \in Seq(Containers)
         /\ drained' \in Containers \cup {None}
         /\ \/ available' = available /\ drained' = None
            \/ available # <<>> /\ Pop /\ drained' = Last
BY PopSequence DEF DrainNext, Pop, Last, TypeOK

LEMMA AnyConfigIsConfig == AnyConfig \in Configs
BY ConstantsAssumption DEF AnyConfig

\* A step leaves a well-formed state.
LEMMA TypeStep ==
  ASSUME TypeOK, InHand, [Next]_vars
  PROVE  TypeOK'
<1> USE DEF TypeOK, Places
<1>1. ASSUME NEW c \in Calls, NEW config \in Configs, StartPooled(c, config)
      PROVE  TypeOK'
  BY <1>1, PopSequence DEF StartPooled, Goto, Pop, Last
<1>2. ASSUME NEW c \in Calls, NEW config \in Configs, StartEmpty(c, config)
      PROVE  TypeOK'
  BY <1>2 DEF StartEmpty, Goto
<1>3. ASSUME NEW c \in Calls, Inspect(c)
      PROVE  TypeOK'
  BY <1>3 DEF Inspect, Goto
<1>4. ASSUME NEW c \in Calls, Restart(c)
      PROVE  TypeOK'
  BY <1>4 DEF Restart, Goto
<1>5. ASSUME NEW c \in Calls, Create(c)
      PROVE  TypeOK'
  BY <1>5 DEF Create, Goto
<1>6. ASSUME NEW c \in Calls, StartNew(c)
      PROVE  TypeOK'
  BY <1>6 DEF StartNew, Goto
<1>7. ASSUME NEW c \in Calls, Exec(c)
      PROVE  TypeOK'
  <2>1. held[c] \in Containers
    BY <1>7 DEF Exec, InHand
  <2>2. CASE docker[held[c]] = "running"
    BY <1>7, <2>2 DEF Exec, Goto
  <2>3. CASE docker[held[c]] # "running"
    <3>1. Release(c)
      BY <1>7, <2>3 DEF Exec
    <3> QED
      BY <1>7, <2>1, <2>3, <3>1, ReleaseCases DEF Exec
  <2> QED
    BY <2>2, <2>3
<1>8. ASSUME NEW c \in Calls, StreamEnd(c)
      PROVE  TypeOK'
  BY <1>8 DEF StreamEnd, Goto
<1>9. ASSUME NEW c \in Calls, ExitCode(c)
      PROVE  TypeOK'
  BY <1>9, ReleaseCases DEF ExitCode, InHand
<1>11. ASSUME NEW c \in Calls, Remove(c)
      PROVE  TypeOK'
  BY <1>11 DEF Remove, Kill, Goto
<1>12. ASSUME NEW c \in Calls, PooledFault(c)
      PROVE  TypeOK'
  BY <1>12, ConstantsAssumption DEF PooledFault, Fault, Goto
<1>13. ASSUME NEW c \in Calls, CreateFault(c)
      PROVE  TypeOK'
  BY <1>13, ConstantsAssumption DEF CreateFault, Fault, Goto
<1>14. ASSUME NEW c \in Calls, StartFault(c)
      PROVE  TypeOK'
  BY <1>14, ConstantsAssumption DEF StartFault, Fault, Goto
<1>15. ASSUME NEW c \in Calls, ExecFault(c)
      PROVE  TypeOK'
  BY <1>15, ReleaseCases, ConstantsAssumption DEF ExecFault, Fault, InHand
<1>16. ASSUME NEW c \in Calls, StreamFault(c)
      PROVE  TypeOK'
  BY <1>16, ReleaseCases, ConstantsAssumption DEF StreamFault, Fault, InHand
<1>17. ASSUME NEW c \in Calls, RemoveFault(c)
      PROVE  TypeOK'
  BY <1>17, ConstantsAssumption DEF RemoveFault, Fault, Goto
<1>18. ASSUME NEW c \in Calls, ToolEnds(c)
      PROVE  TypeOK'
  BY <1>18 DEF ToolEnds
<1>19. ASSUME DrainStart
      PROVE  TypeOK'
  BY <1>19, DrainCases DEF DrainStart, callVars
<1>21. ASSUME DrainRemove
      PROVE  TypeOK'
  BY <1>21, DrainCases DEF DrainRemove, Kill
<1>22. ASSUME DrainFault
      PROVE  TypeOK'
  BY <1>22, DrainCases, ConstantsAssumption DEF DrainFault, Fault, callVars
<1>23. ASSUME NEW k \in Containers, StrayEnds(k) \/ ContainerStops(k) \/ Teardown(k)
      PROVE  TypeOK'
  BY <1>23 DEF StrayEnds, ContainerStops, Teardown, Kill, callVars
<1>24. CASE UNCHANGED vars
  BY <1>24 DEF vars
<1> QED
  BY <1>1, <1>2, <1>3, <1>4, <1>5, <1>6, <1>7, <1>8, <1>9, <1>11, <1>12,
     <1>13, <1>14, <1>15, <1>16, <1>17, <1>18, <1>19, <1>21, <1>22, <1>23,
     <1>24
  DEF Next, Step, StepFault, Drain

\* A step keeps track of the containers in hand.
LEMMA InHandStep ==
  ASSUME TypeOK, InHand, [Next]_vars
  PROVE  InHand'
<1> USE DEF TypeOK, InHand, Places
<1>1. ASSUME NEW c \in Calls, NEW config \in Configs, StartPooled(c, config)
      PROVE  InHand'
  BY <1>1, PopSequence, ConstantsAssumption DEF StartPooled, Goto, Pop, Last, Containers
<1>2. ASSUME NEW c \in Calls, NEW config \in Configs, StartEmpty(c, config)
      PROVE  InHand'
  BY <1>2 DEF StartEmpty, Goto
<1>3. ASSUME NEW c \in Calls, Inspect(c)
      PROVE  InHand'
  BY <1>3 DEF Inspect, Goto
<1>4. ASSUME NEW c \in Calls, Restart(c)
      PROVE  InHand'
  BY <1>4 DEF Restart, Goto
<1>5. ASSUME NEW c \in Calls, Create(c)
      PROVE  InHand'
  BY <1>5, ConstantsAssumption DEF Create, Goto, Fresh, Containers
<1>6. ASSUME NEW c \in Calls, StartNew(c)
      PROVE  InHand'
  BY <1>6 DEF StartNew, Goto
<1>7. ASSUME NEW c \in Calls, Exec(c)
      PROVE  InHand'
  BY <1>7, ReleaseCases DEF Exec, Goto, InHand
<1>8. ASSUME NEW c \in Calls, StreamEnd(c)
      PROVE  InHand'
  BY <1>8 DEF StreamEnd, Goto
<1>9. ASSUME NEW c \in Calls, ExitCode(c)
      PROVE  InHand'
  BY <1>9, ReleaseCases DEF ExitCode, InHand
<1>11. ASSUME NEW c \in Calls, Remove(c)
      PROVE  InHand'
  BY <1>11 DEF Remove, Kill, Goto
<1>12. ASSUME NEW c \in Calls, PooledFault(c)
      PROVE  InHand'
  BY <1>12, ConstantsAssumption DEF PooledFault, Fault, Goto
<1>13. ASSUME NEW c \in Calls, CreateFault(c)
      PROVE  InHand'
  BY <1>13, ConstantsAssumption DEF CreateFault, Fresh, Fault, Goto
<1>14. ASSUME NEW c \in Calls, StartFault(c)
      PROVE  InHand'
  BY <1>14, ConstantsAssumption DEF StartFault, Fault, Goto
<1>15. ASSUME NEW c \in Calls, ExecFault(c)
      PROVE  InHand'
  BY <1>15, ReleaseCases, ConstantsAssumption DEF ExecFault, Fault, InHand
<1>16. ASSUME NEW c \in Calls, StreamFault(c)
      PROVE  InHand'
  <2>1. held[c] \in Containers /\ Release(c)
    BY <1>16 DEF StreamFault
  <2>2. tool' = [tool EXCEPT ![c] = FALSE] /\ docker' = docker
    BY <1>16 DEF StreamFault
  <2>3. \A d \in Calls : tool'[d] => d # c /\ tool[d]
    BY <2>2
  <2>4. \/ held' = [held EXCEPT ![c] = None] /\ pc' = [pc EXCEPT ![c] = "idle"]
        \/ held' = held /\ pc' = [pc EXCEPT ![c] = "remove"]
    BY <2>1, ReleaseCases
  <2> QED
    BY <2>1, <2>2, <2>3, <2>4, ConstantsAssumption DEF Containers
<1>17. ASSUME NEW c \in Calls, RemoveFault(c)
      PROVE  InHand'
  BY <1>17, ConstantsAssumption DEF RemoveFault, Fault, Goto
<1>18. ASSUME NEW c \in Calls, ToolEnds(c)
      PROVE  InHand'
  BY <1>18 DEF ToolEnds
<1>19. ASSUME DrainStart
      PROVE  InHand'
  BY <1>19, DrainCases DEF DrainStart, callVars
<1>21. ASSUME DrainRemove
      PROVE  InHand'
  BY <1>21, DrainCases DEF DrainRemove, Kill
<1>22. ASSUME DrainFault
      PROVE  InHand'
  BY <1>22, DrainCases, ConstantsAssumption DEF DrainFault, Fault, callVars
<1>23. ASSUME NEW k \in Containers, StrayEnds(k) \/ ContainerStops(k) \/ Teardown(k)
      PROVE  InHand'
  <2>1. CASE StrayEnds(k)
    BY <2>1 DEF StrayEnds, callVars
  <2>2. CASE ContainerStops(k)
    BY <2>2 DEF ContainerStops, Kill
  <2>3. CASE Teardown(k)
    BY <2>3 DEF Teardown, Kill
  <2> QED
    BY <1>23, <2>1, <2>2, <2>3
<1>24. CASE UNCHANGED vars
  BY <1>24 DEF vars
<1> QED
  BY <1>1, <1>2, <1>3, <1>4, <1>5, <1>6, <1>7, <1>8, <1>9, <1>11, <1>12,
     <1>13, <1>14, <1>15, <1>16, <1>17, <1>18, <1>19, <1>21, <1>22, <1>23,
     <1>24
  DEF Next, Step, StepFault, Drain

\* A step keeps every container in one place.
LEMMA ExclusiveStep ==
  ASSUME TypeOK, InHand, Exclusive, [Next]_vars
  PROVE  Exclusive'
<1>0. Exclusive <=> /\ \A c, d \in Calls : held[c] # None /\ held[c] = held[d] => c = d
                    /\ Distinct(available)
                    /\ \A c \in Calls : held[c] \notin Elements(available)
                    /\ drained # None => /\ drained \notin Elements(available)
                                         /\ \A c \in Calls : held[c] # drained
  BY DEF Exclusive, Distinct, Elements, Pooled
<1>0a. Exclusive' <=>
        /\ \A c, d \in Calls : held'[c] # None /\ held'[c] = held'[d] => c = d
        /\ Distinct(available')
        /\ \A c \in Calls : held'[c] \notin Elements(available')
        /\ drained' # None => /\ drained' \notin Elements(available')
                              /\ \A c \in Calls : held'[c] # drained'
  BY DEF Exclusive, Distinct, Elements, Pooled
<1>1. ASSUME held' = held, available' = available, drained' = drained
      PROVE  Exclusive'
  BY <1>1 DEF Exclusive, Pooled
<1>2. ASSUME NEW c \in Calls, held' = [held EXCEPT ![c] = None],
             available' = available, drained' = drained
      PROVE  Exclusive'
  <2>1. None \notin Elements(available)
    BY ConstantsAssumption, ElementOfSeq DEF TypeOK, Elements, Containers
  <2>2. \A d \in Calls : held'[d] = None \/ (held'[d] = held[d] /\ d # c)
    BY <1>2 DEF TypeOK
  <2>3. \A d \in Calls : held'[d] \notin Elements(available)
    BY <1>0, <2>1, <2>2
  <2>4. drained # None => \A d \in Calls : held'[d] # drained
    BY <1>0, <2>2
  <2>5. \A d, e \in Calls : held'[d] # None /\ held'[d] = held'[e] => d = e
    BY <1>0, <2>2
  <2>6. /\ Distinct(available)
        /\ drained # None => drained \notin Elements(available)
    BY <1>0
  <2>7. Distinct(available') /\ Elements(available') = Elements(available)
    BY <1>2, <2>6 DEF Distinct, Elements
  <2> QED
    BY <1>0a, <1>2, <2>3, <2>4, <2>5, <2>6, <2>7
<1>3. ASSUME NEW c \in Calls, NEW config \in Configs, StartPooled(c, config)
      PROVE  Exclusive'
  <2>1. /\ Last \in Elements(available)
        /\ Elements(available') = Elements(available) \ {Last}
        /\ Distinct(available')
    BY <1>0, <1>3, PopElements DEF StartPooled, Pop, Last, TypeOK
  <2>2. held' = [held EXCEPT ![c] = Last] /\ drained' = drained
    BY <1>3 DEF StartPooled
  <2> QED
    BY <1>0, <1>0a, <2>1, <2>2 DEF TypeOK
<1>4. ASSUME NEW c \in Calls, Create(c)
      PROVE  Exclusive'
  <2>1. PICK k \in Containers : /\ ~ Known(k)
                                /\ held' = [held EXCEPT ![c] = k]
    BY <1>4 DEF Create, Fresh
  <2>2. /\ available' = available /\ drained' = drained
        /\ k \notin Elements(available) /\ k # drained /\ \A d \in Calls : held[d] # k
    BY <1>4, <2>1 DEF Create, Known, Pooled, Elements
  <2>3. \A d \in Calls : IF d = c THEN held'[d] = k ELSE held'[d] = held[d]
    BY <2>1 DEF TypeOK
  <2>4. Distinct(available') /\ Elements(available') = Elements(available)
    BY <1>0, <2>2 DEF Distinct, Elements
  <2>5. \A d, e \in Calls : held'[d] # None /\ held'[d] = held'[e] => d = e
    BY <1>0, <2>2, <2>3
  <2>6. \A d \in Calls : held'[d] \notin Elements(available)
    BY <1>0, <2>2, <2>3
  <2>7. drained # None => /\ drained \notin Elements(available)
                          /\ \A d \in Calls : held'[d] # drained
    BY <1>0, <2>2, <2>3
  <2> QED
    BY <1>0a, <2>2, <2>4, <2>5, <2>6, <2>7
<1>5. ASSUME NEW c \in Calls, held[c] \in Containers, Release(c), drained' = drained
      PROVE  Exclusive'
  <2>1. CASE available' = available /\ held' = held
    BY <1>1, <1>5, <2>1
  <2>2. CASE available' = Append(available, held[c]) /\ held' = [held EXCEPT ![c] = None]
    <3>1. Elements(available') = Elements(available) \cup {held[c]} /\ Distinct(available')
      BY <1>0, <1>5, <2>2, PushElements DEF TypeOK
    <3>2. None \notin Elements(available')
      <4>1. Elements(available) \subseteq Containers
        BY ElementOfSeq DEF Elements, TypeOK
      <4> QED
        BY <1>5, <3>1, <4>1, ConstantsAssumption DEF Containers
    <3> QED
      BY <1>0, <1>0a, <1>5, <2>2, <3>1, <3>2, ConstantsAssumption DEF TypeOK, Containers
  <2> QED
    BY <1>5, <2>1, <2>2, ReleaseCases
<1>6. ASSUME DrainNext, held' = held
      PROVE  Exclusive'
  <2>1. CASE available' = available /\ drained' = None
    BY <1>6, <2>1 DEF Exclusive, Pooled
  <2>2. CASE available # <<>> /\ Pop /\ drained' = Last
    <3>1. /\ Last \in Elements(available)
          /\ Elements(available') = Elements(available) \ {Last}
          /\ Distinct(available')
      BY <1>0, <2>2, PopElements DEF Pop, Last, TypeOK
    <3> QED
      BY <1>0, <1>0a, <1>6, <2>2, <3>1
  <2> QED
    BY <1>6, <2>1, <2>2, DrainCases
<1>7. CASE Drain
  BY <1>6, <1>7 DEF Drain, DrainStart, DrainRemove, DrainFault, callVars
<1>8. ASSUME NEW c \in Calls, Step(c), ~ Create(c)
      PROVE  Exclusive'
  <2>1. \/ /\ held' = held \/ held' = [held EXCEPT ![c] = None]
           /\ available' = available /\ drained' = drained
        \/ held[c] \in Containers /\ Release(c) /\ drained' = drained
    BY <1>8 DEF Step, Inspect, Restart, StartNew, Exec, StreamEnd, ExitCode, Remove, TypeOK, InHand
  <2> QED
    BY <1>1, <1>2, <1>5, <2>1
<1>9. ASSUME NEW c \in Calls, StepFault(c)
      PROVE  Exclusive'
  <2>1. \/ /\ held' = held \/ held' = [held EXCEPT ![c] = None]
           /\ available' = available /\ drained' = drained
        \/ held[c] \in Containers /\ Release(c) /\ drained' = drained
    BY <1>9 DEF StepFault, PooledFault, CreateFault, StartFault, ExecFault, StreamFault, RemoveFault,
       TypeOK, InHand
  <2> QED
    BY <1>1, <1>2, <1>5, <2>1
<1>10. ASSUME NEW c \in Calls, NEW config \in Configs, StartEmpty(c, config)
       PROVE  Exclusive'
  BY <1>1, <1>10 DEF StartEmpty
<1>11. ASSUME NEW c \in Calls, ToolEnds(c)
       PROVE  Exclusive'
  BY <1>1, <1>11 DEF ToolEnds
<1>13. ASSUME NEW k \in Containers, StrayEnds(k) \/ ContainerStops(k) \/ Teardown(k)
       PROVE  Exclusive'
  BY <1>1, <1>13 DEF StrayEnds, ContainerStops, Teardown, callVars
<1>14. CASE UNCHANGED vars
  BY <1>1, <1>14 DEF vars
<1> QED
  BY <1>3, <1>4, <1>7, <1>8, <1>9, <1>10, <1>11, <1>13, <1>14 DEF Next

\* A step keeps the pool within its size: only a release adds to it.
LEMMA BoundStep ==
  ASSUME TypeOK, InHand, PoolBounded, [Next]_vars
  PROVE  PoolBounded'
<1> USE DEF PoolBounded, TypeOK
<1>1. ASSUME available' = available
      PROVE  PoolBounded'
  BY <1>1
<1>2. ASSUME Pop, available # <<>>
      PROVE  PoolBounded'
  <2>1. Len(available) \in Nat /\ Len(available') = Len(available) - 1
    BY <1>2, PopSequence DEF Pop
  <2> QED
    BY <2>1, ConstantsAssumption
<1>3. ASSUME NEW c \in Calls, Release(c), held[c] \in Containers
      PROVE  PoolBounded'
  <2>1. CASE available' = available
    BY <1>1, <2>1
  <2>2. CASE Len(available) < MaxSize /\ available' = Append(available, held[c])
    <3>1. Len(available) \in Nat /\ Len(available') = Len(available) + 1
      BY <1>3, <2>2, AppendProperties, LenProperties
    <3> QED
      BY <2>2, <3>1, ConstantsAssumption
  <2> QED
    BY <1>3, <2>1, <2>2, ReleaseCases
<1>4. \/ available' = available
      \/ Pop /\ available # <<>>
      \/ \E c \in Calls : Release(c) /\ held[c] \in Containers
  BY DEF Next, vars, callVars, Step, StepFault, Drain, DrainNext, StartPooled, StartEmpty, Inspect,
     Restart, Create, StartNew, Exec, StreamEnd, ExitCode, Remove, PooledFault,
     CreateFault, StartFault, ExecFault, StreamFault, RemoveFault, DrainStart,
     DrainRemove, DrainFault, ToolEnds, StrayEnds, ContainerStops, Teardown, InHand
<1> QED
  BY <1>1, <1>2, <1>3, <1>4

\* The inductive invariant: exclusiveness needs to know which places of a call
\* have a container in hand.
IInv == TypeOK /\ InHand /\ Exclusive /\ PoolBounded

THEOREM Invariant == Spec => []IInv
<1>1. Init => IInv
  <2> SUFFICES ASSUME Init PROVE IInv
    OBVIOUS
  <2>1. TypeOK
    BY ConstantsAssumption, AnyConfigIsConfig DEF Init, TypeOK, Places
  <2>2. InHand /\ Exclusive /\ PoolBounded
    BY ConstantsAssumption DEF Init, InHand, Exclusive, Pooled, PoolBounded
  <2> QED
    BY <2>1, <2>2 DEF IInv
<1>2. IInv /\ [Next]_vars => IInv'
  BY TypeStep, InHandStep, ExclusiveStep, BoundStep DEF IInv
<1> QED
  BY <1>1, <1>2, PTL DEF Spec

\* Every state of the pool and its calls is well formed.
THEOREM TypeCorrect == Spec => []TypeOK
BY Invariant, PTL DEF IInv

\* However calls, drains and faults interleave, no container serves two of them.
THEOREM ExclusiveAlways == Spec => []Exclusive
BY Invariant, PTL DEF IInv

\* However many calls release at once, the pool keeps at most poolSize.
THEOREM PoolBoundedAlways == Spec => []PoolBounded
BY Invariant, PTL DEF IInv

\* A step orphans at most one container, and none unless the daemon fails a
\* request in it.
LEMMA OrphanStep ==
  ASSUME IInv, [Next]_vars
  PROVE  \/ Orphans' \subseteq Orphans /\ faults' \in Nat /\ faults' >= faults
         \/ /\ faults' = faults + 1
            /\ \E k \in Containers : Orphans' \subseteq Orphans \cup {k}
<1> DEFINE KnownIn(k) == k \in Elements(available) \/ k = drained \/ \E c \in Calls : held[c] = k
           Shrink == Orphans' \subseteq Orphans /\ faults' \in Nat /\ faults' >= faults
           Grow(k) == faults' = faults + 1 /\ Orphans' \subseteq Orphans \cup {k}
<1>0. /\ Orphans = {k \in Containers : docker[k] # "absent" /\ ~ KnownIn(k)}
      /\ Orphans' = {k \in Containers : docker'[k] # "absent" /\ ~ KnownIn(k)'}
      /\ faults \in Nat
      /\ Distinct(available)
      /\ available \in Seq(Containers)
      /\ held \in [Calls -> Containers \cup {None}]
      /\ docker \in [Containers -> {"absent", "created", "running", "stopped"}]
      /\ None \notin Containers
  BY ConstantsAssumption
  DEF IInv, Exclusive, TypeOK, Orphans, Known, Pooled, Elements, Distinct, Containers
<1>1. ASSUME faults' = faults,
             \A k \in Containers : docker'[k] = "absent" \/ docker[k] # "absent",
             \A k \in Containers : KnownIn(k) => KnownIn(k)' \/ docker'[k] = "absent"
      PROVE  Shrink
  BY <1>0, <1>1
<1>2. ASSUME NEW c \in Calls, NEW config \in Configs, StartPooled(c, config)
      PROVE  Shrink
  <2>1. /\ Last \in Elements(available)
        /\ Elements(available') = Elements(available) \ {Last}
    BY <1>0, <1>2, PopElements DEF StartPooled, Pop, Last
  <2>2. held' = [held EXCEPT ![c] = Last] /\ drained' = drained /\ held[c] = None
    BY <1>2 DEF StartPooled, IInv, InHand
  <2>3. docker' = docker /\ faults' = faults
    BY <1>2 DEF StartPooled
  <2>4. \A k \in Containers : KnownIn(k) => KnownIn(k)'
    BY <1>0, <2>1, <2>2
  <2> QED
    BY <1>0, <1>1, <2>3, <2>4
<1>3. ASSUME NEW c \in Calls, Create(c)
      PROVE  Shrink
  <2>1. PICK k \in Containers : /\ docker' = [docker EXCEPT ![k] = "created"]
                                /\ held' = [held EXCEPT ![c] = k]
    BY <1>3 DEF Create
  <2>2. available' = available /\ drained' = drained /\ faults' = faults /\ held[c] = None
    BY <1>3 DEF Create, IInv, InHand
  <2> QED
    BY <1>0, <2>1, <2>2
<1>4. ASSUME NEW c \in Calls, held[c] \in Containers, Release(c),
             docker' = docker, drained' = drained, faults' = faults \/ faults' = faults + 1
      PROVE  Shrink
  <2>1. CASE available' = available /\ held' = held
    BY <1>0, <1>4, <2>1
  <2>2. CASE available' = Append(available, held[c]) /\ held' = [held EXCEPT ![c] = None]
    <3>1. held[c] \notin Elements(available)
      BY DEF IInv, Exclusive, Pooled, Elements
    <3>2. Elements(available') = Elements(available) \cup {held[c]}
      BY <1>0, <1>4, <2>2, <3>1, PushElements
    <3> QED
      BY <1>0, <1>4, <2>2, <3>2
  <2> QED
    BY <1>4, <2>1, <2>2, ReleaseCases DEF IInv
<1>5. ASSUME DrainNext
      PROVE  \A k \in Containers :
               k \in Elements(available) => k \in Elements(available') \/ k = drained'
  <2>1. CASE available' = available
    BY <2>1
  <2>2. CASE available # <<>> /\ Pop /\ drained' = Last
    <3>1. Elements(available') = Elements(available) \ {Last}
      BY <1>0, <2>2, PopElements DEF Pop, Last
    <3> QED
      BY <2>2, <3>1
  <2> QED
    BY <1>5, <2>1, <2>2, DrainCases DEF IInv
<1>6. CASE DrainStart \/ DrainRemove
  <2>1. /\ DrainNext /\ held' = held /\ faults' = faults
        /\ \/ drained = None /\ docker' = docker
           \/ docker' = [docker EXCEPT ![drained] = "absent"]
    BY <1>6 DEF DrainStart, DrainRemove, callVars
  <2> QED
    BY <1>0, <1>5, <2>1
<1>7. CASE DrainFault
  <2>1. /\ drained \in Containers
        /\ docker' = docker /\ DrainNext
        /\ held' = held /\ faults' = faults + 1
    BY <1>7 DEF DrainFault, Fault, callVars, IInv, TypeOK
  <2>2. Grow(drained)
    BY <1>0, <1>5, <2>1
  <2> QED
    BY <2>1, <2>2
<1>8. ASSUME NEW c \in Calls, Step(c), ~ Create(c)
      PROVE  Shrink
  <2>1. CASE Release(c)
    <3>1. held[c] \in Containers /\ docker' = docker /\ drained' = drained /\ faults' = faults
      BY <1>0, <1>8, <2>1
      DEF Step, Inspect, Restart, StartNew, Exec, StreamEnd, ExitCode, Remove, Release, Goto,
          IInv, TypeOK, InHand
    <3> QED
      BY <1>4, <2>1, <3>1
  <2>2. CASE ~ Release(c)
    <3>1. available' = available /\ drained' = drained /\ faults' = faults
      BY <1>8, <2>2 DEF Step, Inspect, Restart, StartNew, Exec, StreamEnd, ExitCode, Remove
    <3>2. \/ held' = held
          \/ held' = [held EXCEPT ![c] = None] /\ docker'[held[c]] = "absent"
      BY <1>0, <1>8, <2>2 DEF Step, Inspect, Restart, StartNew, Exec, StreamEnd, ExitCode, Remove,
         IInv, InHand, Places
    <3>3. \A k \in Containers : docker'[k] = "absent" \/ docker[k] # "absent"
      BY <1>0, <1>8, <2>2 DEF Step, Inspect, Restart, StartNew, Exec, StreamEnd, ExitCode, Remove
    <3> QED
      BY <1>0, <3>1, <3>2, <3>3
  <2> QED
    BY <2>1, <2>2
<1>9. ASSUME NEW c \in Calls, CreateFault(c)
      PROVE  Shrink \/ \E k \in Containers : Grow(k)
  <2>1. /\ available' = available /\ drained' = drained /\ held' = held
        /\ faults' = faults + 1
    BY <1>9 DEF CreateFault, Fault
  <2>2. CASE docker' = docker
    BY <1>0, <2>1, <2>2
  <2>3. CASE \E k \in Containers : docker' = [docker EXCEPT ![k] = "created"]
    BY <1>0, <2>1, <2>3
  <2> QED
    BY <1>9, <2>2, <2>3 DEF CreateFault
<1>10. ASSUME NEW c \in Calls, PooledFault(c) \/ StartFault(c) \/ RemoveFault(c)
       PROVE  \E k \in Containers : Grow(k)
  <2>1. /\ available' = available /\ drained' = drained /\ docker' = docker
        /\ held' = [held EXCEPT ![c] = None] /\ faults' = faults + 1
        /\ held[c] \in Containers
    BY <1>0, <1>10 DEF PooledFault, StartFault, RemoveFault, Fault, IInv, InHand
  <2>2. Grow(held[c])
    BY <1>0, <2>1
  <2> QED
    BY <2>1, <2>2
<1>11. ASSUME NEW c \in Calls, ExecFault(c) \/ StreamFault(c)
       PROVE  Shrink
  <2>1. /\ held[c] \in Containers /\ Release(c)
        /\ docker' = docker /\ drained' = drained /\ faults' = faults + 1
    BY <1>11 DEF ExecFault, StreamFault, Fault, IInv, TypeOK, InHand
  <2> QED
    BY <1>4, <2>1
<1>12. ASSUME NEW c \in Calls, NEW config \in Configs, StartEmpty(c, config)
       PROVE  Shrink
  BY <1>0, <1>1, <1>12 DEF StartEmpty
<1>13. ASSUME NEW c \in Calls, ToolEnds(c)
       PROVE  Shrink
  BY <1>0, <1>1, <1>13 DEF ToolEnds
<1>15. ASSUME NEW k \in Containers, StrayEnds(k) \/ ContainerStops(k) \/ Teardown(k)
       PROVE  Shrink
  BY <1>0, <1>1, <1>15 DEF StrayEnds, ContainerStops, Teardown, callVars
<1>16. CASE UNCHANGED vars
  BY <1>0, <1>1, <1>16 DEF vars
<1>17. Shrink \/ \E k \in Containers : Grow(k)
  BY <1>2, <1>3, <1>6, <1>7, <1>8, <1>9, <1>10, <1>11, <1>12, <1>13, <1>15, <1>16
  DEF Next, StepFault, Drain
<1> QED
  BY <1>17

\* A set of containers that grows by one with each fault at most counts the faults.
LEMMA OneForEachFault ==
  ASSUME NEW S \in SUBSET Containers, NEW T \in SUBSET Containers,
         NEW m \in Nat, NEW n \in Nat, Cardinality(S) <= m,
         \/ T \subseteq S /\ n >= m
         \/ n = m + 1 /\ \E k \in Containers : T \subseteq S \cup {k}
  PROVE  Cardinality(T) <= n
<1>1. IsFiniteSet(S) /\ Cardinality(S) \in Nat
  <2>1. IsFiniteSet(Containers)
    BY ConstantsAssumption, FS_Interval DEF Containers
  <2> QED
    BY <2>1, FS_Subset, FS_CardinalityType
<1>2. CASE T \subseteq S /\ n >= m
  <2>1. Cardinality(T) \in Nat /\ Cardinality(T) <= Cardinality(S)
    BY <1>1, <1>2, FS_Subset, FS_CardinalityType
  <2> QED
    BY <1>1, <1>2, <2>1
<1>3. ASSUME NEW k \in Containers, n = m + 1, T \subseteq S \cup {k}
      PROVE  Cardinality(T) <= n
  <2>1. /\ IsFiniteSet(S \cup {k})
        /\ \/ Cardinality(S \cup {k}) = Cardinality(S)
           \/ Cardinality(S \cup {k}) = Cardinality(S) + 1
    BY <1>1, FS_AddElement
  <2>2. Cardinality(T) \in Nat /\ Cardinality(T) <= Cardinality(S \cup {k})
    BY <1>3, <2>1, FS_Subset, FS_CardinalityType
  <2>3. Cardinality(S \cup {k}) \in Nat
    BY <2>1, FS_CardinalityType
  <2> QED
    BY <1>1, <1>3, <2>1, <2>2, <2>3
<1> QED
  BY <1>2, <1>3

\* No container is lost unless the daemon failed a request, and then only one.
THEOREM OrphansAlways == Spec => []OrphansFromFaults
<1>1. Init => OrphansFromFaults
  <2> SUFFICES ASSUME Init PROVE OrphansFromFaults
    OBVIOUS
  <2>1. Orphans = {}
    BY DEF Init, Orphans
  <2> QED
    BY <2>1, FS_EmptySet DEF Init, OrphansFromFaults
<1>2. IInv /\ IInv' /\ OrphansFromFaults /\ [Next]_vars => OrphansFromFaults'
  <2> SUFFICES ASSUME IInv, IInv', OrphansFromFaults, [Next]_vars PROVE OrphansFromFaults'
    OBVIOUS
  <2>1. Orphans \in SUBSET Containers /\ Orphans' \in SUBSET Containers
    BY DEF Orphans
  <2>2. faults \in Nat /\ faults' \in Nat
    BY ConstantsAssumption DEF IInv, TypeOK
  <2>3. \/ Orphans' \subseteq Orphans /\ faults' >= faults
        \/ faults' = faults + 1 /\ \E k \in Containers : Orphans' \subseteq Orphans \cup {k}
    BY OrphanStep
  <2>4. Cardinality(Orphans) <= faults
    BY DEF OrphansFromFaults
  <2>5. Cardinality(Orphans') <= faults'
    BY <2>1, <2>2, <2>3, <2>4, OneForEachFault
  <2> QED
    BY <2>5 DEF OrphansFromFaults
<1> QED
  BY <1>1, <1>2, Invariant, PTL DEF Spec

\* A call gives up on a tool that runs only when the daemon fails one of its requests.
LEMMA StrayStep ==
  ASSUME IInv, IInv', [Next]_vars
  PROVE  \/ stray' \subseteq stray /\ faults' >= faults
         \/ faults' = faults + 1 /\ \E k \in Containers : stray' \subseteq stray \cup {k}
<1>0. faults \in Nat /\ faults' \in Nat
  BY ConstantsAssumption DEF IInv, TypeOK
<1>1. ASSUME NEW c \in Calls, ExecFault(c) \/ StreamFault(c)
      PROVE  faults' = faults + 1 /\ \E k \in Containers : stray' \subseteq stray \cup {k}
  <2>1. held[c] \in Containers
    BY <1>1 DEF ExecFault, StreamFault, IInv, TypeOK, InHand
  <2>2. stray' \subseteq stray \cup {held[c]} /\ faults' = faults + 1
    BY <1>1 DEF ExecFault, StreamFault, Fault
  <2> QED
    BY <2>1, <2>2
<1>2. ASSUME NEW c \in Calls, StepFault(c), ~ ExecFault(c), ~ StreamFault(c)
      PROVE  stray' = stray /\ faults' = faults + 1
  BY <1>2 DEF StepFault, PooledFault, CreateFault, StartFault, RemoveFault, Fault
<1>3. ASSUME NEW c \in Calls, Step(c) PROVE stray' \subseteq stray /\ faults' = faults
  BY <1>3 DEF Step, Inspect, Restart, Create, StartNew, Exec, StreamEnd, ExitCode, Remove, Kill
<1>4. ASSUME NEW c \in Calls, NEW config \in Configs,
             StartPooled(c, config) \/ StartEmpty(c, config)
      PROVE  stray' = stray /\ faults' = faults
  BY <1>4 DEF StartPooled, StartEmpty
<1>5. ASSUME Drain PROVE stray' \subseteq stray /\ faults' >= faults
  BY <1>0, <1>5 DEF Drain, DrainStart, DrainRemove, DrainFault, Fault, Kill
<1>6. ASSUME NEW k \in Containers, StrayEnds(k) \/ ContainerStops(k) \/ Teardown(k)
      PROVE  stray' \subseteq stray /\ faults' = faults
  BY <1>6 DEF StrayEnds, ContainerStops, Teardown, Kill
<1>7. CASE UNCHANGED vars
  BY <1>0, <1>7 DEF vars
<1>8. ASSUME NEW c \in Calls, ToolEnds(c) PROVE stray' = stray /\ faults' = faults
  BY <1>8 DEF ToolEnds
<1> QED
  BY <1>0, <1>1, <1>2, <1>3, <1>4, <1>5, <1>6, <1>7, <1>8 DEF Next

\* A tool shares its container with another only where the daemon failed a request, one
\* container for each, however many calls use the container after one another.
THEOREM CrowdedAlways == Spec => []CrowdedFromFaults
<1> DEFINE Few == Cardinality(stray) <= faults
<1>1. Init => Few
  BY FS_EmptySet DEF Init
<1>2. ASSUME IInv, IInv', Few, [Next]_vars PROVE Few'
  <2>1. stray \in SUBSET Containers /\ stray' \in SUBSET Containers
    BY <1>2 DEF IInv, TypeOK
  <2>2. faults \in Nat /\ faults' \in Nat
    BY <1>2, ConstantsAssumption DEF IInv, TypeOK
  <2> QED
    BY <1>2, <2>1, <2>2, StrayStep, OneForEachFault
<1>3. ASSUME IInv, Few PROVE CrowdedFromFaults
  <2>1. stray \in SUBSET Containers /\ Crowded \in SUBSET Containers /\ faults \in Nat
    BY <1>3, ConstantsAssumption DEF IInv, TypeOK, Crowded
  <2>2. Crowded \subseteq stray
    BY DEF Crowded
  <2>3. Cardinality(Crowded) <= faults
    BY <1>3, <2>1, <2>2, OneForEachFault
  <2> QED
    BY <2>3 DEF CrowdedFromFaults
<1> HIDE DEF Few
<1> QED
  BY <1>1, <1>2, <1>3, Invariant, PTL DEF Spec

-----------------------------------------------------------------------------
(* What reuse breaks *)

\* Whatever a call has in hand was made for it.
MadeForCall == \A c \in Calls : held[c] # None => made[held[c]] = want[c]

LEMMA MadeForCallStep ==
  ASSUME IInv, MaxSize = 0, MadeForCall, [Next]_vars
  PROVE  MadeForCall'
<1>0. /\ available = <<>>
      /\ held \in [Calls -> Containers \cup {None}] /\ made \in [Containers -> Configs]
      /\ want \in [Calls -> Configs]
      /\ None \notin Containers
  <2>1. available \in Seq(Containers) /\ Len(available) \in Nat /\ Len(available) <= 0
    BY DEF IInv, TypeOK, PoolBounded
  <2> QED
    BY <2>1, ConstantsAssumption DEF IInv, TypeOK, Containers
\* Containers may go; nothing is made or wanted.
<1>1. ASSUME UNCHANGED <<made, want>>, \A c \in Calls : held'[c] \in {held[c], None}
      PROVE  MadeForCall'
  BY <1>1 DEF MadeForCall
<1>2. ASSUME NEW c \in Calls, Release(c) PROVE UNCHANGED held
  BY <1>0, <1>2, ConstantsAssumption DEF Release
<1>3. ASSUME NEW c \in Calls, NEW config \in Configs,
             StartPooled(c, config) \/ StartEmpty(c, config)
      PROVE  MadeForCall'
  <2>1. /\ held[c] = None /\ UNCHANGED <<made, held>>
        /\ \A d \in Calls : d # c => want'[d] = want[d]
    BY <1>0, <1>3 DEF StartPooled, StartEmpty, IInv, InHand
  <2> QED
    BY <2>1 DEF MadeForCall
<1>4. ASSUME NEW c \in Calls, Create(c) PROVE MadeForCall'
  <2>1. PICK k \in Containers :
          /\ Fresh(k)
          /\ made' = [made EXCEPT ![k] = want[c]] /\ held' = [held EXCEPT ![c] = k]
    BY <1>4 DEF Create
  <2>2. (\A d \in Calls : held[d] # k) /\ UNCHANGED want
    BY <1>4, <2>1 DEF Create, Fresh, Known
  <2>3. ASSUME NEW d \in Calls, held'[d] # None PROVE made'[held'[d]] = want'[d]
    <3>1. CASE d = c
      BY <1>0, <2>1, <2>2, <3>1
    <3>2. CASE d # c
      <4>1. held'[d] = held[d] /\ held[d] \in Containers
        BY <1>0, <2>1, <2>3, <3>2
      <4> QED
        BY <1>0, <2>1, <2>2, <2>3, <4>1 DEF MadeForCall
    <3> QED
      BY <3>1, <3>2
  <2> QED
    BY <2>3 DEF MadeForCall
<1>5. ASSUME NEW c \in Calls, CreateFault(c) PROVE MadeForCall'
  <2>1. UNCHANGED <<held, want>>
    BY <1>5 DEF CreateFault
  <2>2. CASE UNCHANGED made
    BY <1>1, <2>1, <2>2
  <2>3. ASSUME NEW k \in Containers, Fresh(k), made' = [made EXCEPT ![k] = want[c]]
        PROVE  MadeForCall'
    <3>1. \A d \in Calls : held[d] # k
      BY <2>3 DEF Fresh, Known
    <3>2. \A d \in Calls : held[d] # None => made'[held[d]] = made[held[d]]
      BY <1>0, <2>3, <3>1
    <3> QED
      BY <2>1, <3>2 DEF MadeForCall
  <2> QED
    BY <1>5, <2>2, <2>3 DEF CreateFault
<1>6. ASSUME NEW c \in Calls, Step(c), ~ Create(c) PROVE MadeForCall'
  <2>1. UNCHANGED <<made, want>> /\ \A d \in Calls : held'[d] \in {held[d], None}
    BY <1>0, <1>2, <1>6
    DEF Step, Inspect, Restart, StartNew, Exec, StreamEnd, ExitCode, Remove
  <2> QED
    BY <1>1, <2>1
<1>7. ASSUME NEW c \in Calls, StepFault(c), ~ CreateFault(c) PROVE MadeForCall'
  <2>1. UNCHANGED <<made, want>> /\ \A d \in Calls : held'[d] \in {held[d], None}
    BY <1>0, <1>2, <1>7
    DEF StepFault, PooledFault, StartFault, ExecFault, StreamFault, RemoveFault
  <2> QED
    BY <1>1, <2>1
<1>8. ASSUME NEW c \in Calls, ToolEnds(c) PROVE MadeForCall'
  BY <1>1, <1>8 DEF ToolEnds
<1>9. CASE Drain
  BY <1>1, <1>9 DEF Drain, DrainStart, DrainRemove, DrainFault, callVars
<1>10. ASSUME NEW k \in Containers, StrayEnds(k) \/ ContainerStops(k) \/ Teardown(k)
       PROVE  MadeForCall'
  BY <1>1, <1>10 DEF StrayEnds, ContainerStops, Teardown, callVars
<1>11. CASE UNCHANGED vars
  BY <1>1, <1>11 DEF vars, callVars
<1> QED
  BY <1>3, <1>4, <1>5, <1>6, <1>7, <1>8, <1>9, <1>10, <1>11 DEF Next

\* docker-sandbox.test.ts expects a tool to run under the settings of its own call.  It
\* does if poolSize is 0: only the reuse of containers breaks it, and nothing else does.
THEOREM ConfiguredWithoutPool == MaxSize = 0 /\ Spec => []ConfiguredForCall
<1>1. Init => MadeForCall
  BY DEF Init, MadeForCall
<1>2. ASSUME IInv, MadeForCall PROVE ConfiguredForCall
  <2>1. ASSUME NEW c \in Calls, tool[c] PROVE held[c] # None
    <3>1. pc[c] = "run"
      BY <1>2, <2>1, Zenon DEF IInv, InHand
    <3> QED
      BY <1>2, <3>1 DEF IInv, InHand
  <2> QED
    BY <1>2, <2>1 DEF MadeForCall, ConfiguredForCall
<1>3. (MaxSize = 0) => [](MaxSize = 0)
  <2>1. (MaxSize = 0) => (MaxSize = 0)'
    OBVIOUS
  <2> QED
    BY <2>1, PTL
<1>4. IInv /\ MaxSize = 0 /\ MadeForCall /\ [Next]_vars => MadeForCall'
  BY MadeForCallStep
<1> QED
  BY <1>1, <1>2, <1>3, <1>4, Invariant, PTL DEF Spec
=============================================================================
