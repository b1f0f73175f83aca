--------------------------- MODULE HubPollsProofs ---------------------------
(***************************************************************************)
(* Proofs about HubBackoff, for every base and cap the configuration check *)
(* lets through, about ClaimReader, for any cap and bodies of any length,  *)
(* and that HubPolls implements both.                                      *)
(***************************************************************************)
EXTENDS HubPolls, WellFoundedInduction, TLAPS

-----------------------------------------------------------------------------
(* The powers of two.  A recursive function is what its definition says only *)
(* if there is such a function, which takes an induction to show.           *)

\* The order of the numbers is well founded,
LEMMA NatLess == IsWellFoundedOn({ss \in Nat \X Nat : ss[1] < ss[2]}, Nat)
BY NatLessThanWellFounded DEF OpToRel

\* so every set of them that is not empty has a least one.
LEMMA LeastNumber ==
  ASSUME NEW S \in SUBSET Nat, S # {}
  PROVE  \E n \in S : \A k \in S : n <= k
<1> DEFINE R == {ss \in Nat \X Nat : ss[1] < ss[2]}
<1>1. PICK n \in S : \A k \in S : <<k, n>> \notin R
  BY NatLess, WFMin
<1>2. ASSUME NEW k \in S PROVE n <= k
  <2>1. <<k, n>> \in Nat \X Nat /\ <<k, n>> \notin R
    BY <1>1
  <2>. QED  BY <2>1
<1>. QED  BY <1>2

\* What holds of 0, and of a number's successor with the number, holds of all.
LEMMA AllNumbers ==
  ASSUME NEW S \in SUBSET Nat, 0 \in S, \A n \in S : n + 1 \in S
  PROVE  S = Nat
<1>1. SUFFICES ASSUME Nat \ S # {} PROVE FALSE
  OBVIOUS
<1>2. PICK n \in Nat \ S : \A k \in Nat \ S : n <= k
  BY <1>1, LeastNumber
<1>3. n - 1 \in S
  BY <1>2
<1>. QED  BY <1>2, <1>3

\* The powers of two up to the n-th.
Powers(n) ==
  {f \in [0 .. n -> Nat] :
     f[0] = 1 /\ \A i \in 1 .. n : f[i] = 2 * f[i - 1]}

\* There are such tables of powers for every n ...
LEMMA PowersExist ==
  ASSUME NEW n \in Nat
  PROVE  Powers(n) # {}
<1> DEFINE S == {k \in Nat : Powers(k) # {}}
<1>1. 0 \in S
  <2>1. [i \in 0 .. 0 |-> 1] \in Powers(0)
    BY DEF Powers
  <2>. QED  BY <2>1
<1>2. ASSUME NEW k \in S PROVE k + 1 \in S
  <2>1. PICK f : f \in Powers(k)
    OBVIOUS
  <2> DEFINE g == [i \in 0 .. k + 1 |-> IF i = k + 1 THEN 2 * f[k] ELSE f[i]]
  <2>2. f \in [0 .. k -> Nat] /\ f[0] = 1 /\ \A i \in 1 .. k : f[i] = 2 * f[i - 1]
    BY <2>1 DEF Powers
  <2>3. g \in [0 .. k + 1 -> Nat] /\ g[0] = 1
    BY <2>2
  <2>4. ASSUME NEW i \in 1 .. k + 1 PROVE g[i] = 2 * g[i - 1]
    <3>1. CASE i = k + 1
      BY <3>1
    <3>2. CASE i # k + 1
      <4>1. i \in 1 .. k /\ i - 1 \in 0 .. k /\ i - 1 # k + 1
        BY <3>2
      <4>. QED  BY <2>2, <3>2, <4>1
    <3>. QED  BY <3>1, <3>2
  <2>5. g \in Powers(k + 1)
    BY <2>3, <2>4 DEF Powers
  <2>. QED  BY <2>5
<1>3. S = Nat
  <2> HIDE DEF S
  <2>1. S \in SUBSET Nat
    BY DEF S
  <2>. QED  BY <1>1, <1>2, <2>1, AllNumbers
<1>. QED  BY <1>3

\* ... and they agree where they overlap.
LEMMA PowersAgree ==
  ASSUME NEW n \in Nat, NEW f \in Powers(n), NEW m \in Nat, NEW g \in Powers(m),
         NEW i \in Nat, i <= n, i <= m
  PROVE  f[i] = g[i]
<1> DEFINE S == {k \in Nat : k <= n /\ k <= m => f[k] = g[k]}
<1>0. /\ f[0] = 1 /\ \A k \in 1 .. n : f[k] = 2 * f[k - 1]
      /\ g[0] = 1 /\ \A k \in 1 .. m : g[k] = 2 * g[k - 1]
  BY DEF Powers
<1>1. 0 \in S
  BY <1>0
<1>2. ASSUME NEW k \in S PROVE k + 1 \in S
  <2>1. SUFFICES ASSUME k + 1 <= n, k + 1 <= m PROVE f[k + 1] = g[k + 1]
    OBVIOUS
  <2>2. k + 1 \in 1 .. n /\ k + 1 \in 1 .. m /\ (k + 1) - 1 = k /\ f[k] = g[k]
    BY <2>1
  <2>. QED  BY <1>0, <2>2
<1>3. S = Nat
  <2> HIDE DEF S
  <2>1. S \in SUBSET Nat
    BY DEF S
  <2>. QED  BY <1>1, <1>2, <2>1, AllNumbers
<1>. QED  BY <1>3

\* So there is a function as PowerOfTwo is defined, and it has its values.
LEMMA PowerOfTwoIs ==
  /\ PowerOfTwo \in [Nat -> Nat]
  /\ PowerOfTwo[0] = 1
  /\ \A n \in Nat : PowerOfTwo[n + 1] = 2 * PowerOfTwo[n]
<1> DEFINE pick(n) == CHOOSE f \in Powers(n) : TRUE
           F == [n \in Nat |-> pick(n)[n]]
<1>1. ASSUME NEW n \in Nat PROVE pick(n) \in Powers(n)
  BY PowersExist
<1>2. ASSUME NEW n \in Nat, n # 0 PROVE pick(n)[n] = 2 * pick(n - 1)[n - 1]
  <2>1. n - 1 \in Nat /\ n \in 1 .. n /\ n - 1 <= n
    BY <1>2
  <2>2. pick(n)[n] = 2 * pick(n)[n - 1]
    BY <1>1, <2>1 DEF Powers
  <2>3. pick(n)[n - 1] = pick(n - 1)[n - 1]
    BY <1>1, <2>1, PowersAgree
  <2>. QED  BY <2>2, <2>3
<1>3. pick(0)[0] = 1
  BY <1>1 DEF Powers
<1>4. \A n \in Nat : pick(n)[n] \in Nat
  BY <1>1 DEF Powers
<1>5. F = [n \in Nat |-> IF n = 0 THEN 1 ELSE 2 * F[n - 1]]
  <2>1. ASSUME NEW n \in Nat
        PROVE  pick(n)[n] = IF n = 0 THEN 1 ELSE 2 * F[n - 1]
    <3>1. CASE n = 0
      BY <1>3, <3>1
    <3>2. CASE n # 0
      <4>1. n - 1 \in Nat /\ pick(n)[n] = 2 * pick(n - 1)[n - 1]
        BY <1>2, <3>2
      <4> HIDE DEF pick
      <4>. QED  BY <3>2, <4>1
    <3>. QED  BY <3>1, <3>2
  <2> HIDE DEF pick
  <2>2. [n \in Nat |-> pick(n)[n]]
        = [n \in Nat |-> IF n = 0 THEN 1 ELSE 2 * F[n - 1]]
    BY <2>1
  <2>. QED  BY <2>2
<1>6. PowerOfTwo = [n \in Nat |-> IF n = 0 THEN 1 ELSE 2 * PowerOfTwo[n - 1]]
  <2> HIDE DEF F
  <2>. QED  BY <1>5 DEF PowerOfTwo
<1>7. /\ PowerOfTwo[0] = 1
      /\ \A n \in Nat : PowerOfTwo[n + 1] = 2 * PowerOfTwo[n]
  <2>1. \A n \in Nat :
          PowerOfTwo[n] = IF n = 0 THEN 1 ELSE 2 * PowerOfTwo[n - 1]
    BY <1>6
  <2>2. ASSUME NEW n \in Nat PROVE PowerOfTwo[n + 1] = 2 * PowerOfTwo[n]
    <3>1. n + 1 \in Nat /\ n + 1 # 0 /\ (n + 1) - 1 = n
      OBVIOUS
    <3>. QED  BY <2>1, <3>1
  <2>. QED  BY <2>1, <2>2
<1>8. \A n \in Nat : PowerOfTwo[n] \in Nat
  <2> DEFINE S == {n \in Nat : PowerOfTwo[n] \in Nat}
  <2>1. 0 \in S /\ \A n \in S : n + 1 \in S
    BY <1>7
  <2>2. S = Nat
    <3> HIDE DEF S
    <3>1. S \in SUBSET Nat
      BY DEF S
    <3>. QED  BY <2>1, <3>1, AllNumbers
  <2>. QED  BY <2>2
<1>. QED  BY <1>6, <1>7, <1>8

-----------------------------------------------------------------------------
(* HubBackoff.                                                              *)

\* Every variable keeps its type.
THEOREM BackoffTypeCorrect == Spec => []TypeOK
<1>1. Init => TypeOK
  <2> SUFFICES ASSUME Init PROVE TypeOK
    OBVIOUS
  <2>1. /\ hubDown \in BOOLEAN /\ authDenied \in BOOLEAN
        /\ unbornLogged \in BOOLEAN /\ policyPending \in BOOLEAN
        /\ policyWarned \in BOOLEAN /\ circuitOpen \in BOOLEAN
        /\ told \in BOOLEAN
    BY HasPolicyAssumption DEF Init
  <2>2. /\ nextMs \in [Backoffs -> Nat] /\ delay \in [Backoffs -> Nat]
        /\ row \in [Backoffs -> Nat] /\ lines \in [Lines -> Nat]
    BY BackoffAssumption DEF Init
  <2>. QED  BY <2>1, <2>2 DEF TypeOK
<1>2. TypeOK /\ [Next]_vars => TypeOK'
  <2> SUFFICES ASSUME TypeOK, [Next]_vars PROVE TypeOK'
    OBVIOUS
  <2>1. /\ hubDown' \in BOOLEAN /\ authDenied' \in BOOLEAN
        /\ unbornLogged' \in BOOLEAN /\ policyPending' \in BOOLEAN
        /\ policyWarned' \in BOOLEAN /\ circuitOpen' \in BOOLEAN
        /\ told' \in BOOLEAN
    BY HasPolicyAssumption
    DEF TypeOK, Next, vars, flags, HubError, NormalAnswer, OnTopicUnborn,
        OnOversize, OnEmpty, OnMessage, NoteRecovery, TopicAlive, Probe,
        Respawn
  <2>2. /\ nextMs' \in [Backoffs -> Nat] /\ delay' \in [Backoffs -> Nat]
        /\ row' \in [Backoffs -> Nat]
    <3>1. ASSUME NEW b \in Backoffs, Waits(b)
          PROVE  /\ nextMs' \in [Backoffs -> Nat]
                 /\ delay' \in [Backoffs -> Nat]
                 /\ row' \in [Backoffs -> Nat]
      <4>1. PICK j \in 0 .. nextMs[b] \div 8 :
              delay' = [delay EXCEPT ![b] = nextMs[b] + j]
        BY <3>1 DEF Waits
      <4>2. nextMs[b] + j \in Nat
        BY DEF TypeOK
      <4>3. Doubled(b) \in Nat
        BY BackoffAssumption DEF Doubled, Least, TypeOK
      <4>. QED  BY <3>1, <4>1, <4>2, <4>3 DEF Waits, TypeOK
    <3>2. ASSUME NEW b \in Backoffs, Reset(b)
          PROVE  /\ nextMs' \in [Backoffs -> Nat]
                 /\ delay' \in [Backoffs -> Nat]
                 /\ row' \in [Backoffs -> Nat]
      BY <3>2, BackoffAssumption DEF Reset, TypeOK
    <3>3. CASE Respawn \/ UNCHANGED vars
      BY <3>3, BackoffAssumption DEF Respawn, vars, backoffs, TypeOK
    <3>4. CASE OnMessage
      <4>1. CASE Reset("hub")
        BY <3>2, <4>1 DEF Backoffs
      <4>2. CASE ~Reset("hub")
        BY <3>4, <4>2, BackoffAssumption DEF OnMessage, TypeOK
      <4>. QED  BY <4>1, <4>2
    <3>5. CASE OnTopicUnborn \/ OnOversize \/ OnEmpty
      BY <3>2, <3>5 DEF OnTopicUnborn, OnOversize, OnEmpty, Backoffs
    <3>6. CASE Probe \/ \E denied \in BOOLEAN : HubError(denied)
      BY <3>1, <3>6 DEF Probe, HubError, Backoffs
    <3>. QED  BY <3>3, <3>4, <3>5, <3>6 DEF Next, NormalAnswer
  <2>3. lines' \in [Lines -> Nat]
    BY DEF TypeOK, Next, vars, HubError, NormalAnswer, OnTopicUnborn,
           OnOversize, OnEmpty, OnMessage, TopicAlive, Probe, Respawn,
           Recovered, Logged, Lines
  <2>. QED  BY <2>1, <2>2, <2>3 DEF TypeOK
<1>. QED  BY <1>1, <1>2, PTL DEF Spec

\* Each flag is up while its warning stands in the log.
LEMMA FlagsCountAlways == Spec => []FlagsCount
<1>1. Init => FlagsCount
  BY DEF Init, FlagsCount, Lines
<1>2. TypeOK /\ FlagsCount /\ [Next]_vars => FlagsCount'
  <2> SUFFICES ASSUME TypeOK, FlagsCount, [Next]_vars PROVE FlagsCount'
    OBVIOUS
  <2> USE DEF TypeOK, FlagsCount, Lines, Logged, Recovered
  <2>1. ASSUME NEW denied \in BOOLEAN, HubError(denied) PROVE FlagsCount'
    BY <2>1 DEF HubError
  <2>2. CASE OnTopicUnborn \/ OnOversize
    BY <2>2 DEF OnTopicUnborn, OnOversize, NoteRecovery
  <2>3. CASE OnEmpty \/ OnMessage
    BY <2>3 DEF OnEmpty, OnMessage, NoteRecovery, TopicAlive
  <2>4. CASE Probe \/ Respawn \/ UNCHANGED vars
    BY <2>4 DEF Probe, Respawn, vars, flags
  <2>. QED  BY <2>1, <2>2, <2>3, <2>4 DEF Next, NormalAnswer
<1>. QED  BY <1>1, <1>2, BackoffTypeCorrect, PTL DEF Spec

\* AR6: at most one warning of each cause until that cause is gone.
THEOREM LogIsQuiet == Spec => []OneLinePerCause
<1>1. TypeOK /\ FlagsCount => OneLinePerCause
  BY DEF TypeOK, FlagsCount, OneLinePerCause, Lines
<1>. QED  BY <1>1, FlagsCountAlways, BackoffTypeCorrect, PTL

\* What a backoff waits, after how many failures.
LEMMA StepAfterIs ==
  ASSUME NEW b \in Backoffs, NEW n \in Nat
  PROVE  /\ StepAfter(b, n) \in Nat
         /\ StepAfter(b, 0) = Base[b]
         /\ StepAfter(b, n + 1) = Least(2 * StepAfter(b, n), Cap[b])
<1>1. /\ Base[b] \in Nat /\ Cap[b] \in Nat /\ Base[b] <= Cap[b]
      /\ PowerOfTwo[n] \in Nat /\ PowerOfTwo[0] = 1
      /\ PowerOfTwo[n + 1] = 2 * PowerOfTwo[n]
  BY BackoffAssumption, PowerOfTwoIs
<1>2. /\ Base[b] * PowerOfTwo[n] \in Nat
      /\ Base[b] * PowerOfTwo[n + 1] = 2 * (Base[b] * PowerOfTwo[n])
      /\ Base[b] * PowerOfTwo[0] = Base[b]
  BY <1>1
<1>. QED  BY <1>1, <1>2 DEF StepAfter, Least

\* AR6: whatever outages came before, the n-th failure in a row is waited out
\* for the base doubled n - 1 times, or the cap, and no more than an eighth
\* longer.
THEOREM DelaysFollowFailures == Spec => []DelayFollowsFailures
<1> DEFINE Follows == StepFollowsRow /\ DelayFollowsFailures
<1>1. Init => Follows
  <2> SUFFICES ASSUME Init PROVE Follows
    OBVIOUS
  <2>1. \A b \in Backoffs : nextMs[b] = Base[b] /\ row[b] = 0
    BY DEF Init
  <2>2. StepFollowsRow
    BY <2>1, StepAfterIs DEF StepFollowsRow
  <2>. QED  BY <2>1, <2>2 DEF DelayFollowsFailures
<1>2. TypeOK /\ Follows /\ [Next]_vars => Follows'
  <2> SUFFICES ASSUME TypeOK, Follows, [Next]_vars PROVE Follows'
    OBVIOUS
  <2> DEFINE Waited(c, n, d) == /\ StepAfter(c, n - 1) <= d
                                /\ d <= StepAfter(c, n - 1)
                                        + StepAfter(c, n - 1) \div 8
  <2>0. /\ \A c \in Backoffs : nextMs[c] = StepAfter(c, row[c])
        /\ \A c \in Backoffs : row[c] > 0 => Waited(c, row[c], delay[c])
    BY DEF StepFollowsRow, DelayFollowsFailures
  <2>1. ASSUME \A c \in Backoffs :
                 /\ nextMs'[c] = StepAfter(c, row'[c])
                 /\ row'[c] > 0 => Waited(c, row'[c], delay'[c])
        PROVE  Follows'
    BY <2>1 DEF StepFollowsRow, DelayFollowsFailures, StepAfter
  <2>2. ASSUME NEW c \in Backoffs, nextMs'[c] = nextMs[c],
               row'[c] = row[c], delay'[c] = delay[c]
        PROVE  /\ nextMs'[c] = StepAfter(c, row'[c])
               /\ row'[c] > 0 => Waited(c, row'[c], delay'[c])
    BY <2>0, <2>2
  <2>3. ASSUME NEW c \in Backoffs, nextMs'[c] = Base[c], row'[c] = 0
        PROVE  /\ nextMs'[c] = StepAfter(c, row'[c])
               /\ row'[c] > 0 => Waited(c, row'[c], delay'[c])
    BY <2>3, StepAfterIs
  <2>4. ASSUME NEW b \in Backoffs, Waits(b) PROVE Follows'
    <3>1. PICK j \in 0 .. nextMs[b] \div 8 :
            delay' = [delay EXCEPT ![b] = nextMs[b] + j]
      BY <2>4 DEF Waits
    <3>2. /\ nextMs'[b] = Least(2 * nextMs[b], Cap[b])
          /\ delay'[b] = nextMs[b] + j /\ row'[b] = row[b] + 1
          /\ \A c \in Backoffs : c # b => /\ nextMs'[c] = nextMs[c]
                                          /\ delay'[c] = delay[c]
                                          /\ row'[c] = row[c]
      BY <2>4, <3>1 DEF Waits, Doubled, TypeOK
    <3>3. row[b] \in Nat /\ nextMs[b] \in Nat /\ row'[b] - 1 = row[b]
      BY <3>2 DEF TypeOK
    <3>4. nextMs'[b] = StepAfter(b, row'[b])
      BY <2>0, <3>2, <3>3, StepAfterIs
    <3>5. Waited(b, row'[b], delay'[b])
      <4>1. nextMs[b] = StepAfter(b, row'[b] - 1)
        BY <2>0, <3>3
      <4>2. nextMs[b] <= nextMs[b] + j /\ nextMs[b] + j <= nextMs[b] + nextMs[b] \div 8
        BY <3>3
      <4>. QED  BY <3>2, <4>1, <4>2
    <3> HIDE DEF Waited, Follows
    <3>. QED  BY <2>1, <2>2, <3>2, <3>4, <3>5
  <2>5. ASSUME NEW b \in Backoffs, Reset(b) PROVE Follows'
    <3>1. /\ nextMs'[b] = Base[b] /\ row'[b] = 0 /\ delay' = delay
          /\ \A c \in Backoffs : c # b => /\ nextMs'[c] = nextMs[c]
                                          /\ row'[c] = row[c]
      BY <2>5 DEF Reset, TypeOK
    <3> HIDE DEF Waited, Follows
    <3>. QED  BY <2>1, <2>2, <2>3, <3>1
  <2>6. ASSUME \A c \in Backoffs : nextMs'[c] = Base[c] /\ row'[c] = 0
        PROVE  Follows'
    <3> HIDE DEF Waited, Follows
    <3>. QED  BY <2>1, <2>3, <2>6
  <2>7. CASE Respawn
    BY <2>6, <2>7 DEF Respawn
  <2>8. CASE UNCHANGED vars
    <3>1. UNCHANGED <<nextMs, delay, row>>
      BY <2>8 DEF vars, backoffs
    <3> HIDE DEF Waited, Follows
    <3>. QED  BY <2>1, <2>2, <3>1
  <2>9. CASE OnMessage
    <3>1. CASE Reset("hub")
      BY <2>5, <3>1 DEF Backoffs
    <3>2. CASE ~Reset("hub")
      BY <2>6, <2>9, <3>2 DEF OnMessage
    <3>. QED  BY <3>1, <3>2
  <2>10. CASE OnTopicUnborn \/ OnOversize \/ OnEmpty
    BY <2>5, <2>10 DEF OnTopicUnborn, OnOversize, OnEmpty, Backoffs
  <2>11. CASE Probe \/ \E denied \in BOOLEAN : HubError(denied)
    BY <2>4, <2>11 DEF Probe, HubError, Backoffs
  <2>. QED  BY <2>7, <2>8, <2>9, <2>10, <2>11 DEF Next, NormalAnswer
<1>. QED  BY <1>1, <1>2, BackoffTypeCorrect, PTL DEF Spec

\* AR6: a recovery is logged exactly when a warning that the hub was gone,
\* or refused the token, still stood.
THEOREM RecoveryTold == Spec => RecoveryIsTold
<1>1. TypeOK /\ FlagsCount /\ [Next]_vars
      => [NormalAnswer =>
            (told' <=> lines["unreachable"] + lines["denied"] > 0)]_vars
  BY DEF TypeOK, FlagsCount, NormalAnswer, OnTopicUnborn, OnOversize, OnEmpty,
         OnMessage, NoteRecovery
<1>. QED
  BY <1>1, FlagsCountAlways, BackoffTypeCorrect, PTL DEF Spec, RecoveryIsTold

-----------------------------------------------------------------------------
(* ClaimReader.                                                             *)

\* Every variable keeps its type.
THEOREM ReaderTypeCorrect == ReadSpec => []ReadTypeOK
<1>1. ReadInit => ReadTypeOK
  BY DEF ReadInit, ReadTypeOK
<1>2. ReadTypeOK /\ [ReadNext]_readVars => ReadTypeOK'
  <2> SUFFICES ASSUME ReadTypeOK, [ReadNext]_readVars
               PROVE  ReadTypeOK'
    OBVIOUS
  <2>1. response.total \in Nat
    BY ReaderAssumption DEF ReadTypeOK, Response
  <2>2. CASE NextPoll
    BY <2>2 DEF NextPoll, ReadTypeOK
  <2>3. CASE Breaks \/ StatusArrives \/ IdRefused \/ BodyBegins \/ BodyEnds
    BY <2>3
    DEF Breaks, StatusArrives, IdRefused, BodyBegins, BodyEnds, Verdict,
        ReadTypeOK, Outcomes, Errors
  <2>4. CASE LengthRefused \/ Chunk
    BY <2>1, <2>4, ReaderAssumption
    DEF LengthRefused, Chunk, OverCap, Oversized, ReadTypeOK, Outcomes
  <2>5. CASE UNCHANGED readVars
    BY <2>5 DEF readVars, ReadTypeOK
  <2>. QED  BY <2>2, <2>3, <2>4, <2>5 DEF ReadNext, ReadStep
<1>. QED  BY <1>1, <1>2, PTL DEF ReadSpec

\* While the body is read, what is kept is what has arrived.
LEMMA ReadInvAlways == ReadSpec => []ReadInv
<1>1. ReadInit => ReadInv
  BY ReaderAssumption DEF ReadInit, ReadInv
<1>2. ReadTypeOK /\ ReadInv /\ [ReadNext]_readVars => ReadInv'
  <2> SUFFICES ASSUME ReadTypeOK, ReadInv, [ReadNext]_readVars
               PROVE  ReadInv'
    OBVIOUS
  <2>1. response.total \in Nat /\ arrived \in Nat /\ kept \in Nat
    BY ReaderAssumption DEF ReadTypeOK, Response
  <2>2. CASE NextPoll
    BY <2>2, ReaderAssumption DEF NextPoll, ReadInv
  <2>3. CASE ReadStep
    BY <2>1, <2>3, ReaderAssumption
    DEF ReadInv, ReadStep, Breaks, StatusArrives, IdRefused, LengthRefused,
        BodyBegins, Chunk, BodyEnds, Verdict, Oversized, OverCap
  <2>4. CASE UNCHANGED readVars
    BY <2>4 DEF readVars, ReadInv
  <2>. QED  BY <2>2, <2>3, <2>4 DEF ReadNext
<1>. QED  BY <1>1, <1>2, ReaderTypeCorrect, PTL DEF ReadSpec

\* Security F1: the buffer never outgrows the cap.
THEOREM BufferIsBounded == ReadSpec => []BufferBounded
<1>1. ReadInv => BufferBounded
  BY DEF ReadInv, BufferBounded
<1>. QED  BY <1>1, ReadInvAlways, PTL

\* A claim is a message or oversized exactly as its body's length says, and
\* a body that breaks off is neither.
THEOREM VerdictIsExact == ReadSpec => []VerdictExact
<1>1. ReadInit => VerdictExact
  BY DEF ReadInit, VerdictExact
<1>2. ReadTypeOK /\ ReadInv /\ VerdictExact /\ [ReadNext]_readVars
      => VerdictExact'
  <2> SUFFICES ASSUME ReadTypeOK, ReadInv, VerdictExact,
                      [ReadNext]_readVars
               PROVE  VerdictExact'
    OBVIOUS
  <2>1. response.total \in Nat /\ arrived \in Nat /\ kept \in Nat
    BY ReaderAssumption DEF ReadTypeOK, Response
  <2>2. CASE NextPoll
    BY <2>2 DEF NextPoll, VerdictExact
  <2>3. CASE ReadStep
    BY <2>1, <2>3, ReaderAssumption
    DEF ReadInv, VerdictExact, ReadStep, Breaks, StatusArrives, IdRefused,
        LengthRefused, TooLong, BodyBegins, Chunk, BodyEnds, Verdict,
        Oversized, OverCap
  <2>4. CASE UNCHANGED readVars
    BY <2>4 DEF readVars, VerdictExact
  <2>. QED  BY <2>2, <2>3, <2>4 DEF ReadNext
<1>. QED  BY <1>1, <1>2, ReadInvAlways, ReaderTypeCorrect, PTL DEF ReadSpec

-----------------------------------------------------------------------------
(* HubPolls.                                                                *)

\* The loop that reads its polls behaves as HubBackoff says, whatever the
\* hub sends, so that the theorems above are about it.
THEOREM PollsAreOutcomes == PollSpec => Spec
<1>1. PollInit => Init
  BY DEF PollInit
<1>2. [PollNext]_pollVars => [Next]_vars
  <2>1. Handles => Next
    BY DEF Handles, Next, NormalAnswer
  <2>2. Reads => UNCHANGED vars
    BY DEF Reads
  <2>3. WaitsOutCircuit \/ Respawns => Next
    BY DEF WaitsOutCircuit, Respawns, Next
  <2>4. UNCHANGED pollVars => UNCHANGED vars
    BY DEF pollVars
  <2>. QED  BY <2>1, <2>2, <2>3, <2>4 DEF PollNext
<1>. QED  BY <1>1, <1>2, PTL DEF PollSpec, Spec

\* And every poll of it is read as ClaimReader says.
THEOREM PollsAreRead == PollSpec => ReadSpec
<1>1. PollInit => ReadInit
  BY DEF PollInit
<1>2. [PollNext]_pollVars => [ReadNext]_readVars
  <2>1. Handles \/ Respawns => NextPoll
    BY DEF Handles, Respawns
  <2>2. Reads => ReadStep
    BY DEF Reads
  <2>3. WaitsOutCircuit \/ UNCHANGED pollVars => UNCHANGED readVars
    BY DEF WaitsOutCircuit, pollVars
  <2>. QED  BY <2>1, <2>2, <2>3 DEF PollNext, ReadNext
<1>. QED  BY <1>1, <1>2, PTL DEF PollSpec, ReadSpec

\* So each of the properties of the two parts is one of the loop that polls.
THEOREM PollsAreSafe ==
  PollSpec => /\ [](BufferBounded /\ VerdictExact)
              /\ [](OneLinePerCause /\ DelayFollowsFailures)
              /\ RecoveryIsTold
  BY PollsAreOutcomes, PollsAreRead, BufferIsBounded, VerdictIsExact,
     LogIsQuiet, DelaysFollowFailures, RecoveryTold, PTL
=============================================================================
