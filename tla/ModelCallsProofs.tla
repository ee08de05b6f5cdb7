--------------------------- MODULE ModelCallsProofs ---------------------------
(***************************************************************************)
(* Proofs about the calls of the model, for any number of runs, auxiliary  *)
(* calls, keys and tools, any errors, and any times of cooldown and        *)
(* suppression.                                                            *)
(*                                                                         *)
(* The histories heard and ended say what came back; the invariants        *)
(* KeysHeard and ToolsEnded say that the pool and the health of the tools  *)
(* remember just as much of it as the properties need.                     *)
(***************************************************************************)
EXTENDS ModelCalls, WellFoundedInduction, SequenceTheorems, TLAPS

USE CallAssumption

-----------------------------------------------------------------------------
(* Smallest elements.                                                      *)

Less == {pair \in Nat \X Nat : pair[1] < pair[2]}

\* A set of naturals has a smallest element.
LEMMA SmallestOf ==
  ASSUME NEW S, S \subseteq Nat, S # {}
  PROVE  \E x \in S : \A y \in S : x <= y
<1>1. IsWellFoundedOn(Less, Nat)
  BY NatLessThanWellFounded DEF OpToRel, Less
<1>2. PICK x \in S : \A y \in S : ~(<<y, x>> \in Less)
  BY <1>1, WFMin
<1>3. ASSUME NEW y \in S
      PROVE  x <= y
  <2>1. x \in Nat /\ y \in Nat /\ <<y, x>> \in Nat \X Nat
    OBVIOUS
  <2>2. ~(y < x)
    BY <1>2, <2>1 DEF Less
  <2>3. QED
    BY <2>1, <2>2
<1>4. QED
  BY <1>3

\* ... and so one with the smallest value, whatever is measured.
LEMMA SmallestBy ==
  ASSUME NEW S, S # {}, NEW f, \A x \in S : f[x] \in Nat
  PROVE  \E x \in S : \A y \in S : f[x] <= f[y]
<1>1. PICK m \in {f[x] : x \in S} : \A n \in {f[x] : x \in S} : m <= n
  <2>1. {f[x] : x \in S} \subseteq Nat /\ {f[x] : x \in S} # {}
    OBVIOUS
  <2>2. QED
    BY <2>1, SmallestOf
<1>2. PICK x \in S : m = f[x]
  BY <1>1
<1>3. \A y \in S : f[x] <= f[y]
  BY <1>1, <1>2
<1>4. QED
  BY <1>3

-----------------------------------------------------------------------------
(* The classifier and the strategies.                                      *)

\* Every error is taken for something.
LEMMA ClassifyInReasons ==
  ASSUME NEW error
  PROVE  Classify(error) \in Reasons
<1> DEFINE hits == {i \in DOMAIN Rules : Applies(Rules[i], error)}
<1>1. CASE hits = {}
  BY <1>1 DEF Classify, Reasons
<1>2. CASE hits # {}
  <2>1. DOMAIN Rules \subseteq Nat
    BY DEF Rules
  <2>2. PICK x \in hits : \A y \in hits : x <= y
    BY <1>2, <2>1, SmallestOf
  <2>3. Min(hits) \in hits
    BY <2>2 DEF Min
  <2>4. QED
    BY <1>2, <2>3 DEF Classify, Reasons
<1>3. QED
  BY <1>1, <1>2

\* What must never be retried has its strategy, and so has what may be.
LEMMA StrategiesAgree ==
  ASSUME NEW reason
  PROVE  /\ reason \in NeverRetry => Strategy(reason) = "abort"
         /\ reason \in Retryable => Strategy(reason) = "retry"
         /\ "none" \notin NeverRetry \cup Retryable
BY DEF Strategy, NeverRetry, Retryable

-----------------------------------------------------------------------------
(* The choice of a key.                                                    *)

KeyRows == [until : Nat, last : Nat, uses : Nat]

\* One difference decides.
LEMMA BeforeByFirst ==
  ASSUME NEW j, NEW k,
         \/ Priority[j] < Priority[k]
         \/ Priority[j] = Priority[k] /\ key[j].uses < key[k].uses
         \/ Priority[j] = Priority[k] /\ key[j].uses = key[k].uses /\ key[j].last < key[k].last
         \/ /\ Priority[j] = Priority[k] /\ key[j].uses = key[k].uses /\ key[j].last = key[k].last
            /\ j < k
  PROVE  Before(j, k)
<1> DEFINE a == <<Priority[j], key[j].uses, key[j].last, j>>
           b == <<Priority[k], key[k].uses, key[k].last, k>>
<1>1. /\ a[1] = Priority[j] /\ a[2] = key[j].uses /\ a[3] = key[j].last /\ a[4] = j
      /\ b[1] = Priority[k] /\ b[2] = key[k].uses /\ b[3] = key[k].last /\ b[4] = k
  OBVIOUS
<1> HIDE DEF a, b
<1>2. \E i \in 1..4 : a[i] < b[i] /\ \A h \in 1..(i - 1) : a[h] = b[h]
  <2>1. CASE Priority[j] < Priority[k]
    <3>1. a[1] < b[1] /\ \A h \in 1..(1 - 1) : a[h] = b[h]
      BY <1>1, <2>1
    <3>2. QED
      BY <3>1
  <2>2. CASE Priority[j] = Priority[k] /\ key[j].uses < key[k].uses
    <3>1. a[2] < b[2] /\ \A h \in 1..(2 - 1) : a[h] = b[h]
      BY <1>1, <2>2
    <3>2. QED
      BY <3>1
  <2>3. CASE Priority[j] = Priority[k] /\ key[j].uses = key[k].uses /\ key[j].last < key[k].last
    <3>1. a[3] < b[3] /\ \A h \in 1..(3 - 1) : a[h] = b[h]
      BY <1>1, <2>3
    <3>2. QED
      BY <3>1
  <2>4. CASE /\ Priority[j] = Priority[k] /\ key[j].uses = key[k].uses
             /\ key[j].last = key[k].last /\ j < k
    <3>1. a[4] < b[4] /\ \A h \in 1..(4 - 1) : a[h] = b[h]
      BY <1>1, <2>4
    <3>2. QED
      BY <3>1
  <2>5. QED
    BY <2>1, <2>2, <2>3, <2>4
<1>3. QED
  BY <1>2 DEF Before, a, b

\* Who comes before another does not have a lower precedence.
LEMMA BeforeByPriority ==
  ASSUME NEW j \in Keys, NEW k \in Keys, Before(j, k)
  PROVE  Priority[j] <= Priority[k]
<1> DEFINE a == <<Priority[j], key[j].uses, key[j].last, j>>
           b == <<Priority[k], key[k].uses, key[k].last, k>>
<1>1. PICK i \in 1..4 : a[i] < b[i] /\ \A h \in 1..(i - 1) : a[h] = b[h]
  BY DEF Before
<1>2. a[1] = Priority[j] /\ b[1] = Priority[k]
  OBVIOUS
<1>3. Priority[j] \in Nat /\ Priority[k] \in Nat
  OBVIOUS
<1> HIDE DEF a, b
<1>4. CASE i = 1
  BY <1>1, <1>2, <1>3, <1>4
<1>5. CASE i # 1
  <2>1. 1 \in 1..(i - 1)
    BY <1>5
  <2>2. QED
    BY <1>1, <1>2, <1>3, <2>1
<1>6. QED
  BY <1>4, <1>5

\* Among keys there is one before all the others.
LEMMA FirstOfKeys ==
  ASSUME key \in [Keys -> KeyRows], NEW C, C \subseteq Keys, C # {}
  PROVE  \E k \in C : \A j \in C \ {k} : Before(k, j)
<1> DEFINE usesOf == [k \in Keys |-> key[k].uses]
           lastOf == [k \in Keys |-> key[k].last]
<1>1. \A k \in Keys : /\ Priority[k] \in Nat /\ usesOf[k] \in Nat /\ lastOf[k] \in Nat /\ k \in Nat
                      /\ usesOf[k] = key[k].uses /\ lastOf[k] = key[k].last
  BY DEF KeyRows
<1> HIDE DEF usesOf, lastOf
<1>2. PICK p \in C : \A j \in C : Priority[p] <= Priority[j]
  BY <1>1, SmallestBy
<1> DEFINE C1 == {j \in C : Priority[j] = Priority[p]}
<1>3. PICK u \in C1 : \A j \in C1 : usesOf[u] <= usesOf[j]
  BY <1>1, SmallestBy
<1> DEFINE C2 == {j \in C1 : usesOf[j] = usesOf[u]}
<1>4. PICK l \in C2 : \A j \in C2 : lastOf[l] <= lastOf[j]
  BY <1>1, SmallestBy
<1> DEFINE C3 == {j \in C2 : lastOf[j] = lastOf[l]}
<1>5. PICK k \in C3 : \A j \in C3 : k <= j
  <2>1. C3 \subseteq Nat /\ C3 # {}
    BY <1>1
  <2>2. QED
    BY <2>1, SmallestOf
<1>6. ASSUME NEW j \in C \ {k}
      PROVE  Before(k, j)
  <2>1. /\ Priority[k] \in Nat /\ key[k].uses \in Nat /\ key[k].last \in Nat /\ k \in Nat
        /\ Priority[j] \in Nat /\ key[j].uses \in Nat /\ key[j].last \in Nat /\ j \in Nat
    BY <1>1
  <2>2. Priority[k] <= Priority[j]
    BY <1>2
  <2>3. Priority[k] = Priority[j] => key[k].uses <= key[j].uses
    BY <1>1, <1>3
  <2>4. Priority[k] = Priority[j] /\ key[k].uses = key[j].uses => key[k].last <= key[j].last
    BY <1>1, <1>4
  <2>5. Priority[k] = Priority[j] /\ key[k].uses = key[j].uses /\ key[k].last = key[j].last
          => k <= j
    BY <1>1, <1>5
  <2>6. \/ Priority[k] < Priority[j]
        \/ Priority[k] = Priority[j] /\ key[k].uses < key[j].uses
        \/ Priority[k] = Priority[j] /\ key[k].uses = key[j].uses /\ key[k].last < key[j].last
        \/ /\ Priority[k] = Priority[j] /\ key[k].uses = key[j].uses /\ key[k].last = key[j].last
           /\ k < j
    BY <2>1, <2>2, <2>3, <2>4, <2>5
  <2>7. QED
    BY <2>6, BeforeByFirst
<1>7. QED
  BY <1>6

\* acquire answers None only without a candidate, and else one that no
\* candidate has precedence over.
LEMMA AcquiredIsFirst ==
  ASSUME key \in [Keys -> KeyRows]
  PROVE  IF Candidates = {} THEN Acquired = None
         ELSE /\ Acquired \in Candidates /\ Acquired # None
              /\ \A j \in Candidates : Priority[Acquired] <= Priority[j]
<1>1. Candidates \subseteq Keys
  BY DEF Candidates
<1>2. CASE Candidates = {}
  BY <1>2 DEF Acquired
<1>3. CASE Candidates # {}
  <2>1. Acquired \in Candidates /\ \A j \in Candidates \ {Acquired} : Before(Acquired, j)
    BY <1>1, <1>3, FirstOfKeys DEF Acquired
  <2>2. Acquired # None
    BY <1>1, <2>1 DEF None
  <2>3. \A j \in Candidates : Priority[Acquired] <= Priority[j]
    BY <1>1, <2>1, BeforeByPriority
  <2>4. QED
    BY <1>3, <2>1, <2>2, <2>3
<1>4. QED
  BY <1>2, <1>3

-----------------------------------------------------------------------------
(* The invariant.                                                          *)

\* A key rests for the cooldown after its latest answer, if that is a failure.
KeyRemembers(k) ==
  key[k].until = IF heard[k].what = "failure" THEN heard[k].at + Cooldown ELSE 0

KeysHeard == \A k \in Keys : KeyRemembers(k)

\* The failures at the end of a sequence of ends: none, one, or more, the
\* latest at a time.
NoneAtEnd(ends) == Len(ends) = 0 \/ ends[Len(ends)].what = "success"

OneAtEnd(ends) ==
  /\ Len(ends) > 0 /\ ends[Len(ends)].what = "failure"
  /\ Len(ends) = 1 \/ ends[Len(ends) - 1].what = "success"

TwoAtEnd(ends) ==
  /\ Len(ends) > 1
  /\ ends[Len(ends)].what = "failure" /\ ends[Len(ends) - 1].what = "failure"

\* The health of a tool counts them.
ToolRemembers(row, ends) ==
  \/ NoneAtEnd(ends) /\ row.failures = 0 /\ row.until = 0
  \/ OneAtEnd(ends) /\ row.failures = 1 /\ row.until = 0
  \/ TwoAtEnd(ends) /\ row.failures >= 2 /\ row.until = ends[Len(ends)].at + Suppression

ToolsEnded == \A t \in Tools : ToolRemembers(health[t], ended[t])

\* A call has had no error, or one that is being handled as it should be.
Repeated(row) ==
  /\ row.at = "idle" => row.reason = "none"
  /\ row.reason \in NeverRetry => row.at = "done"
  /\ row.at = "done" /\ row.reason \in Retryable => row.attempt = MaxRetries

Repeats == \A c \in Runs : Repeated(call[c])

IInv == TypeOK /\ KeysHeard /\ ToolsEnded /\ Repeats

LEMMA InvInit == Init => IInv
<1> SUFFICES ASSUME Init
             PROVE  IInv
  OBVIOUS
<1>1. TypeOK
  <2>1. key \in [Keys -> KeyState] /\ health \in [Tools -> [failures : Nat, until : Nat]]
    BY DEF Init, KeyState, Healthy
  <2>2. call \in [Callers -> CallState]
    BY DEF Init, CallState, Fresh, Reasons
  <2>3. heard \in [Keys -> [what : {"nothing", "success", "failure"}, at : Nat]]
    BY DEF Init
  <2>4. ended \in [Tools -> Seq(End)]
    BY EmptySeq DEF Init
  <2>5. QED
    BY <2>1, <2>2, <2>3, <2>4 DEF Init, TypeOK
<1>2. KeysHeard
  BY DEF Init, KeysHeard, KeyRemembers
<1>3. ToolsEnded
  BY EmptySeq DEF Init, ToolsEnded, ToolRemembers, NoneAtEnd, Healthy
<1>4. Repeats
  BY StrategiesAgree DEF Init, Repeats, Repeated, Fresh, Callers
<1>5. QED
  BY <1>1, <1>2, <1>3, <1>4 DEF IInv

\* The answer of the model, or its failure, to a call with key k.
LEMMA AnswerRemembered ==
  ASSUME TypeOK, KeysHeard, NEW k \in Keys \cup {None}, NEW what \in {"success", "failure"},
         key' = WithAnswer(k, what), heard' = Heard(k, what)
  PROVE  /\ key' \in [Keys -> KeyState]
         /\ heard' \in [Keys -> [what : {"nothing", "success", "failure"}, at : Nat]]
         /\ KeysHeard'
<1>1. CASE k = None
  BY <1>1 DEF WithAnswer, Heard, TypeOK, KeysHeard, KeyRemembers
<1>2. CASE k # None
  <2>1. k \in Keys
    BY <1>2
  <2>2. /\ key' = [key EXCEPT ![k].until = IF what = "success" THEN 0 ELSE now + Cooldown]
        /\ heard' = [heard EXCEPT ![k] = [what |-> what, at |-> now]]
    BY <1>2 DEF WithAnswer, Heard
  <2>3. now \in Nat /\ key \in [Keys -> KeyState]
        /\ heard \in [Keys -> [what : {"nothing", "success", "failure"}, at : Nat]]
    BY DEF TypeOK
  <2>4. key' \in [Keys -> KeyState]
    BY <2>1, <2>2, <2>3 DEF KeyState
  <2>5. heard' \in [Keys -> [what : {"nothing", "success", "failure"}, at : Nat]]
    BY <2>1, <2>2, <2>3
  <2>6. KeysHeard'
    BY <2>1, <2>2, <2>3 DEF KeysHeard, KeyRemembers, KeyState
  <2>7. QED
    BY <2>4, <2>5, <2>6
<1>3. QED
  BY <1>1, <1>2

\* The end of an execution of a registered tool.
LEMMA EndRemembered ==
  ASSUME TypeOK, ToolsEnded, NEW t \in Tools, NEW what \in {"success", "failure"},
         health' = WithEnd(t, what),
         ended' = [ended EXCEPT ![t] = Append(@, [what |-> what, at |-> now])]
  PROVE  /\ health' \in [Tools -> [failures : Nat, until : Nat]]
         /\ ended' \in [Tools -> Seq(End)]
         /\ ToolsEnded'
<1> DEFINE e == [what |-> what, at |-> now]
           old == ended[t]
           new == Append(ended[t], e)
<1>1. /\ health \in [Tools -> [failures : Nat, until : Nat]] /\ ended \in [Tools -> Seq(End)]
      /\ now \in Nat /\ e \in End
  BY DEF TypeOK, End
<1>2. /\ old \in Seq(End) /\ Len(old) \in Nat
      /\ new \in Seq(End) /\ Len(new) = Len(old) + 1
      /\ new[Len(old) + 1] = e
      /\ Len(old) > 0 => new[Len(old)] = old[Len(old)]
  <2>1. old \in Seq(End)
    BY <1>1
  <2>2. Len(old) \in Nat
    BY <2>1, LenProperties
  <2>3. /\ new \in Seq(End) /\ Len(new) = Len(old) + 1
        /\ \A i \in 1..Len(old) : new[i] = old[i]
        /\ new[Len(old) + 1] = e
    BY <1>1, <2>1, AppendProperties
  <2>4. QED
    BY <2>1, <2>2, <2>3
<1>3. ended'[t] = new /\ \A s \in Tools \ {t} : ended'[s] = ended[s] /\ health'[s] = health[s]
  BY <1>1 DEF WithEnd
<1>4. ended' \in [Tools -> Seq(End)]
  BY <1>1, <1>2
<1>5. health' \in [Tools -> [failures : Nat, until : Nat]]
  BY <1>1 DEF WithEnd, Healthy
<1>6. e.what = what /\ e.at = now
  OBVIOUS
<1> HIDE DEF e, old, new
<1>7. ToolRemembers(health[t], old)
  BY DEF ToolsEnded, old
<1>8. ToolRemembers(health'[t], new)
  <2>1. CASE what = "success"
    <3>1. health'[t].failures = 0 /\ health'[t].until = 0
      BY <1>1, <2>1 DEF WithEnd, Healthy
    <3>2. NoneAtEnd(new)
      BY <1>2, <1>6, <2>1 DEF NoneAtEnd
    <3>3. QED
      BY <3>1, <3>2 DEF ToolRemembers
  <2>2. CASE what = "failure"
    <3>1. /\ health'[t].failures = health[t].failures + 1
          /\ health'[t].until = IF health[t].failures + 1 >= 2 THEN now + Suppression
                                ELSE health[t].until
      BY <1>1, <2>2 DEF WithEnd
    <3>2. new[Len(new)].what = "failure" /\ new[Len(new)].at = now /\ Len(new) - 1 = Len(old)
      BY <1>2, <1>6, <2>2
    <3>3. health[t].failures \in Nat
      BY <1>1
    <3>4. CASE NoneAtEnd(old) /\ health[t].failures = 0 /\ health[t].until = 0
      <4>1. OneAtEnd(new)
        BY <1>2, <3>2, <3>4 DEF NoneAtEnd, OneAtEnd
      <4>2. QED
        BY <3>1, <3>4, <4>1 DEF ToolRemembers
    <3>5. CASE (OneAtEnd(old) \/ TwoAtEnd(old)) /\ health[t].failures >= 1
      <4>1. Len(old) > 0 /\ old[Len(old)].what = "failure"
        BY <1>2, <3>5 DEF OneAtEnd, TwoAtEnd
      <4>2. TwoAtEnd(new)
        BY <1>2, <3>2, <4>1 DEF TwoAtEnd
      <4>3. health'[t].failures >= 2 /\ health'[t].until = now + Suppression
        BY <3>1, <3>3, <3>5
      <4>4. QED
        BY <3>2, <4>2, <4>3 DEF ToolRemembers
    <3>6. QED
      BY <1>7, <3>3, <3>4, <3>5 DEF ToolRemembers
  <2>3. QED
    BY <2>1, <2>2
<1>9. ToolsEnded'
  BY <1>3, <1>8 DEF ToolsEnded
<1>10. QED
  BY <1>4, <1>5, <1>9

\* Tools that are taken out, or registered anew, begin with nothing.
LEMMA RefreshedRemembered ==
  ASSUME TypeOK, ToolsEnded, NEW S \in SUBSET Tools,
         health' = [t \in Tools |-> IF t \in S THEN Healthy ELSE health[t]],
         ended' = [t \in Tools |-> IF t \in S THEN <<>> ELSE ended[t]]
  PROVE  /\ health' \in [Tools -> [failures : Nat, until : Nat]]
         /\ ended' \in [Tools -> Seq(End)]
         /\ ToolsEnded'
<1>1. health' \in [Tools -> [failures : Nat, until : Nat]]
  BY DEF TypeOK, Healthy
<1>2. ended' \in [Tools -> Seq(End)]
  BY EmptySeq DEF TypeOK
<1>3. ASSUME NEW t \in Tools
      PROVE  ToolRemembers(health'[t], ended'[t])
  <2>1. CASE t \in S
    <3>1. Len(ended'[t]) = 0 /\ health'[t].failures = 0 /\ health'[t].until = 0
      BY <2>1, EmptySeq DEF Healthy
    <3>2. QED
      BY <3>1 DEF ToolRemembers, NoneAtEnd
  <2>2. CASE t \notin S
    BY <2>2 DEF ToolsEnded
  <2>3. QED
    BY <2>1, <2>2
<1>4. QED
  BY <1>1, <1>2, <1>3 DEF ToolsEnded

-----------------------------------------------------------------------------
(* The rows of the calls.                                                    *)

Places == {"idle", "assembling", "sent", "asleep", "compacting", "done"}

\* A row whose place changes is one of a call.
LEMMA RowMoved ==
  ASSUME NEW row \in CallState, NEW at \in Places
  PROVE  [row EXCEPT !.at = at] \in CallState
BY DEF CallState, Places

\* So is one whose place and error change,
LEMMA RowJudged ==
  ASSUME NEW row \in CallState, NEW at \in Places, NEW reason \in Reasons
  PROVE  [row EXCEPT !.at = at, !.reason = reason] \in CallState
BY DEF CallState, Places

\* or its key and tools,
LEMMA RowEquipped ==
  ASSUME NEW row \in CallState, NEW k \in Keys \cup {None}, NEW tools \in SUBSET Core
  PROVE  [row EXCEPT !.key = k, !.tools = tools] \in CallState
BY DEF CallState

\* or its attempt.
LEMMA RowCounted ==
  ASSUME NEW row \in CallState, NEW attempt \in 0..MaxRetries
  PROVE  [row EXCEPT !.attempt = attempt] \in CallState
BY DEF CallState

\* What is done about an error is within the attempts and the strategy.
LEMMA HandledAsTabled ==
  ASSUME NEW c \in Callers, NEW reason
  PROVE  /\ Handled(c, reason) \in {"assembling", "asleep", "compacting", "done"}
         /\ Handled(c, reason) # "done" => call[c].attempt < MaxRetries
         /\ Handled(c, reason) = "done" /\ Strategy(reason) = "retry"
              => ~(call[c].attempt < MaxRetries)
         /\ Strategy(reason) = "abort" => Handled(c, reason) = "done"
<1>1. CASE Strategy(reason) = "retry" /\ call[c].attempt < MaxRetries
  BY <1>1 DEF Handled
<1>2. CASE ~(call[c].attempt < MaxRetries)
  BY <1>2 DEF Handled
<1>3. CASE Strategy(reason) # "retry" /\ call[c].attempt < MaxRetries
  BY <1>3 DEF Handled
<1>4. QED
  BY <1>1, <1>2, <1>3

\* What forward_with_handling makes of an error keeps to the tables.
LEMMA ErrorHandled ==
  ASSUME TypeOK, Repeats, NEW c \in Callers, NEW error, call[c].at # "done",
         call' = AfterError(c, Classify(error))
  PROVE  call' \in [Callers -> CallState] /\ Repeats'
<1>1. PICK reason \in Reasons : reason = Classify(error)
  BY ClassifyInReasons
<1>2. PICK at \in Places : at = Handled(c, reason)
  BY HandledAsTabled DEF Places
<1>3. call \in [Callers -> CallState] /\ call[c].attempt \in 0..MaxRetries
  BY DEF TypeOK, CallState
<1>4. PICK attempt \in 0..MaxRetries :
        attempt = IF at = "done" THEN call[c].attempt ELSE call[c].attempt + 1
  BY <1>2, <1>3, HandledAsTabled
<1> DEFINE row == [call[c] EXCEPT !.at = at, !.reason = reason, !.key = None, !.tools = {},
                                  !.attempt = attempt]
<1>5. row \in CallState
  <2>1. PICK judged \in CallState : judged = [call[c] EXCEPT !.at = at, !.reason = reason]
    BY <1>3, RowJudged
  <2>2. None \in Keys \cup {None} /\ {} \in SUBSET Core
    OBVIOUS
  <2>3. PICK bare \in CallState : bare = [judged EXCEPT !.key = None, !.tools = {}]
    BY <2>2, RowEquipped
  <2>4. [bare EXCEPT !.attempt = attempt] \in CallState
    BY RowCounted
  <2>5. QED
    BY <2>1, <2>3, <2>4
<1>6. row.at = at /\ row.reason = reason /\ row.attempt = attempt
  BY <1>3 DEF CallState
<1>7. call' = [call EXCEPT ![c] = row]
  <2>1. AfterError(c, reason) =
          [call EXCEPT ![c] =
             [call[c] EXCEPT !.at = Handled(c, reason), !.reason = reason, !.key = None,
                             !.tools = {}, !.attempt = attempt]]
    BY <1>2, <1>4 DEF AfterError
  <2>2. QED
    BY <1>1, <1>2, <2>1
<1> HIDE DEF row
<1>8. call' \in [Callers -> CallState]
  BY <1>3, <1>5, <1>7
<1>9. Repeated(row)
  BY <1>2, <1>3, <1>4, <1>6, HandledAsTabled, StrategiesAgree DEF Repeated
<1>10. Repeats'
  BY <1>3, <1>7, <1>9 DEF Repeats, Callers
<1>11. QED
  BY <1>8, <1>10

\* A call goes on without an error: as it was, or with its error forgotten.
LEMMA RowRepeats ==
  ASSUME TypeOK, Repeats, NEW c \in Callers, NEW row \in CallState,
         call' = [call EXCEPT ![c] = row],
         c \in Runs => \/ row.reason = "none"
                       \/ row.reason = call[c].reason /\ row.at # "done" /\ call[c].at # "done"
                          /\ row.at # "idle"
  PROVE  call' \in [Callers -> CallState] /\ Repeats'
<1>1. call' \in [Callers -> CallState]
  BY DEF TypeOK
<1>2. c \in Runs => Repeated(row)
  BY StrategiesAgree DEF Repeats, Repeated
<1>3. QED
  BY <1>1, <1>2 DEF Repeats, TypeOK, Callers

LEMMA InvNext == IInv /\ [Next]_vars => IInv'
<1> SUFFICES ASSUME IInv, [Next]_vars
             PROVE  IInv'
  OBVIOUS
<1> USE DEF IInv
<1>1. /\ now \in Nat /\ refreshes \in Nat /\ left \in [requests : Nat, uses : Nat]
      /\ key \in [Keys -> KeyState]
      /\ health \in [Tools -> [failures : Nat, until : Nat]]
      /\ registered \subseteq Tools
      /\ executing \in [Tools -> Nat]
      /\ call \in [Callers -> CallState]
      /\ heard \in [Keys -> [what : {"nothing", "success", "failure"}, at : Nat]]
      /\ ended \in [Tools -> Seq(End)]
  BY DEF TypeOK
<1>2. ASSUME UNCHANGED <<key, heard>>
      PROVE  KeysHeard'
  BY <1>2 DEF KeysHeard, KeyRemembers
<1>3. ASSUME UNCHANGED <<health, ended>>
      PROVE  ToolsEnded'
  BY <1>3 DEF ToolsEnded
<1>4. ASSUME UNCHANGED call
      PROVE  Repeats'
  BY <1>4 DEF Repeats
<1>5. ASSUME NEW what \in {"requests", "uses"}, Takes(what)
      PROVE  left' \in [requests : Nat, uses : Nat]
  <2>1. left.requests \in Nat /\ left.uses \in Nat /\ left[what] > 0
    BY <1>1, <1>5 DEF Takes
  <2>2. CASE what = "requests"
    <3>1. PICK n \in Nat : n = left.requests - 1
      BY <2>1, <2>2
    <3>2. left' = [left EXCEPT !.requests = n]
      BY <1>5, <2>2, <3>1 DEF Takes
    <3>3. QED
      BY <1>1, <3>2
  <2>3. CASE what = "uses"
    <3>1. PICK n \in Nat : n = left.uses - 1
      BY <2>1, <2>3
    <3>2. left' = [left EXCEPT !.uses = n]
      BY <1>5, <2>3, <3>1 DEF Takes
    <3>3. QED
      BY <1>1, <3>2
  <2>4. QED
    BY <2>2, <2>3
<1>6. CASE UNCHANGED vars
  BY <1>1, <1>2, <1>3, <1>4, <1>6 DEF vars, TypeOK
<1>7. CASE Tick
  BY <1>1, <1>2, <1>3, <1>4, <1>7 DEF Tick, TypeOK
<1>8. ASSUME NEW c \in Callers, Begin(c)
      PROVE  IInv'
  <2>1. [call[c] EXCEPT !.at = "assembling"] \in CallState
    BY <1>1, RowMoved DEF Places
  <2>2. call' \in [Callers -> CallState] /\ Repeats'
    <3>1. PICK row \in CallState : row = [call[c] EXCEPT !.at = "assembling"]
      BY <2>1
    <3>2. row.reason = "none"
      BY <1>1, <1>8, <3>1 DEF Begin, At, Repeats, Repeated, CallState
    <3>3. call' = [call EXCEPT ![c] = row]
      BY <1>1, <1>8, <3>1 DEF Begin
    <3>4. QED
      BY <3>2, <3>3, RowRepeats
  <2>3. QED
    BY <1>1, <1>2, <1>3, <1>8, <2>2 DEF Begin, TypeOK
<1>9. ASSUME NEW c \in Callers, Send(c)
      PROVE  IInv'
  <2>1. Acquired \in Keys \cup {None}
    BY <1>1, AcquiredIsFirst DEF KeyState, KeyRows, Candidates
  <2>2. PICK k \in Keys \cup {None} : k = Acquired
    BY <2>1
  <2>3. key' \in [Keys -> KeyState] /\ KeysHeard'
    <3>1. key' = WithUse(k) /\ UNCHANGED heard
      BY <1>9, <2>2 DEF Send
    <3>2. CASE k = None
      BY <1>1, <3>1, <3>2 DEF WithUse, KeysHeard, KeyRemembers
    <3>3. CASE k \in Keys /\ k # None
      <4>1. key[k] \in KeyState
        BY <1>1, <3>3
      <4>2. PICK used \in KeyState : used = [key[k] EXCEPT !.uses = key[k].uses + 1, !.last = now]
        <5>1. key[k].uses + 1 \in Nat
          BY <4>1 DEF KeyState
        <5>2. QED
          BY <1>1, <4>1, <5>1 DEF KeyState
      <4>3. used.until = key[k].until
        BY <4>1, <4>2 DEF KeyState
      <4>4. key' = [key EXCEPT ![k] = used]
        BY <1>1, <3>1, <3>3, <4>1, <4>2 DEF WithUse, KeyState
      <4>5. QED
        BY <1>1, <3>1, <3>3, <4>3, <4>4 DEF KeysHeard, KeyRemembers
    <3>4. QED
      BY <3>2, <3>3
  <2>4. PICK tools \in SUBSET Core :
          call' = [call EXCEPT ![c] = [@ EXCEPT !.at = "sent", !.key = k, !.tools = tools]]
    BY <1>9, <2>2 DEF Send, Offered
  <2>5. PICK row \in CallState :
          row = [call[c] EXCEPT !.at = "sent", !.key = k, !.tools = tools]
    <3>1. PICK moved \in CallState : moved = [call[c] EXCEPT !.at = "sent"]
      BY <1>1, RowMoved DEF Places
    <3>2. [moved EXCEPT !.key = k, !.tools = tools] \in CallState
      BY RowEquipped
    <3>3. QED
      BY <3>1, <3>2
  <2>6. call' = [call EXCEPT ![c] = row]
    BY <1>1, <2>4, <2>5
  <2>7. /\ row.reason = call[c].reason /\ row.at = "sent" /\ call[c].at # "done"
    BY <1>1, <1>9, <2>5 DEF CallState, Send, At
  <2>8. call' \in [Callers -> CallState] /\ Repeats'
    BY <2>6, <2>7, RowRepeats
  <2>9. left' \in [requests : Nat, uses : Nat]
    BY <1>5, <1>9 DEF Send
  <2>10. QED
    BY <1>1, <1>3, <1>9, <2>3, <2>8, <2>9 DEF Send, TypeOK
<1>10. ASSUME NEW c \in Callers, Answer(c)
       PROVE  IInv'
  <2>1. call[c].key \in Keys \cup {None}
    BY <1>1 DEF CallState
  <2>2. /\ key' \in [Keys -> KeyState] /\ KeysHeard'
        /\ heard' \in [Keys -> [what : {"nothing", "success", "failure"}, at : Nat]]
    BY <1>10, <2>1, AnswerRemembered DEF Answer
  <2>3. PICK row \in CallState : row = [call[c] EXCEPT !.at = "done", !.reason = "none"]
    BY <1>1, RowJudged DEF Places, Reasons
  <2>4. row.reason = "none" /\ call' = [call EXCEPT ![c] = row]
    BY <1>1, <1>10, <2>3 DEF Answer, CallState
  <2>5. call' \in [Callers -> CallState] /\ Repeats'
    BY <2>4, RowRepeats
  <2>6. QED
    BY <1>1, <1>3, <1>10, <2>2, <2>5 DEF Answer, TypeOK
<1>11. ASSUME NEW c \in Callers, NEW error \in Errors, Fail(c, error)
       PROVE  IInv'
  <2>1. call[c].key \in Keys \cup {None} /\ call[c].at = "sent"
    BY <1>1, <1>11 DEF CallState, Fail, At
  <2>2. /\ key' \in [Keys -> KeyState] /\ KeysHeard'
        /\ heard' \in [Keys -> [what : {"nothing", "success", "failure"}, at : Nat]]
    BY <1>11, <2>1, AnswerRemembered DEF Fail
  <2>3. call' \in [Callers -> CallState] /\ Repeats'
    <3>1. CASE c \in Runs
      BY <1>11, <2>1, <3>1, ErrorHandled DEF Fail
    <3>2. CASE c \notin Runs
      <4>1. PICK row \in CallState : row = [call[c] EXCEPT !.at = "done"]
        BY <1>1, RowMoved DEF Places
      <4>2. call' = [call EXCEPT ![c] = row]
        BY <1>1, <1>11, <3>2, <4>1 DEF Fail
      <4>3. QED
        BY <3>2, <4>2, RowRepeats
    <3>3. QED
      BY <3>1, <3>2
  <2>4. QED
    BY <1>1, <1>3, <1>11, <2>2, <2>3 DEF Fail, TypeOK
<1>12. ASSUME NEW c \in Callers, NEW error \in Errors, AssemblyFails(c, error)
       PROVE  IInv'
  <2>1. call' \in [Callers -> CallState] /\ Repeats'
    BY <1>12, ErrorHandled DEF AssemblyFails, At
  <2>2. left' \in [requests : Nat, uses : Nat]
    BY <1>5, <1>12 DEF AssemblyFails
  <2>3. QED
    BY <1>1, <1>2, <1>3, <1>12, <2>1, <2>2 DEF AssemblyFails, TypeOK
<1>13. ASSUME NEW c \in Callers, Again(c)
       PROVE  IInv'
  <2>1. PICK row \in CallState : row = [call[c] EXCEPT !.at = "assembling"]
    BY <1>1, RowMoved DEF Places
  <2>2. /\ row.reason = call[c].reason /\ row.at = "assembling" /\ call[c].at # "done"
        /\ call' = [call EXCEPT ![c] = row]
    BY <1>1, <1>13, <2>1 DEF Again, At, CallState
  <2>3. call' \in [Callers -> CallState] /\ Repeats'
    BY <2>2, RowRepeats
  <2>4. QED
    BY <1>1, <1>2, <1>3, <1>13, <2>3 DEF Again, TypeOK
<1>14. ASSUME NEW c \in Callers, Break(c)
       PROVE  IInv'
  <2>1. PICK row \in CallState : row = [call[c] EXCEPT !.at = "done", !.reason = "none"]
    BY <1>1, RowJudged DEF Places, Reasons
  <2>2. row.reason = "none" /\ call' = [call EXCEPT ![c] = row]
    BY <1>1, <1>14, <2>1 DEF Break, CallState
  <2>3. call' \in [Callers -> CallState] /\ Repeats'
    BY <2>2, RowRepeats
  <2>4. QED
    BY <1>1, <1>2, <1>3, <1>14, <2>3 DEF Break, TypeOK
<1>15. ASSUME NEW t \in Tools, ToolStarts(t)
       PROVE  IInv'
  <2>1. left' \in [requests : Nat, uses : Nat] /\ executing' \in [Tools -> Nat]
    BY <1>1, <1>5, <1>15 DEF ToolStarts
  <2>2. QED
    BY <1>1, <1>2, <1>3, <1>4, <1>15, <2>1 DEF ToolStarts, TypeOK
<1>16. ASSUME NEW t \in Tools, NEW what \in {"success", "failure"}, ToolEnds(t, what)
       PROVE  IInv'
  <2>1. executing' \in [Tools -> Nat]
    BY <1>1, <1>16 DEF ToolEnds
  <2>2. /\ health' \in [Tools -> [failures : Nat, until : Nat]]
        /\ ended' \in [Tools -> Seq(End)]
        /\ ToolsEnded'
    <3>1. CASE t \in registered
      BY <1>16, <3>1, EndRemembered DEF ToolEnds
    <3>2. CASE t \notin registered
      BY <1>1, <1>3, <1>16, <3>2 DEF ToolEnds
    <3>3. QED
      BY <3>1, <3>2
  <2>3. QED
    BY <1>1, <1>2, <1>4, <1>16, <2>1, <2>2 DEF ToolEnds, TypeOK
<1>17. CASE RefreshStarts
  <2>1. left' \in [requests : Nat, uses : Nat] /\ refreshes' \in Nat /\ registered' \subseteq Tools
    BY <1>1, <1>5, <1>17 DEF RefreshStarts
  <2>2. Served \in SUBSET Tools
    BY DEF Tools
  <2>3. /\ health' \in [Tools -> [failures : Nat, until : Nat]]
        /\ ended' \in [Tools -> Seq(End)]
        /\ ToolsEnded'
    BY <1>17, <2>2, RefreshedRemembered DEF RefreshStarts
  <2>4. QED
    BY <1>1, <1>2, <1>4, <1>17, <2>1, <2>3 DEF RefreshStarts, TypeOK
<1>18. CASE RefreshEnds
  <2>1. PICK found \in SUBSET Served :
          /\ registered' = registered \cup found
          /\ health' = [t \in Tools |-> IF t \in found THEN Healthy ELSE health[t]]
          /\ ended' = [t \in Tools |-> IF t \in found THEN <<>> ELSE ended[t]]
    BY <1>18 DEF RefreshEnds
  <2>2. found \in SUBSET Tools
    BY DEF Tools
  <2>3. /\ health' \in [Tools -> [failures : Nat, until : Nat]]
        /\ ended' \in [Tools -> Seq(End)]
        /\ ToolsEnded'
    BY <2>1, <2>2, RefreshedRemembered
  <2>4. refreshes' \in Nat /\ registered' \subseteq Tools
    BY <1>1, <1>18, <2>1, <2>2 DEF RefreshEnds
  <2>5. QED
    BY <1>1, <1>2, <1>4, <1>18, <2>3, <2>4 DEF RefreshEnds, TypeOK
<1>19. QED
  BY <1>6, <1>7, <1>8, <1>9, <1>10, <1>11, <1>12, <1>13, <1>14, <1>15, <1>16, <1>17, <1>18
  DEF Next, CallStep

\* The invariant holds of every behaviour.
THEOREM Invariance == Spec => []IInv
BY InvInit, InvNext, PTL DEF Spec

\* Keys, tools, calls and histories are well-formed; no call makes more than
\* max_retries + 1 attempts.
THEOREM TypeCorrect == Spec => []TypeOK
<1>1. IInv => TypeOK
  BY DEF IInv
<1>2. QED
  BY <1>1, Invariance, PTL

\* What must never be retried ends the call at once, what may be retried is
\* recovered from only after max_retries.
THEOREM RepeatsAlwaysAsTabled == Spec => []RepeatsAsTabled
<1>1. IInv => RepeatsAsTabled
  BY DEF IInv, Repeats, Repeated, RepeatsAsTabled, At
<1>2. QED
  BY <1>1, Invariance, PTL

\* Whatever ends, is registered or taken out meanwhile, and in any order: a
\* tool is offered unless its latest two executions have just failed.
THEOREM AlwaysOfferedUnlessFailing == Spec => []OfferedUnlessFailing
<1>1. IInv => OfferedUnlessFailing
  <2>1. SUFFICES ASSUME IInv
                 PROVE  OfferedUnlessFailing
    OBVIOUS
  <2>2. ASSUME NEW t \in Tools
        PROVE  now >= health[t].until <=> ~FailedTwice(t)
    <3>1. ended[t] \in Seq(End) /\ Len(ended[t]) \in Nat /\ now \in Nat
      <4>1. ended[t] \in Seq(End) /\ now \in Nat
        BY <2>1 DEF IInv, TypeOK
      <4>2. QED
        BY <4>1, LenProperties
    <3>2. ToolRemembers(health[t], ended[t])
      BY <2>1 DEF IInv, ToolsEnded
    <3>3. CASE TwoAtEnd(ended[t]) /\ health[t].until = ended[t][Len(ended[t])].at + Suppression
      <4>1. FailedTwice(t) <=> now < ended[t][Len(ended[t])].at + Suppression
        BY <3>1, <3>3 DEF FailedTwice, TwoAtEnd
      <4>2. ended[t][Len(ended[t])].at \in Nat
        <5>1. Len(ended[t]) \in 1..Len(ended[t])
          BY <3>1, <3>3 DEF TwoAtEnd
        <5>2. ended[t][Len(ended[t])] \in End
          BY <3>1, <5>1, ElementOfSeq
        <5>3. QED
          BY <5>2 DEF End
      <4>3. QED
        BY <3>1, <3>3, <4>1, <4>2
    <3>4. CASE (NoneAtEnd(ended[t]) \/ OneAtEnd(ended[t])) /\ health[t].until = 0
      <4>1. ~FailedTwice(t)
        BY <3>1, <3>4 DEF FailedTwice, NoneAtEnd, OneAtEnd
      <4>2. QED
        BY <3>1, <3>4, <4>1
    <3>5. QED
      BY <3>2, <3>3, <3>4 DEF ToolRemembers
  <2>3. registered \subseteq Tools
    BY <2>1 DEF IInv, TypeOK
  <2>4. QED
    BY <2>2, <2>3 DEF OfferedUnlessFailing, Offered
<1>2. QED
  BY <1>1, Invariance, PTL

\* However the calls of several runs overlap: a call is made with a key whose
\* latest answer is not a failure within the cooldown, none that would do has
\* precedence over it, and it is made without a key only when none would do.
THEOREM KeyAlwaysChosen == Spec => KeyChosen
<1>1. IInv /\ [Next]_vars =>
        [\A c \in Callers : ~At(c, "sent") /\ At(c, "sent")' =>
           LET k == call'[c].key  fit == {j \in Resolving : Rested(j)} IN
           IF k = None THEN fit = {}
           ELSE k \in fit /\ \A j \in fit : Priority[k] <= Priority[j]]_vars
  <2>1. SUFFICES ASSUME IInv, Next, NEW c \in Callers, call[c].at # "sent", call'[c].at = "sent"
                 PROVE  LET k == call'[c].key  fit == {j \in Resolving : Rested(j)} IN
                        IF k = None THEN fit = {}
                        ELSE k \in fit /\ \A j \in fit : Priority[k] <= Priority[j]
    BY DEF At
  <2>2. /\ call \in [Callers -> CallState] /\ key \in [Keys -> KeyRows] /\ now \in Nat
        /\ heard \in [Keys -> [what : {"nothing", "success", "failure"}, at : Nat]]
    BY <2>1 DEF IInv, TypeOK, KeyState, KeyRows
  <2>3. Send(c)
    <3>1. ASSUME NEW d \in Callers, CallStep(d)
          PROVE  d = c /\ Send(c)
      <4>1. CASE Send(d)
        BY <2>1, <2>2, <4>1 DEF Send
      <4>2. CASE \/ Begin(d) \/ Answer(d) \/ Again(d) \/ Break(d)
                 \/ \E error \in Errors : Fail(d, error) \/ AssemblyFails(d, error)
        <5>1. call'[c].at = call[c].at \/ call'[c].at \in {"assembling", "asleep", "compacting", "done"}
          <6>1. CASE Begin(d) \/ Again(d)
            BY <2>2, <6>1 DEF Begin, Again, CallState
          <6>2. CASE Answer(d) \/ Break(d)
            BY <2>2, <6>2 DEF Answer, Break, CallState
          <6>3. ASSUME NEW error \in Errors, Fail(d, error) \/ AssemblyFails(d, error)
                PROVE  \/ call'[c].at = call[c].at
                       \/ call'[c].at \in {"assembling", "asleep", "compacting", "done"}
            <7>1. CASE call' = [call EXCEPT ![d].at = "done"]
              BY <2>2, <7>1 DEF CallState
            <7>2. CASE call' = AfterError(d, Classify(error))
              <8>1. PICK at \in {"assembling", "asleep", "compacting", "done"} :
                      at = Handled(d, Classify(error))
                BY HandledAsTabled
              <8>2. d = c => call'[c].at = at
                BY <2>2, <7>2, <8>1 DEF AfterError, CallState
              <8>3. d # c => call'[c] = call[c]
                BY <2>2, <7>2 DEF AfterError
              <8>4. QED
                BY <8>1, <8>2, <8>3
            <7>3. QED
              BY <6>3, <7>1, <7>2 DEF Fail, AssemblyFails
          <6>4. QED
            BY <4>2, <6>1, <6>2, <6>3
        <5>2. QED
          BY <2>1, <5>1
      <4>3. QED
        BY <3>1, <4>1, <4>2 DEF CallStep
    <3>2. ASSUME UNCHANGED call
          PROVE  FALSE
      BY <2>1, <3>2
    <3>3. QED
      BY <2>1, <3>1, <3>2 DEF Next, Tick, ToolStarts, ToolEnds, RefreshStarts, RefreshEnds
  <2>4. call'[c].key = Acquired
    BY <2>2, <2>3 DEF Send, CallState
  <2>5. Candidates = {j \in Resolving : Rested(j)}
    <3>1. ASSUME NEW j \in Resolving
          PROVE  key[j].until <= now <=> Rested(j)
      BY <2>1, <2>2 DEF IInv, KeysHeard, KeyRemembers, Rested
    <3>2. QED
      BY <3>1 DEF Candidates
  <2>6. QED
    BY <2>2, <2>4, <2>5, AcquiredIsFirst
<1>2. QED
  BY <1>1, Invariance, PTL DEF Spec, KeyChosen
=============================================================================
