-------------------------- MODULE CoreRuntime_proofs --------------------------
(***************************************************************************)
(* The core of the bot over the life of several processes, for any pairs,  *)
(* orders, beliefs, crashes and balances.                                  *)
(***************************************************************************)
EXTENDS CoreRuntime, SumLemmas, SequenceTheorems, WellFoundedInduction

-----------------------------------------------------------------------------
(* Lists *)

Rank(I, i) == Cardinality({j \in I : j <= i})

LEMMA RankLaws ==
  ASSUME NEW I \in SUBSET Nat, IsFiniteSet(I)
  PROVE  /\ Cardinality(I) \in Nat
         /\ \A i \in I : Rank(I, i) \in 1..Cardinality(I)
         /\ \A i, j \in I : i < j => Rank(I, i) < Rank(I, j)
         /\ \A k \in 1..Cardinality(I) : \E i \in I : Rank(I, i) = k
<1> DEFINE Below(i) == {j \in I : j <= i}
           n == Cardinality(I)
           r == [i \in I |-> Rank(I, i)]
<1>1. n \in Nat
  BY FS_CardinalityType
<1>2. \A i \in I : IsFiniteSet(Below(i)) /\ Cardinality(Below(i)) \in Nat /\ Cardinality(Below(i)) <= n
  <2> SUFFICES ASSUME NEW i \in I
               PROVE  IsFiniteSet(Below(i)) /\ Cardinality(Below(i)) \in Nat
                      /\ Cardinality(Below(i)) <= n
    OBVIOUS
  <2>1. Below(i) \in SUBSET I
    OBVIOUS
  <2> HIDE DEF Below
  <2> QED
    BY <2>1, FS_Subset, FS_CardinalityType
<1>3. \A i \in I : Cardinality(Below(i)) # 0
  <2> SUFFICES ASSUME NEW i \in I PROVE Cardinality(Below(i)) # 0
    OBVIOUS
  <2>1. i \in Below(i)
    OBVIOUS
  <2>2. IsFiniteSet(Below(i))
    BY <1>2
  <2> HIDE DEF Below
  <2> QED
    BY <2>1, <2>2, FS_EmptySet
<1>4. \A i \in I : Rank(I, i) \in 1..n
  BY <1>1, <1>2, <1>3 DEF Rank
<1>5. ASSUME NEW i \in I, NEW j \in I, i < j PROVE Rank(I, i) < Rank(I, j)
  <2>1. Below(i) \in SUBSET Below(j) /\ Below(i) # Below(j)
    <3>1. j \in Below(j) /\ j \notin Below(i)
      BY <1>5
    <3>2. \A m \in Below(i) : m \in Below(j)
      BY <1>5
    <3> HIDE DEF Below
    <3> QED
      BY <3>1, <3>2
  <2>2. IsFiniteSet(Below(j)) /\ Cardinality(Below(j)) \in Nat /\ Cardinality(Below(i)) \in Nat
    BY <1>2
  <2>3. Cardinality(Below(i)) < Cardinality(Below(j))
    <3> HIDE DEF Below
    <3>1. Cardinality(Below(i)) <= Cardinality(Below(j))
          /\ Cardinality(Below(i)) # Cardinality(Below(j))
      BY <2>1, <2>2, FS_Subset
    <3> QED
      BY <2>2, <3>1
  <2> QED
    BY <2>3 DEF Rank
<1>6. ASSUME NEW k \in 1..n PROVE \E i \in I : Rank(I, i) = k
  <2>1. r \in Injection(I, 1..n)
    <3>1. r \in [I -> 1..n]
      BY <1>4
    <3>2. \A i, j \in I : r[i] = r[j] => i = j
      <4> SUFFICES ASSUME NEW i \in I, NEW j \in I, i # j PROVE r[i] # r[j]
        OBVIOUS
      <4>1. r[i] \in 1..n /\ r[j] \in 1..n
        BY <1>4
      <4>2. i < j \/ j < i
        OBVIOUS
      <4> QED
        BY <1>1, <1>5, <4>1, <4>2
    <3> HIDE DEF r
    <3> QED
      BY <3>1, <3>2 DEF Injection, IsInjective
  <2>2. IsFiniteSet(1..n) /\ Cardinality(1..n) = n
    BY <1>1, FS_Interval
  <2>3. r \in Surjection(I, 1..n)
    <3> HIDE DEF r
    <3> QED
      BY <2>1, <2>2, FS_Injection
  <2>4. \E i \in I : r[i] = k
    <3> HIDE DEF r
    <3> QED
      BY <1>6, <2>3 DEF Surjection
  <2> QED
    BY <2>4
<1> QED
  BY <1>1, <1>4, <1>5, <1>6

LEMMA NthLaws ==
  ASSUME NEW I \in SUBSET Nat, IsFiniteSet(I)
  PROVE  /\ Cardinality(I) \in Nat
         /\ \A k \in 1..Cardinality(I) : Nth(I, k) \in I
         /\ \A k, l \in 1..Cardinality(I) : k < l => Nth(I, k) < Nth(I, l)
         /\ \A i \in I : \E k \in 1..Cardinality(I) : Nth(I, k) = i
<1> DEFINE n == Cardinality(I)
<1>1. \A k \in 1..n : Nth(I, k) \in I /\ Rank(I, Nth(I, k)) = k
  BY RankLaws DEF Nth, Rank
<1>2. \A i, j \in I : Rank(I, i) = Rank(I, j) => i = j
  <2> SUFFICES ASSUME NEW i \in I, NEW j \in I, i # j PROVE Rank(I, i) # Rank(I, j)
    OBVIOUS
  <2>1. i < j \/ j < i
    OBVIOUS
  <2>2. n \in Nat /\ Rank(I, i) \in 1..n /\ Rank(I, j) \in 1..n
    BY RankLaws
  <2> QED
    BY <2>1, <2>2, RankLaws
<1>3. ASSUME NEW i \in I PROVE \E k \in 1..n : Nth(I, k) = i
  <2>1. Rank(I, i) \in 1..n
    BY RankLaws
  <2> QED
    BY <1>1, <1>2, <2>1
<1>4. ASSUME NEW k \in 1..n, NEW l \in 1..n, k < l PROVE Nth(I, k) < Nth(I, l)
  <2>1. ~(Nth(I, l) < Nth(I, k)) /\ Nth(I, l) # Nth(I, k)
    <3>1. Nth(I, l) \in I /\ Nth(I, k) \in I /\ Rank(I, Nth(I, l)) = l /\ Rank(I, Nth(I, k)) = k
      BY <1>1
    <3>2. Nth(I, l) < Nth(I, k) => l < k
      BY <3>1, RankLaws
    <3>3. n \in Nat
      BY RankLaws
    <3> HIDE DEF n
    <3> QED
      BY <1>4, <3>1, <3>2, <3>3
  <2>2. Nth(I, k) \in Nat /\ Nth(I, l) \in Nat
    BY <1>1
  <2> QED
    BY <2>1, <2>2
<1> QED
  BY <1>1, <1>3, <1>4, RankLaws

\* What is picked of a list: the elements at the places asked for, and no others.
LEMMA PickedLaws ==
  ASSUME NEW T, NEW s \in Seq(T), NEW I \in SUBSET DOMAIN s
  PROVE  /\ Picked(s, I) \in Seq(T)
         /\ \A k \in DOMAIN Picked(s, I) : \E i \in I : Picked(s, I)[k] = s[i]
         /\ \A i \in I : \E k \in DOMAIN Picked(s, I) : Picked(s, I)[k] = s[i]
<1> DEFINE n == Cardinality(I)
<1>1. I \in SUBSET Nat /\ IsFiniteSet(I) /\ DOMAIN s = 1..Len(s)
  <2>1. DOMAIN s = 1..Len(s) /\ Len(s) \in Nat
    OBVIOUS
  <2>2. IsFiniteSet(1..Len(s))
    BY <2>1, FS_Interval
  <2> QED
    BY <2>1, <2>2, FS_Subset
<1>2. /\ n \in Nat /\ \A k \in 1..n : Nth(I, k) \in I
      /\ \A i \in I : \E k \in 1..n : Nth(I, k) = i
  BY <1>1, NthLaws
<1>3. Picked(s, I) = [k \in 1..n |-> s[Nth(I, k)]]
  BY DEF Picked
<1>4. \A k \in 1..n : s[Nth(I, k)] \in T
  BY <1>1, <1>2
<1> HIDE DEF n
<1>5. DOMAIN Picked(s, I) = 1..n
  BY <1>3
<1>6. Picked(s, I) \in Seq(T)
  BY <1>2, <1>3, <1>4
<1> QED
  BY <1>2, <1>3, <1>5, <1>6

LEMMA ListTyped ==
  ASSUME NEW T, NEW n \in Nat, NEW f, f = [k \in 1..n |-> f[k]], \A k \in 1..n : f[k] \in T
  PROVE  f \in Seq(T) /\ DOMAIN f = 1..n /\ Len(f) = n
<1>1. f \in [1..n -> T]
  OBVIOUS
<1>2. f \in Seq(T)
  BY <1>1, SeqDef
<1>3. DOMAIN f = 1..n
  BY <1>1
<1> QED
  BY <1>2, <1>3

LEMMA JoinedLaws ==
  ASSUME NEW T, NEW s \in Seq(T), NEW t \in Seq(T)
  PROVE  /\ s \o t \in Seq(T) /\ Len(s \o t) = Len(s) + Len(t)
         /\ \A i \in DOMAIN (s \o t) :
              \/ i \in DOMAIN s /\ (s \o t)[i] = s[i]
              \/ i - Len(s) \in DOMAIN t /\ i > Len(s) /\ (s \o t)[i] = t[i - Len(s)]
         /\ \A i \in DOMAIN s : i \in DOMAIN (s \o t) /\ (s \o t)[i] = s[i]
OBVIOUS

LEMMA LeastExists ==
  ASSUME NEW B \in SUBSET Nat, B # {}
  PROVE  \E k \in B : \A j \in B : k <= j
<1> DEFINE R == {ss \in Nat \X Nat : ss[1] < ss[2]}
<1>1. OpToRel(<, Nat) = R
  BY Zenon DEF OpToRel
<1>2. IsWellFoundedOn(R, Nat)
  BY NatLessThanWellFounded, <1>1, Zenon
<1>3. PICK k \in B : \A j \in B : <<j, k>> \notin R
  BY <1>2, WFMin
<1>4. \A j \in B : ~(j < k)
  BY <1>3
<1> QED
  BY <1>4

\* The place of the first element that passes a test.
LEMMA MinLaws ==
  ASSUME NEW I \in SUBSET Nat, I # {}
  PROVE  Min(I) \in I /\ \A j \in I : Min(I) <= j
<1>1. \E k \in I : \A j \in I : k <= j
  BY LeastExists
<1> QED
  BY <1>1 DEF Min

-----------------------------------------------------------------------------
(* Types: the reducer *)

ResultType == [ok : BOOLEAN, bot : BotType, actions : Seq(ActionType)]
EventType == [type : {"hold", "stop", "target", "window"}, id : Ids]
               \cup [type : {"reconciliation"}, usd : Int, doge : Int]
               \cup [type : {"fill"}, fill : FillType] \cup [type : {"belief"}, belief : SignalType]

LEMMA IdsTyped == NoId \in Ids /\ \A n \in Nat : {SequenceId(n), FillId(n), OrderId(n)} \subseteq Ids
BY DEF Ids, NoId, SequenceId, FillId, OrderId

LEMMA DoneTyped ==
  ASSUME NEW b \in BotType, NEW actions \in Seq(ActionType)
  PROVE  /\ Done(b, actions) \in ResultType
         /\ Done(b, actions).ok = TRUE /\ Done(b, actions).bot = b /\ Done(b, actions).actions = actions
BY DEF Done, ResultType

LEMMA RaisedTyped ==
  ASSUME NEW b \in BotType
  PROVE  /\ Raised(b) \in ResultType /\ Raised(b).ok = FALSE /\ Raised(b).bot = b
         /\ Raised(b).actions = <<>>
BY DEF Raised, ResultType

LEMMA FoundPosition ==
  ASSUME NEW b \in BotType
  PROVE  /\ \A id : IsPosition(b, id) =>
                \E i \in DOMAIN b.positions : PositionOf(b, id) = b.positions[i] /\ b.positions[i].id = id
         /\ \A pair : HasPair(b, pair) =>
                \E i \in DOMAIN b.positions : /\ PositionOfPair(b, pair) = b.positions[i]
                                             /\ b.positions[i].pair = pair
<1>1. /\ b.positions \in Seq(PositionType) /\ DOMAIN b.positions = 1..Len(b.positions)
      /\ Len(b.positions) \in Nat
  BY DEF BotType
<1>2. ASSUME NEW id, IsPosition(b, id)
      PROVE  \E i \in DOMAIN b.positions : PositionOf(b, id) = b.positions[i] /\ b.positions[i].id = id
  <2> DEFINE I == {i \in 1..Len(b.positions) : b.positions[i].id = id}
  <2>1. I \in SUBSET Nat /\ I # {}
    BY <1>1, <1>2 DEF IsPosition
  <2>2. Min(I) \in I
    BY <2>1, MinLaws
  <2>3. PositionOf(b, id) = b.positions[Min(I)]
    BY <2>1 DEF PositionOf, SelectInSeq
  <2> QED
    BY <1>1, <2>2, <2>3
<1>3. ASSUME NEW pair, HasPair(b, pair)
      PROVE  \E i \in DOMAIN b.positions : /\ PositionOfPair(b, pair) = b.positions[i]
                                          /\ b.positions[i].pair = pair
  <2> DEFINE I == {i \in 1..Len(b.positions) : b.positions[i].pair = pair}
  <2>1. I \in SUBSET Nat /\ I # {}
    BY <1>1, <1>3 DEF HasPair
  <2>2. Min(I) \in I
    BY <2>1, MinLaws
  <2>3. PositionOfPair(b, pair) = b.positions[Min(I)]
    BY <2>1 DEF PositionOfPair, SelectInSeq
  <2> QED
    BY <1>1, <2>2, <2>3
<1> QED
  BY <1>2, <1>3

LEMMA PositionTyped ==
  ASSUME NEW b \in BotType
  PROVE  /\ \A id : IsPosition(b, id) => PositionOf(b, id) \in PositionType
         /\ \A pair : HasPair(b, pair) => PositionOfPair(b, pair) \in PositionType
<1>1. \A i \in DOMAIN b.positions : b.positions[i] \in PositionType
  BY DEF BotType
<1> QED
  BY <1>1, FoundPosition

LEMMA ClosingTyped ==
  ASSUME NEW position \in PositionType, NEW reason \in Reasons
  PROVE  Closing(position, reason) \in ActionType
BY DEF Closing, ActionType, PositionType

\* What closing a position does: it may sell, buy DOGE for the profit, and raise.
ClosedAs(b, position, reason, gain, dogePriced, r) ==
  /\ r \in ResultType
  /\ r.bot.cooling = b.cooling /\ r.bot.pending = b.pending /\ r.bot.beliefs = b.beliefs
  /\ \A i \in DOMAIN r.actions :
        \/ r.actions[i] = Closing(position, reason)
        \/ r.actions[i].reason = "accumulate" /\ r.actions[i].type = "place"
  /\ position.armed /\ (dogePriced \/ gain <= 0 \/ b.beliefs[Doge] # "bullish") => r.ok
  /\ r.ok => r.bot.positions = Keeping(b.positions, LAMBDA q : q # position)
  /\ ~r.ok => r.actions = <<>>

LEMMA CloseLaws ==
  ASSUME NEW b \in BotType, NEW position \in PositionType, NEW reason \in Reasons,
         NEW gain \in Int, NEW dogePriced \in BOOLEAN
  PROVE  ClosedAs(b, position, reason, gain, dogePriced, Close(b, position, reason, gain, dogePriced))
<1> DEFINE r == Close(b, position, reason, gain, dogePriced)
           accumulate == gain > 0 /\ b.beliefs[Doge] = "bullish"
           value == IF position.side = "long" THEN position.quantity + gain
                                              ELSE gain - position.quantity
           kept == Keeping(b.positions, LAMBDA q : q # position)
           buyDoge == [type |-> "place", id |-> NoId, pair |-> Doge, side |-> "buy",
                       quantity |-> gain, reason |-> "accumulate"]
           next == [b EXCEPT !.usd = @ + value, !.positions = kept]
           actions == <<Closing(position, reason)>> \o IF accumulate THEN <<buyDoge>> ELSE <<>>
<1>1. kept \in Seq(PositionType)
  <2>1. b.positions \in Seq(PositionType)
    BY DEF BotType
  <2>2. {i \in DOMAIN b.positions : b.positions[i] # position} \in SUBSET DOMAIN b.positions
    OBVIOUS
  <2> QED
    BY <2>1, <2>2, PickedLaws DEF Keeping
<1>2. value \in Int
  BY DEF PositionType
<1>3. next \in BotType /\ next.cooling = b.cooling /\ next.pending = b.pending
      /\ next.beliefs = b.beliefs /\ next.positions = kept
  <2> DEFINE cash == b.usd + value
  <2>1. cash \in Int
    BY <1>2 DEF BotType
  <2>2. next = [b EXCEPT !.usd = cash, !.positions = kept]
    OBVIOUS
  <2> HIDE DEF kept, value, cash, next
  <2>3. next \in BotType
    BY <1>1, <2>1, <2>2 DEF BotType
  <2> QED
    BY <1>1, <2>1, <2>2, <2>3 DEF BotType
<1>4. /\ actions \in Seq(ActionType)
      /\ \A i \in DOMAIN actions :
           \/ actions[i] = Closing(position, reason)
           \/ actions[i].reason = "accumulate" /\ actions[i].type = "place"
  <2>1. Closing(position, reason) \in ActionType
    BY ClosingTyped
  <2>2. accumulate => buyDoge \in ActionType
    BY PairsAssumption, IdsTyped DEF ActionType, Reasons
  <2>3. buyDoge.reason = "accumulate" /\ buyDoge.type = "place"
    OBVIOUS
  <2> DEFINE closing == Closing(position, reason)
  <2> HIDE DEF accumulate, buyDoge, closing
  <2>4. CASE accumulate
    <3>1. actions = <<closing>> \o <<buyDoge>>
      BY <2>4 DEF closing
    <3>2. closing \in ActionType /\ buyDoge \in ActionType
      BY <2>1, <2>2, <2>4 DEF closing
    <3> HIDE DEF actions
    <3>3. actions \in Seq(ActionType)
      BY <3>1, <3>2, JoinedLaws
    <3>4. \A i \in DOMAIN actions : actions[i] = closing \/ actions[i] = buyDoge
      BY <3>1, <3>2, JoinedLaws
    <3> QED
      BY <2>3, <3>3, <3>4 DEF closing
  <2>5. CASE ~accumulate
    <3>1. actions = <<closing>>
      BY <2>5 DEF closing
    <3> HIDE DEF actions
    <3> QED
      BY <2>1, <3>1 DEF closing
  <2> QED
    BY <2>4, <2>5
<1>5. r = IF ~position.armed \/ (accumulate /\ ~dogePriced) THEN Raised(b) ELSE Done(next, actions)
  BY DEF Close
<1> HIDE DEF r, next, actions, kept
<1> SUFFICES ClosedAs(b, position, reason, gain, dogePriced, r)
  BY DEF r
<1>6. CASE ~position.armed \/ (accumulate /\ ~dogePriced)
  <2>1. r = Raised(b)
    BY <1>5, <1>6
  <2>2. r \in ResultType /\ r.ok = FALSE /\ r.bot = b /\ r.actions = <<>>
    BY <2>1, RaisedTyped
  <2>3. ~(position.armed /\ (dogePriced \/ gain <= 0 \/ b.beliefs[Doge] # "bullish"))
    BY <1>6
  <2> QED
    BY <2>2, <2>3 DEF ClosedAs
<1>7. CASE ~(~position.armed \/ (accumulate /\ ~dogePriced))
  <2>1. r = Done(next, actions)
    BY <1>5, <1>7
  <2>2. next \in BotType /\ actions \in Seq(ActionType)
    BY <1>3, <1>4
  <2>3. r \in ResultType /\ r.ok = TRUE /\ r.bot = next /\ r.actions = actions
    BY <2>1, <2>2 DEF Done, ResultType
  <2> QED
    BY <1>3, <1>4, <2>3 DEF kept, ClosedAs
<1> QED
  BY <1>6, <1>7

\* The exchange's numbers of the orders pending.
Exchanges(pending) == {pending[i].exchange : i \in DOMAIN pending}

\* What an event of a kind may make of the bot: only a stop begins a cooldown,
\* and it begins that of the pair it sells; only a belief enters a pair, and
\* none that cools.
Follows(b, r, kind) ==
  /\ r \in ResultType
  /\ b.cooling \subseteq r.bot.cooling
  /\ kind # "stop" => r.bot.cooling = b.cooling
  /\ Exchanges(r.bot.pending) \subseteq Exchanges(b.pending) \cup {0}
  /\ \A i \in DOMAIN r.actions :
        /\ r.actions[i].reason = "stop_loss"
             => r.actions[i].type = "close" /\ r.actions[i].pair \in r.bot.cooling
        /\ r.actions[i].reason \in {"position_entry", "inventory_sell"}
             => kind = "belief" /\ r.actions[i].pair \notin r.bot.cooling

LEMMA QuietFollows ==
  ASSUME NEW b \in BotType, NEW next \in BotType, next.cooling = b.cooling, NEW kind,
         Exchanges(next.pending) \subseteq Exchanges(b.pending) \cup {0}
  PROVE  Follows(b, Done(next, <<>>), kind) /\ Follows(b, Raised(next), kind)
BY DEF Follows, Done, Raised, ResultType

LEMMA ClosedFollows ==
  ASSUME NEW b \in BotType, NEW position \in PositionType,
         NEW reason \in Reasons \ {"stop_loss", "position_entry", "inventory_sell"},
         NEW gain \in Int, NEW dogePriced \in BOOLEAN, NEW kind
  PROVE  Follows(b, Close(b, position, reason, gain, dogePriced), kind)
<1> DEFINE r == Close(b, position, reason, gain, dogePriced)
<1>1. /\ r \in ResultType /\ r.bot.cooling = b.cooling /\ r.bot.pending = b.pending
      /\ \A i \in DOMAIN r.actions :
            \/ r.actions[i] = Closing(position, reason)
            \/ r.actions[i].reason = "accumulate" /\ r.actions[i].type = "place"
  <2>1. ClosedAs(b, position, reason, gain, dogePriced, r)
    <3>1. reason \in Reasons
      OBVIOUS
    <3> QED
      BY <3>1, CloseLaws
  <2> QED
    BY <2>1 DEF ClosedAs
<1>2. Closing(position, reason).reason = reason
  BY DEF Closing
<1> HIDE DEF r
<1>3. \A i \in DOMAIN r.actions :
        r.actions[i].reason \notin {"stop_loss", "position_entry", "inventory_sell"}
  BY <1>1, <1>2
<1>4. Follows(b, r, kind)
  BY <1>1, <1>3 DEF Follows
<1> QED
  BY <1>4 DEF r

LEMMA StopFollows ==
  ASSUME NEW b \in BotType, NEW id, NEW dogePriced \in BOOLEAN
  PROVE  Follows(b, StopTriggered(b, id, dogePriced), "stop")
<1> DEFINE position == PositionOf(b, id)
           closed == Close(b, position, "stop_loss", -1, dogePriced)
           r == [closed EXCEPT !.bot.cooling = IF closed.ok THEN @ \cup {position.pair} ELSE @]
<1>1. CASE ~IsPosition(b, id)
  BY <1>1, QuietFollows DEF StopTriggered
<1>2. CASE IsPosition(b, id)
  <2>1. position \in PositionType
    BY <1>2, PositionTyped
  <2>2. /\ closed \in ResultType /\ closed.bot.cooling = b.cooling /\ closed.bot.pending = b.pending
        /\ \A i \in DOMAIN closed.actions :
              \/ closed.actions[i] = Closing(position, "stop_loss")
              \/ closed.actions[i].reason = "accumulate" /\ closed.actions[i].type = "place"
        /\ ~closed.ok => closed.actions = <<>>
    <3>1. "stop_loss" \in Reasons
      BY DEF Reasons
    <3>2. ClosedAs(b, position, "stop_loss", -1, dogePriced, closed)
      BY <2>1, <3>1, CloseLaws
    <3> QED
      BY <3>2 DEF ClosedAs
  <2>3. Closing(position, "stop_loss").type = "close" /\ Closing(position, "stop_loss").pair = position.pair
    BY DEF Closing
  <2>4. position.pair \in Pairs
    BY <2>1 DEF PositionType
  <2> HIDE DEF closed, position
  <2>5. r.actions = closed.actions /\ r.ok = closed.ok
        /\ r.bot = [closed.bot EXCEPT !.cooling = IF closed.ok THEN @ \cup {position.pair} ELSE @]
    BY <2>2 DEF ResultType
  <2>6. r.bot.cooling = (IF closed.ok THEN b.cooling \cup {position.pair} ELSE b.cooling)
    BY <2>2, <2>5 DEF ResultType, BotType
  <2>7. r.bot \in BotType
    BY <2>2, <2>4, <2>5 DEF ResultType, BotType
  <2>8. r \in ResultType
    BY <2>2, <2>7 DEF ResultType
  <2>9. StopTriggered(b, id, dogePriced) = r
    BY <1>2 DEF StopTriggered, closed, position
  <2> HIDE DEF r
  <2>10. \A i \in DOMAIN r.actions :
           \/ r.actions[i].type = "close" /\ r.actions[i].pair \in r.bot.cooling
              /\ r.actions[i].reason = "stop_loss"
           \/ r.actions[i].reason = "accumulate"
    <3>1. Closing(position, "stop_loss").reason = "stop_loss"
      BY DEF Closing
    <3>2. DOMAIN r.actions # {} => r.ok
      BY <2>2, <2>5
    <3> QED
      BY <2>2, <2>3, <2>5, <2>6, <3>1, <3>2
  <2>11. r.bot.pending = b.pending
    BY <2>2, <2>5 DEF ResultType, BotType
  <2>12. Follows(b, r, "stop")
    BY <2>6, <2>8, <2>10, <2>11 DEF Follows
  <2> QED
    BY <2>9, <2>12
<1> QED
  BY <1>1, <1>2

LEMMA TargetFollows ==
  ASSUME NEW b \in BotType, NEW id, NEW dogePriced \in BOOLEAN, NEW gain \in Int, NEW kind
  PROVE  /\ Follows(b, TargetHit(b, id, dogePriced), kind)
         /\ Follows(b, WindowExpired(b, id, gain, dogePriced), kind)
<1>1. CASE ~IsPosition(b, id)
  BY <1>1, QuietFollows DEF TargetHit, WindowExpired
<1>2. CASE IsPosition(b, id)
  <2>1. PositionOf(b, id) \in PositionType
    BY <1>2, PositionTyped
  <2>2. {"target_hit", "window_expired"} \subseteq Reasons \ {"stop_loss", "position_entry", "inventory_sell"}
    BY DEF Reasons
  <2> QED
    BY <1>2, <2>1, <2>2, ClosedFollows DEF TargetHit, WindowExpired
<1> QED
  BY <1>1, <1>2

LEMMA ReconciledFollows ==
  ASSUME NEW b \in BotType, NEW usd \in Int, NEW doge \in Int, NEW kind
  PROVE  Reconciled(b, usd, doge) \in BotType /\ Follows(b, Done(Reconciled(b, usd, doge), <<>>), kind)
<1> DEFINE next == Reconciled(b, usd, doge)
<1>1. <<>> \in Seq(PendingType)
  OBVIOUS
<1>2. next \in BotType /\ next.cooling = b.cooling /\ next.pending = <<>>
  BY <1>1 DEF Reconciled, BotType
<1>3. Exchanges(next.pending) = {}
  BY <1>2 DEF Exchanges
<1> HIDE DEF next
<1>4. next \in BotType /\ Follows(b, Done(next, <<>>), kind)
  BY <1>2, <1>3, QuietFollows
<1> QED
  BY <1>4 DEF next

\* The order a fill is matched with is one of those pending.
LEMMA MatchLaws ==
  ASSUME NEW b \in BotType, NEW fill \in FillType
  PROVE  /\ MatchesFill(b, fill) # <<>> => /\ MatchesFill(b, fill)[1] \in PendingType
                                           /\ \E i \in DOMAIN b.pending :
                                                 MatchesFill(b, fill)[1] = b.pending[i]
         /\ b.pending = <<>> => MatchesFill(b, fill) = <<>>
<1> DEFINE I == {i \in DOMAIN b.pending : b.pending[i].client = fill.client}
           J == {i \in DOMAIN b.pending : b.pending[i].pair = fill.pair}
           byClient == Picked(b.pending, I)
           byPair == Picked(b.pending, J)
<1>1. b.pending \in Seq(PendingType) /\ I \in SUBSET DOMAIN b.pending /\ J \in SUBSET DOMAIN b.pending
  BY DEF BotType
<1>2. /\ byClient \in Seq(PendingType) /\ byPair \in Seq(PendingType)
      /\ \A k \in DOMAIN byClient : \E i \in I : byClient[k] = b.pending[i]
      /\ \A k \in DOMAIN byPair : \E i \in J : byPair[k] = b.pending[i]
  BY <1>1, PickedLaws
<1>3. MatchesFill(b, fill) = IF byClient # <<>> THEN <<byClient[1]>>
                             ELSE IF Len(byPair) = 1 THEN byPair ELSE <<>>
  BY DEF MatchesFill, Keeping
<1>4. b.pending = <<>> => byClient = <<>> /\ byPair = <<>>
  <2> SUFFICES ASSUME b.pending = <<>> PROVE DOMAIN byClient = {} /\ DOMAIN byPair = {}
    BY <1>2
  <2>1. I = {} /\ J = {}
    OBVIOUS
  <2> HIDE DEF byClient, byPair
  <2> QED
    BY <1>2, <2>1
<1>5. byClient # <<>> => 1 \in DOMAIN byClient
  BY <1>2
<1>6. Len(byPair) = 1 => 1 \in DOMAIN byPair
  BY <1>2
<1> HIDE DEF byClient, byPair
<1>7. \A i \in DOMAIN b.pending : b.pending[i] \in PendingType
  BY <1>1
<1>8. CASE byClient # <<>>
  <2>1. MatchesFill(b, fill) = <<byClient[1]>>
    BY <1>3, <1>8
  <2>2. PICK i \in I : byClient[1] = b.pending[i]
    BY <1>2, <1>5, <1>8
  <2>3. MatchesFill(b, fill)[1] = b.pending[i]
    BY <2>1, <2>2
  <2> QED
    BY <1>4, <1>7, <1>8, <2>3
<1>9. CASE byClient = <<>> /\ Len(byPair) = 1
  <2>1. MatchesFill(b, fill) = byPair
    BY <1>3, <1>9
  <2>2. PICK i \in J : byPair[1] = b.pending[i]
    BY <1>2, <1>6, <1>9
  <2>3. MatchesFill(b, fill)[1] = b.pending[i]
    BY <2>1, <2>2
  <2> QED
    BY <1>4, <1>7, <2>1, <2>3
<1>10. CASE byClient = <<>> /\ Len(byPair) # 1
  BY <1>3, <1>10
<1> QED
  BY <1>8, <1>9, <1>10

LEMMA FilledTyped ==
  ASSUME NEW pending \in Seq(PendingType), NEW q \in PendingType, NEW quantity \in Nat
  PROVE  /\ Filled(pending, q, quantity) \in Seq(PendingType)
         /\ Exchanges(Filled(pending, q, quantity)) \subseteq Exchanges(pending)
<1> DEFINE I == {i \in DOMAIN pending : pending[i].client # q.client}
           Part(r) == IF r.client = q.client THEN [r EXCEPT !.filled = @ + quantity] ELSE r
           parts == [i \in DOMAIN pending |-> Part(pending[i])]
<1>1. Picked(pending, I) \in Seq(PendingType)
  <2>1. I \in SUBSET DOMAIN pending
    OBVIOUS
  <2> QED
    BY <2>1, PickedLaws
<1>2. parts \in Seq(PendingType)
  <2>1. ASSUME NEW r \in PendingType PROVE Part(r) \in PendingType
    <3> DEFINE f == r.filled + quantity
    <3>1. f \in Nat
      BY DEF PendingType
    <3> HIDE DEF f
    <3>2. [r EXCEPT !.filled = f] \in PendingType
      BY <3>1 DEF PendingType
    <3> QED
      BY <3>2 DEF f
  <2>2. DOMAIN pending = 1..Len(pending) /\ Len(pending) \in Nat
        /\ \A i \in DOMAIN pending : pending[i] \in PendingType
    OBVIOUS
  <2>3. \A i \in DOMAIN pending : Part(pending[i]) \in PendingType
    BY <2>1, <2>2
  <2> HIDE DEF Part
  <2> QED
    BY <2>2, <2>3
<1>3. Filled(pending, q, quantity) = IF q.filled + quantity >= q.base THEN Picked(pending, I) ELSE parts
  BY DEF Filled, Keeping
<1>4. Exchanges(Picked(pending, I)) \subseteq Exchanges(pending)
  <2>1. I \in SUBSET DOMAIN pending
    OBVIOUS
  <2>2. \A k \in DOMAIN Picked(pending, I) : \E i \in I : Picked(pending, I)[k] = pending[i]
    BY <2>1, PickedLaws
  <2> QED
    BY <2>1, <2>2 DEF Exchanges
<1>5. Exchanges(parts) \subseteq Exchanges(pending)
  <2>1. \A i \in DOMAIN pending : pending[i] \in PendingType
    OBVIOUS
  <2>2. \A i \in DOMAIN pending : Part(pending[i]).exchange = pending[i].exchange
    BY <2>1 DEF PendingType
  <2>3. DOMAIN parts = DOMAIN pending /\ \A i \in DOMAIN pending : parts[i].exchange = pending[i].exchange
    BY <2>2
  <2> HIDE DEF parts
  <2> QED
    BY <2>3 DEF Exchanges
<1> HIDE DEF I, parts
<1> QED
  BY <1>1, <1>2, <1>3, <1>4, <1>5

LEMMA OpenedTyped ==
  ASSUME NEW id \in Ids, NEW pair \in Pairs, NEW side \in {"long", "short"}, NEW quantity \in Nat, NEW view
  PROVE  Opened(id, pair, side, quantity, view) \in PositionType
BY DEF Opened, PositionType

LEMMA ApplyFillTyped ==
  ASSUME NEW b \in BotType, NEW position \in PositionType
  PROVE  ApplyFill(b, position) \in BotType /\ ApplyFill(b, position).cooling = b.cooling
         /\ ApplyFill(b, position).pending = b.pending
<1>1. \A p \in PositionType : Signed(p) \in Int
  BY DEF Signed, PositionType
<1>2. CASE ~IsPosition(b, position.id)
  <2> DEFINE cash == b.usd - Signed(position)
             ps == Append(b.positions, position)
  <2>1. cash \in Int /\ ps \in Seq(PositionType)
    BY <1>1 DEF BotType
  <2>2. ApplyFill(b, position) = [b EXCEPT !.usd = cash, !.positions = ps]
    BY <1>2 DEF ApplyFill
  <2> HIDE DEF cash, ps
  <2>3. ApplyFill(b, position) \in BotType
    BY <2>1, <2>2 DEF BotType
  <2> QED
    BY <2>1, <2>2, <2>3 DEF BotType
<1>3. CASE IsPosition(b, position.id)
  <2> DEFINE i == SelectInSeq(b.positions, LAMBDA q : q.id = position.id)
             cash == b.usd - (Signed(position) - Signed(b.positions[i]))
             ps == [b.positions EXCEPT ![i] = position]
  <2>1. PositionOf(b, position.id) \in PositionType
    BY <1>3, PositionTyped
  <2>2. b.positions[i] \in PositionType
    BY <2>1 DEF PositionOf
  <2>3. cash \in Int
    BY <1>1, <2>2 DEF BotType
  <2>4. ps \in Seq(PositionType)
    <3>1. /\ b.positions \in Seq(PositionType) /\ Len(b.positions) \in Nat
          /\ DOMAIN b.positions = 1..Len(b.positions)
          /\ \A k \in DOMAIN b.positions : b.positions[k] \in PositionType
      BY DEF BotType
    <3> HIDE DEF i
    <3>2. DOMAIN ps = DOMAIN b.positions
      OBVIOUS
    <3>3. \A k \in DOMAIN b.positions : ps[k] \in {position, b.positions[k]}
      OBVIOUS
    <3>4. ps = [k \in 1..Len(b.positions) |-> ps[k]]
      BY <3>1, <3>2
    <3> HIDE DEF ps
    <3>5. \A k \in 1..Len(b.positions) : ps[k] \in PositionType
      BY <3>1, <3>3
    <3> QED
      BY <3>1, <3>4, <3>5, ListTyped
  <2>5. ApplyFill(b, position) = [b EXCEPT !.usd = cash, !.positions = ps]
    <3>1. ApplyFill(b, position) = [b EXCEPT !.usd = @ - (Signed(position) - Signed(b.positions[i])),
                                            !.positions[i] = position]
      BY <1>3 DEF ApplyFill
    <3> DEFINE diff == Signed(position) - Signed(b.positions[i])
    <3>2. ApplyFill(b, position) = [b EXCEPT !.usd = @ - diff, !.positions[i] = position]
      BY <3>1
    <3> HIDE DEF i, diff
    <3>3. ApplyFill(b, position) = [b EXCEPT !.usd = b.usd - diff,
                                            !.positions = [b.positions EXCEPT ![i] = position]]
      BY <3>2 DEF BotType
    <3> QED
      BY <3>3 DEF diff
  <2> HIDE DEF cash, ps, i
  <2>6. ApplyFill(b, position) \in BotType
    BY <2>3, <2>4, <2>5 DEF BotType
  <2> QED
    BY <2>3, <2>4, <2>5, <2>6 DEF BotType
<1> QED
  BY <1>2, <1>3

LEMMA FillFollows ==
  ASSUME NEW b \in BotType, NEW fill \in FillType, NEW kind
  PROVE  /\ Follows(b, FillConfirmed(b, fill), kind)
         /\ b.pending = <<>> => FillConfirmed(b, fill) = Done(b, <<>>)
<1> DEFINE matched == MatchesFill(b, fill)
           q == matched[1]
           side == IF q.side = "buy" THEN "long" ELSE "short"
           view == SideFor(b.beliefs[fill.pair])
           id == IF q.position = NoId THEN FillId(fill.order) ELSE q.position
           position == Opened(id, fill.pair, side, fill.quantity, view)
           rest == Filled(b.pending, q, fill.quantity)
           pruned == [b EXCEPT !.pending = rest]
           sold == [pruned EXCEPT !.doge = @ - fill.quantity, !.usd = @ + fill.quantity]
           bought == ApplyFill(pruned, position)
<1>1. /\ matched = <<>> => FillConfirmed(b, fill) = Done(b, <<>>)
      /\ matched # <<>> /\ q.kind = "inventory_sell" => FillConfirmed(b, fill) = Done(sold, <<>>)
      /\ matched # <<>> /\ q.kind # "inventory_sell"
           => FillConfirmed(b, fill) \in {Done(bought, <<>>), Raised(b)}
  BY DEF FillConfirmed
<1>2. b.pending = <<>> => matched = <<>>
  BY MatchLaws
<1>3. matched # <<>> => q \in PendingType
  BY MatchLaws
<1>4. fill.quantity \in Nat /\ fill.pair \in Pairs /\ fill.order \in Nat
  BY DEF FillType
<1> HIDE DEF matched, q
<1>5. ASSUME matched # <<>>
      PROVE  /\ pruned \in BotType /\ pruned.cooling = b.cooling
             /\ Exchanges(pruned.pending) \subseteq Exchanges(b.pending)
  <2>1. q \in PendingType
    BY <1>3, <1>5
  <2>2. b.pending \in Seq(PendingType)
    BY DEF BotType
  <2>3. rest \in Seq(PendingType) /\ Exchanges(rest) \subseteq Exchanges(b.pending)
    BY <1>4, <2>1, <2>2, FilledTyped
  <2> HIDE DEF rest
  <2>4. pruned \in BotType
    BY <2>3 DEF BotType
  <2>5. pruned.cooling = b.cooling /\ pruned.pending = rest
    BY DEF BotType
  <2> QED
    BY <2>3, <2>4, <2>5
<1>6. ASSUME matched # <<>>
      PROVE  /\ sold \in BotType /\ sold.cooling = b.cooling
             /\ Exchanges(sold.pending) \subseteq Exchanges(b.pending)
  <2>1. /\ pruned \in BotType /\ pruned.cooling = b.cooling
        /\ Exchanges(pruned.pending) \subseteq Exchanges(b.pending)
    BY <1>5, <1>6
  <2> HIDE DEF pruned
  <2> DEFINE d == pruned.doge - fill.quantity
             u == pruned.usd + fill.quantity
  <2>2. d \in Int /\ u \in Int
    BY <1>4, <2>1 DEF BotType
  <2>3. sold = [pruned EXCEPT !.doge = d, !.usd = u]
    OBVIOUS
  <2> HIDE DEF sold, d, u
  <2>4. sold \in BotType
    BY <2>1, <2>2, <2>3 DEF BotType
  <2>5. sold.cooling = pruned.cooling /\ sold.pending = pruned.pending
    BY <2>1, <2>3 DEF BotType
  <2> QED
    BY <2>1, <2>4, <2>5
<1>7. ASSUME matched # <<>>
      PROVE  /\ bought \in BotType /\ bought.cooling = b.cooling
             /\ Exchanges(bought.pending) \subseteq Exchanges(b.pending)
  <2>1. /\ pruned \in BotType /\ pruned.cooling = b.cooling
        /\ Exchanges(pruned.pending) \subseteq Exchanges(b.pending)
    BY <1>5, <1>7
  <2>2. id \in Ids
    BY <1>3, <1>4, <1>7, IdsTyped DEF PendingType
  <2>3. side \in {"long", "short"}
    OBVIOUS
  <2> HIDE DEF id, side, view, pruned
  <2>4. position \in PositionType
    BY <1>4, <2>2, <2>3, OpenedTyped
  <2> HIDE DEF position
  <2> QED
    BY <2>1, <2>4, ApplyFillTyped
<1>8. matched = <<>> => Follows(b, FillConfirmed(b, fill), kind)
  BY <1>1, QuietFollows
<1>9. ASSUME matched # <<>> PROVE Follows(b, FillConfirmed(b, fill), kind)
  <2>1. Follows(b, Raised(b), kind)
    BY QuietFollows
  <2>2. Follows(b, Done(sold, <<>>), kind)
    BY <1>6, <1>9, QuietFollows
  <2>3. Follows(b, Done(bought, <<>>), kind)
    BY <1>7, <1>9, QuietFollows
  <2> HIDE DEF sold, bought
  <2> QED
    BY <1>1, <1>9, <2>1, <2>2, <2>3
<1> QED
  BY <1>1, <1>2, <1>8, <1>9

\* An order of the reducer is numbered after the ones before it.
LEMMA OrderedFollows ==
  ASSUME NEW b \in BotType, NEW pair \in Pairs, NEW side \in {"buy", "sell"},
         NEW kind \in {"position_entry", "inventory_sell"}, NEW quantity \in Nat, pair \notin b.cooling
  PROVE  /\ Follows(b, Ordered(b, pair, side, kind, quantity), "belief")
         /\ Ordered(b, pair, side, kind, quantity).ok
         /\ Ordered(b, pair, side, kind, quantity).bot.positions = b.positions
         /\ Ordered(b, pair, side, kind, quantity).bot.beliefs = b.beliefs
<1> DEFINE id == SequenceId(b.seq)
           pending == [client |-> id, kind |-> kind, pair |-> pair, side |-> side,
                       base |-> quantity, filled |-> 0,
                       quote |-> IF kind = "position_entry" THEN quantity ELSE 0,
                       position |-> IF kind = "position_entry" THEN id ELSE NoId,
                       exchange |-> 0]
           all == Append(b.pending, pending)
           count == b.seq + 1
           next == [b EXCEPT !.seq = count, !.pending = all]
           a == [type |-> "place", id |-> id, pair |-> pair, side |-> side,
                 quantity |-> quantity, reason |-> kind]
           r == Ordered(b, pair, side, kind, quantity)
<1>1. id \in Ids /\ NoId \in Ids /\ count \in Nat
  BY IdsTyped DEF BotType
<1>2. pending \in PendingType
  BY <1>1 DEF PendingType, OrderKinds
<1>3. a \in ActionType /\ a.type = "place" /\ a.pair = pair /\ a.reason = kind
  BY <1>1 DEF ActionType, Reasons
<1>4. all \in Seq(PendingType)
  BY <1>2 DEF BotType
<1>5. r = Done(next, <<a>>)
  BY DEF Ordered
<1> HIDE DEF id, pending, all, count, a
<1>6. next \in BotType
  BY <1>1, <1>4 DEF BotType
<1>7. /\ next.cooling = b.cooling /\ next.positions = b.positions /\ next.beliefs = b.beliefs
      /\ next.pending = all
  BY DEF BotType
<1>11. Exchanges(all) \subseteq Exchanges(b.pending) \cup {0}
  <2>1. b.pending \in Seq(PendingType) /\ all = Append(b.pending, pending) /\ pending.exchange = 0
    BY DEF BotType, all, pending
  <2>2. \A i \in DOMAIN all : all[i] = pending \/ (i \in DOMAIN b.pending /\ all[i] = b.pending[i])
    BY <2>1
  <2> QED
    BY <2>1, <2>2 DEF Exchanges
<1> HIDE DEF next, r
<1>8. r \in ResultType /\ r.ok = TRUE /\ r.bot = next /\ r.actions = <<a>>
  BY <1>3, <1>5, <1>6 DEF Done, ResultType
<1>9. \A i \in DOMAIN r.actions : r.actions[i] = a
  BY <1>8
<1>10. Follows(b, r, "belief")
  BY <1>3, <1>7, <1>8, <1>9, <1>11 DEF Follows
<1> QED
  BY <1>7, <1>8, <1>10 DEF r

LEMMA ReservedTyped ==
  ASSUME NEW b \in BotType
  PROVE  ReservedDoge(b) \in Int
<1> DEFINE f == [i \in DOMAIN b.pending |->
                   IF b.pending[i].kind = "inventory_sell"
                   THEN b.pending[i].base - b.pending[i].filled ELSE 0]
<1>1. ReservedDoge(b) = SumFunction(f)
  BY DEF ReservedDoge, SumOver
<1>2. b.pending \in Seq(PendingType)
  BY DEF BotType
<1>3. /\ DOMAIN b.pending = 1..Len(b.pending) /\ Len(b.pending) \in Nat
      /\ \A i \in DOMAIN b.pending : b.pending[i] \in PendingType
  BY <1>2
<1>4. \A i \in DOMAIN b.pending : f[i] \in Int
  <2> SUFFICES ASSUME NEW i \in DOMAIN b.pending PROVE f[i] \in Int
    OBVIOUS
  <2>1. b.pending[i].base \in Nat /\ b.pending[i].filled \in Nat
    BY <1>3 DEF PendingType
  <2> QED
    BY <2>1
<1>5. IsFiniteSet(DOMAIN b.pending)
  BY <1>3, FS_Interval
<1>6. DOMAIN f = DOMAIN b.pending
  OBVIOUS
<1> HIDE DEF f
<1>7. SumFunctionOnSet(f, DOMAIN f) \in Int
  BY <1>4, <1>5, <1>6, SumType
<1> QED
  BY <1>1, <1>7 DEF SumFunction

\* What a belief makes of the bot: it closes its pair's position, orders, or does nothing.
LEMMA BeliefCases ==
  ASSUME NEW b \in BotType, NEW priced, NEW pair \in Pairs, NEW direction, NEW gain \in Int,
         NEW r, r = BeliefUpdate(b, priced, pair, direction, gain)
  PROVE  \/ r = Done(b, <<>>)
         \/ HasPair(b, pair) /\ r = ClosedOnBelief(b, PositionOfPair(b, pair), gain)
         \/ /\ pair \notin b.cooling
            /\ \E side \in {"buy", "sell"}, kind \in {"position_entry", "inventory_sell"}, n \in Nat :
                 r = Ordered(b, pair, side, kind, n)
<1> DEFINE side == SideFor(direction)
           freeDoge == b.doge - ReservedDoge(b)
           quantity == IF EntryUsd < freeDoge THEN EntryUsd ELSE freeDoge
<1>1. freeDoge \in Int /\ EntryUsd \in Nat
  BY ReservedTyped, PairsAssumption DEF BotType
<1>2. CASE HasPair(b, pair)
  BY <1>2 DEF BeliefUpdate
<1>3. CASE ~HasPair(b, pair) /\ (side = "none" \/ pair \in b.cooling \/ pair \notin priced)
  BY <1>3 DEF BeliefUpdate
<1>4. CASE /\ ~HasPair(b, pair) /\ ~(side = "none" \/ pair \in b.cooling \/ pair \notin priced)
           /\ side = "short" /\ pair = Doge
  <2>1. r = IF freeDoge <= 0 THEN Done(b, <<>>) ELSE Ordered(b, pair, "sell", "inventory_sell", quantity)
    BY <1>4 DEF BeliefUpdate
  <2>2. ~(freeDoge <= 0) => quantity \in Nat
    BY <1>1
  <2> HIDE DEF freeDoge, quantity
  <2> QED
    BY <1>4, <2>1, <2>2
<1>5. CASE /\ ~HasPair(b, pair) /\ ~(side = "none" \/ pair \in b.cooling \/ pair \notin priced)
           /\ ~(side = "short" /\ pair = Doge)
  <2>1. r \in {Done(b, <<>>), Ordered(b, pair, "buy", "position_entry", EntryUsd)}
    BY <1>5 DEF BeliefUpdate
  <2> QED
    BY <1>1, <1>5, <2>1
<1> QED
  BY <1>2, <1>3, <1>4, <1>5

LEMMA BeliefUpdateFollows ==
  ASSUME NEW b \in BotType, NEW priced, NEW pair \in Pairs, NEW direction, NEW gain \in Int
  PROVE  Follows(b, BeliefUpdate(b, priced, pair, direction, gain), "belief")
<1> DEFINE r == BeliefUpdate(b, priced, pair, direction, gain)
<1>1. \/ r = Done(b, <<>>)
      \/ HasPair(b, pair) /\ r = ClosedOnBelief(b, PositionOfPair(b, pair), gain)
      \/ /\ pair \notin b.cooling
         /\ \E side \in {"buy", "sell"}, kind \in {"position_entry", "inventory_sell"}, n \in Nat :
              r = Ordered(b, pair, side, kind, n)
  BY BeliefCases
<1> HIDE DEF r
<1>2. Follows(b, Done(b, <<>>), "belief")
  BY QuietFollows
<1>3. ASSUME HasPair(b, pair)
      PROVE  Follows(b, ClosedOnBelief(b, PositionOfPair(b, pair), gain), "belief")
  <2>1. PositionOfPair(b, pair) \in PositionType
    BY <1>3, PositionTyped
  <2>2. "belief_change" \in Reasons \ {"stop_loss", "position_entry", "inventory_sell"}
    BY DEF Reasons
  <2>3. (PositionOfPair(b, pair).pair = Doge) \in BOOLEAN
    OBVIOUS
  <2> QED
    BY <2>1, <2>2, <2>3, ClosedFollows DEF ClosedOnBelief
<1>4. ASSUME pair \notin b.cooling, NEW side \in {"buy", "sell"},
             NEW kind \in {"position_entry", "inventory_sell"}, NEW n \in Nat
      PROVE  Follows(b, Ordered(b, pair, side, kind, n), "belief")
  BY <1>4, OrderedFollows
<1>5. Follows(b, r, "belief")
  BY <1>1, <1>2, <1>3, <1>4
<1> QED
  BY <1>5 DEF r

LEMMA BeliefFollows ==
  ASSUME NEW b \in BotType, NEW signal \in SignalType, NEW priced, NEW gain \in Int
  PROVE  Follows(b, BeliefApplied(b, signal, priced, gain), "belief")
<1> DEFINE next == BeliefUpdate(b, priced, signal.pair, signal.direction, gain)
           r == [next EXCEPT !.bot.beliefs[signal.pair] = signal.direction]
<1>1. signal.pair \in Pairs /\ signal.direction \in Directions
  BY DEF SignalType
<1>2. Follows(b, next, "belief")
  BY <1>1, BeliefUpdateFollows
<1>3. BeliefApplied(b, signal, priced, gain) = r
  BY DEF BeliefApplied
<1> HIDE DEF next
<1> DEFINE beliefs == [next.bot.beliefs EXCEPT ![signal.pair] = signal.direction]
           after == [next.bot EXCEPT !.beliefs = beliefs]
<1>4. next \in ResultType /\ next.bot \in BotType
  BY <1>2 DEF Follows, ResultType
<1>5. r = [next EXCEPT !.bot = after]
  BY <1>4 DEF ResultType, BotType
<1>6. beliefs \in [Pairs -> Directions]
  BY <1>1, <1>4 DEF BotType
<1> HIDE DEF beliefs, r
<1>7. after \in BotType /\ after.cooling = next.bot.cooling /\ after.pending = next.bot.pending
  BY <1>4, <1>6 DEF BotType
<1> HIDE DEF after
<1>8. r \in ResultType /\ r.bot = after /\ r.actions = next.actions /\ r.ok = next.ok
  BY <1>4, <1>5, <1>7 DEF ResultType
<1>9. Follows(b, r, "belief")
  BY <1>2, <1>7, <1>8 DEF Follows
<1> QED
  BY <1>3, <1>9

LEMMA ApplyFollows ==
  ASSUME NEW b \in BotType, NEW event \in EventType, NEW priced, NEW gain \in Int
  PROVE  Follows(b, ApplyEvent(b, event, priced, gain), event.type)
<1> DEFINE r == ApplyEvent(b, event, priced, gain)
           dogePriced == Doge \in priced
<1>1. dogePriced \in BOOLEAN
  OBVIOUS
<1>2. CASE event.type = "stop"
  <2>1. r = StopTriggered(b, event.id, dogePriced)
    BY <1>2 DEF ApplyEvent
  <2> QED
    BY <1>1, <1>2, <2>1, StopFollows
<1>3. CASE event.type = "target"
  <2>1. r = TargetHit(b, event.id, dogePriced)
    BY <1>3 DEF ApplyEvent
  <2> QED
    BY <1>1, <1>3, <2>1, TargetFollows
<1>4. CASE event.type = "window"
  <2>1. r = WindowExpired(b, event.id, gain, dogePriced)
    BY <1>4 DEF ApplyEvent
  <2> QED
    BY <1>1, <1>4, <2>1, TargetFollows
<1>5. CASE event.type = "reconciliation"
  <2>1. r = Done(Reconciled(b, event.usd, event.doge), <<>>)
    BY <1>5 DEF ApplyEvent
  <2>2. event.usd \in Int /\ event.doge \in Int
    BY <1>5 DEF EventType
  <2> QED
    BY <2>1, <2>2, ReconciledFollows
<1>6. CASE event.type = "fill"
  <2>1. r = FillConfirmed(b, event.fill)
    BY <1>6 DEF ApplyEvent
  <2>2. event.fill \in FillType
    BY <1>6 DEF EventType
  <2> QED
    BY <2>1, <2>2, FillFollows
<1>7. CASE event.type = "belief"
  <2>1. r = BeliefApplied(b, event.belief, priced, gain)
    BY <1>7 DEF ApplyEvent
  <2>2. event.belief \in SignalType
    BY <1>7 DEF EventType
  <2> QED
    BY <1>7, <2>1, <2>2, BeliefFollows
<1>8. CASE event.type = "hold"
  <2>1. r = Done(b, <<>>)
    BY <1>8 DEF ApplyEvent
  <2> QED
    BY <2>1, QuietFollows
<1>9. event.type \in {"hold", "stop", "target", "window", "reconciliation", "fill", "belief"}
  BY DEF EventType
<1> QED
  BY <1>2, <1>3, <1>4, <1>5, <1>6, <1>7, <1>8, <1>9

-----------------------------------------------------------------------------
(* One cycle.  Its events are applied by a recursive function on 0..n; that it *)
(* exists, and what holds all along it, comes from a least place where it     *)
(* would not.                                                                 *)

Runs(b, events, priced, gain, f, n) ==
  f = [k \in 0..n |-> IF k = 0 THEN Done(b, <<>>) ELSE AndThen(f[k - 1], events[k], priced, gain)]

LEMMA RunExists ==
  ASSUME NEW b, NEW events, NEW priced, NEW gain, NEW n \in Nat
  PROVE  \E f : Runs(b, events, priced, gain, f, n)
<1> DEFINE Bad == {k \in Nat : ~\E f : Runs(b, events, priced, gain, f, k)}
<1> SUFFICES ASSUME Bad # {} PROVE FALSE
  OBVIOUS
<1>1. PICK k \in Bad : \A j \in Bad : k <= j
  <2>1. Bad \in SUBSET Nat
    OBVIOUS
  <2> HIDE DEF Bad
  <2> QED
    BY <2>1, LeastExists
<1>2. CASE k = 0
  <2> DEFINE f == [j \in 0..0 |-> Done(b, <<>>)]
  <2>1. \A j \in 0..0 : j = 0
    OBVIOUS
  <2>2. f = [j \in 0..0 |-> IF j = 0 THEN Done(b, <<>>) ELSE AndThen(f[j - 1], events[j], priced, gain)]
    BY <2>1
  <2>3. Runs(b, events, priced, gain, f, 0)
    BY <2>2 DEF Runs
  <2> QED
    BY <1>1, <1>2, <2>3
<1>3. CASE k # 0
  <2>1. k \in Nat /\ k - 1 \in Nat /\ k - 1 \notin Bad
    BY <1>1, <1>3
  <2>2. PICK g : Runs(b, events, priced, gain, g, k - 1)
    BY <2>1
  <2> DEFINE f == [j \in 0..k |-> IF j = k THEN AndThen(g[k - 1], events[k], priced, gain) ELSE g[j]]
             Step(j) == IF j = 0 THEN Done(b, <<>>) ELSE AndThen(f[j - 1], events[j], priced, gain)
  <2>3. \A j \in 0..(k - 1) :
          g[j] = IF j = 0 THEN Done(b, <<>>) ELSE AndThen(g[j - 1], events[j], priced, gain)
    BY <2>2 DEF Runs
  <2>4. \A j \in 0..k : f[j] = Step(j)
    <3> SUFFICES ASSUME NEW j \in 0..k PROVE f[j] = Step(j)
      OBVIOUS
    <3>1. CASE j = k
      <4>1. k - 1 \in 0..k /\ k - 1 # k
        BY <2>1
      <4>2. f[k - 1] = g[k - 1]
        BY <4>1
      <4> QED
        BY <1>3, <3>1, <4>2
    <3>2. CASE j # k
      <4>1. f[j] = g[j] /\ j \in 0..(k - 1)
        BY <2>1, <3>2
      <4>2. j # 0 => f[j - 1] = g[j - 1]
        BY <2>1, <3>2
      <4> QED
        BY <2>3, <4>1, <4>2
    <3> QED
      BY <3>1, <3>2
  <2>5. f = [j \in 0..k |-> Step(j)]
    <3>1. f = [j \in 0..k |-> f[j]]
      OBVIOUS
    <3> HIDE DEF f
    <3> QED
      BY <2>4, <3>1
  <2>6. Runs(b, events, priced, gain, f, k)
    BY <2>5 DEF Runs
  <2> QED
    BY <1>1, <2>6
<1> QED
  BY <1>2, <1>3

\* A cycle is the last of a run over its events.
LEMMA CycleIs ==
  ASSUME NEW b, NEW events, NEW priced, NEW gain, Len(events) \in Nat
  PROVE  \E f : /\ f[0] = Done(b, <<>>)
                /\ \A k \in 1..Len(events) : f[k] = AndThen(f[k - 1], events[k], priced, gain)
                /\ Cycle(b, events, priced, gain) = f[Len(events)]
<1> DEFINE n == Len(events)
           f == CHOOSE g : Runs(b, events, priced, gain, g, n)
<1>1. Runs(b, events, priced, gain, f, n)
  BY RunExists
<1>2. Cycle(b, events, priced, gain) = f[n]
  BY DEF Cycle, Runs
<1> HIDE DEF f
<1>3. \A k \in 0..n : f[k] = IF k = 0 THEN Done(b, <<>>) ELSE AndThen(f[k - 1], events[k], priced, gain)
  BY <1>1 DEF Runs
<1>4. f[0] = Done(b, <<>>)
  BY <1>3
<1>5. \A k \in 1..n : f[k] = AndThen(f[k - 1], events[k], priced, gain)
  BY <1>3
<1> QED
  BY <1>2, <1>4, <1>5

\* What holds after the k-th event of a cycle whose beliefs come after the m-th.
Along(b, m, k, x) ==
  /\ x \in ResultType
  /\ b.cooling \subseteq x.bot.cooling
  /\ Exchanges(x.bot.pending) \subseteq Exchanges(b.pending) \cup {0}
  /\ \A i \in DOMAIN x.actions :
        /\ x.actions[i].reason = "stop_loss"
             => x.actions[i].type = "close" /\ x.actions[i].pair \in x.bot.cooling
        /\ x.actions[i].reason \in {"position_entry", "inventory_sell"}
             => m < k /\ x.actions[i].pair \notin x.bot.cooling

LEMMA AlongStep ==
  ASSUME NEW b \in BotType, NEW m \in Nat, NEW k \in Nat \ {0}, NEW x, Along(b, m, k - 1, x),
         NEW event \in EventType, m < k <=> event.type = "belief",
         NEW priced, NEW gain \in Int
  PROVE  Along(b, m, k, AndThen(x, event, priced, gain))
<1>1. CASE ~x.ok
  <2>1. AndThen(x, event, priced, gain) = x
    BY <1>1 DEF AndThen
  <2>2. m < k - 1 => m < k
    OBVIOUS
  <2> QED
    BY <2>1, <2>2 DEF Along
<1>2. CASE x.ok
  <2> DEFINE next == ApplyEvent(x.bot, event, priced, gain)
             acts == x.actions \o next.actions
             y == [next EXCEPT !.actions = acts]
  <2>1. x \in ResultType /\ x.bot \in BotType /\ x.actions \in Seq(ActionType)
    BY DEF Along, ResultType
  <2>2. Follows(x.bot, next, event.type)
    BY <2>1, ApplyFollows
  <2>3. AndThen(x, event, priced, gain) = y
    BY <1>2 DEF AndThen
  <2> HIDE DEF next
  <2>4. next \in ResultType /\ next.actions \in Seq(ActionType)
    <3>1. next \in ResultType
      BY <2>2 DEF Follows
    <3> QED
      BY <3>1 DEF ResultType
  <2>5. /\ acts \in Seq(ActionType)
        /\ \A i \in DOMAIN acts : \/ \E j \in DOMAIN x.actions : acts[i] = x.actions[j]
                                  \/ \E j \in DOMAIN next.actions : acts[i] = next.actions[j]
    <3> DEFINE s == x.actions
               t == next.actions
    <3>1. s \in Seq(ActionType) /\ t \in Seq(ActionType) /\ acts = s \o t
      BY <2>1, <2>4
    <3> HIDE DEF s, t, acts
    <3>2. acts \in Seq(ActionType)
      BY <3>1
    <3>3. \A i \in DOMAIN acts : \/ i \in DOMAIN s /\ acts[i] = s[i]
                                 \/ i - Len(s) \in DOMAIN t /\ acts[i] = t[i - Len(s)]
      BY <3>1
    <3>4. \A i \in DOMAIN acts : \/ \E j \in DOMAIN s : acts[i] = s[j]
                                 \/ \E j \in DOMAIN t : acts[i] = t[j]
      BY <3>3
    <3> QED
      BY <3>2, <3>4 DEF s, t
  <2> HIDE DEF acts
  <2>6. y \in ResultType /\ y.bot = next.bot /\ y.actions = acts
    BY <2>4, <2>5 DEF ResultType
  <2> HIDE DEF y
  <2>7. b.cooling \subseteq y.bot.cooling
        /\ Exchanges(y.bot.pending) \subseteq Exchanges(b.pending) \cup {0}
    BY <2>2, <2>6 DEF Along, Follows
  <2>8. ASSUME NEW j \in DOMAIN x.actions, NEW a, a = x.actions[j]
        PROVE  /\ a.reason = "stop_loss" => a.type = "close" /\ a.pair \in y.bot.cooling
               /\ a.reason \in {"position_entry", "inventory_sell"}
                    => m < k /\ a.pair \notin y.bot.cooling
    <3>1. x.bot.cooling \subseteq y.bot.cooling
      BY <2>2, <2>6 DEF Follows
    <3>2. m < k - 1 => m < k /\ y.bot.cooling = x.bot.cooling
      <4>1. m < k - 1 => m < k
        OBVIOUS
      <4>2. event.type = "belief" => y.bot.cooling = x.bot.cooling
        BY <2>2, <2>6 DEF Follows
      <4> QED
        BY <4>1, <4>2
    <3>3. /\ a.reason = "stop_loss" => a.type = "close" /\ a.pair \in x.bot.cooling
          /\ a.reason \in {"position_entry", "inventory_sell"}
               => m < k - 1 /\ a.pair \notin x.bot.cooling
      BY <2>8 DEF Along
    <3> QED
      BY <3>1, <3>2, <3>3
  <2>9. ASSUME NEW j \in DOMAIN next.actions, NEW a, a = next.actions[j]
        PROVE  /\ a.reason = "stop_loss" => a.type = "close" /\ a.pair \in y.bot.cooling
               /\ a.reason \in {"position_entry", "inventory_sell"}
                    => m < k /\ a.pair \notin y.bot.cooling
    BY <2>2, <2>6, <2>9 DEF Follows
  <2>10. Along(b, m, k, y)
    BY <2>5, <2>6, <2>7, <2>8, <2>9 DEF Along
  <2> QED
    BY <2>3, <2>10
<1> QED
  BY <1>1, <1>2

LEMMA CycleAlong ==
  ASSUME NEW b \in BotType, NEW events \in Seq(EventType), NEW m \in Nat,
         \A k \in DOMAIN events : m < k <=> events[k].type = "belief",
         NEW priced, NEW gain \in Int
  PROVE  Along(b, m, Len(events), Cycle(b, events, priced, gain))
<1> DEFINE n == Len(events)
<1>1. n \in Nat /\ DOMAIN events = 1..n /\ \A k \in 1..n : events[k] \in EventType
  OBVIOUS
<1>2. PICK f : /\ f[0] = Done(b, <<>>)
               /\ \A k \in 1..n : f[k] = AndThen(f[k - 1], events[k], priced, gain)
               /\ Cycle(b, events, priced, gain) = f[n]
  BY <1>1, CycleIs
<1> HIDE DEF n
<1> DEFINE Bad == {k \in 0..n : ~Along(b, m, k, f[k])}
<1>3. ASSUME Bad # {} PROVE FALSE
  <2>1. PICK k \in Bad : \A j \in Bad : k <= j
    <3>1. Bad \in SUBSET Nat
      OBVIOUS
    <3> HIDE DEF Bad
    <3> QED
      BY <1>3, <3>1, LeastExists
  <2>2. CASE k = 0
    <3>1. Along(b, m, 0, Done(b, <<>>))
      BY DEF Along, Done, ResultType
    <3> QED
      BY <1>2, <2>1, <2>2, <3>1
  <2>3. CASE k # 0
    <3>1. k \in 1..n /\ k \in Nat \ {0} /\ k - 1 \in 0..n /\ k - 1 \notin Bad
      BY <1>1, <2>1, <2>3
    <3>2. Along(b, m, k - 1, f[k - 1])
      BY <3>1
    <3>3. events[k] \in EventType /\ (m < k <=> events[k].type = "belief")
      BY <1>1, <3>1
    <3>4. Along(b, m, k, AndThen(f[k - 1], events[k], priced, gain))
      BY <3>1, <3>2, <3>3, AlongStep
    <3> QED
      BY <1>2, <2>1, <3>1, <3>4
  <2> QED
    BY <2>2, <2>3
<1> QED
  BY <1>1, <1>2, <1>3

\* The events of a cycle: verdicts, windows, reconciliation and fills, then beliefs.
LEMMA EventsTyped ==
  ASSUME NEW b \in BotType, NEW fs \in Seq(FillType), NEW ss \in Seq(SignalType),
         NEW verdict \in [DOMAIN b.positions -> {"hold", "stop", "target"}], NEW expired \in Ids,
         NEW isDue \in BOOLEAN, NEW wallet \in [usd : Int, doge : Int],
         NEW events, events = Events(b, verdict, expired, isDue, wallet, fs, ss)
  PROVE  /\ events \in Seq(EventType)
         /\ \E m \in Nat : \A k \in DOMAIN events : m < k <=> events[k].type = "belief"
<1> DEFINE one == [i \in DOMAIN b.positions |-> [type |-> verdict[i], id |-> b.positions[i].id]]
           window == [type |-> "window", id |-> expired]
           two == <<window>>
           reconciliation == [type |-> "reconciliation", usd |-> wallet.usd, doge |-> wallet.doge]
           three == IF isDue THEN <<reconciliation>> ELSE <<>>
           four == [i \in DOMAIN fs |-> [type |-> "fill", fill |-> fs[i]]]
           five == [i \in DOMAIN ss |-> [type |-> "belief", belief |-> ss[i]]]
           Early == {e \in EventType : e.type # "belief"}
           Late == {e \in EventType : e.type = "belief"}
<1>1. one \in Seq(Early)
  <2>1. b.positions \in Seq(PositionType)
    BY DEF BotType
  <2>2. /\ Len(b.positions) \in Nat /\ DOMAIN b.positions = 1..Len(b.positions)
        /\ \A i \in DOMAIN b.positions : b.positions[i] \in PositionType
    BY <2>1
  <2>3. \A i \in DOMAIN b.positions : one[i] \in Early
    BY <2>2 DEF EventType, PositionType
  <2>4. one = [i \in 1..Len(b.positions) |-> one[i]]
    BY <2>2
  <2> HIDE DEF one, Early
  <2> QED
    BY <2>2, <2>3, <2>4, ListTyped
<1>2. two \in Seq(Early)
  <2>1. window \in Early
    BY DEF EventType
  <2> HIDE DEF window, Early
  <2> QED
    BY <2>1
<1>3. three \in Seq(Early)
  <2>1. reconciliation \in Early
    BY DEF EventType
  <2> HIDE DEF reconciliation, Early
  <2> QED
    BY <2>1
<1>4. four \in Seq(Early)
  <2>1. /\ Len(fs) \in Nat /\ DOMAIN fs = 1..Len(fs) /\ \A i \in DOMAIN fs : fs[i] \in FillType
    OBVIOUS
  <2>2. \A i \in DOMAIN fs : four[i] \in Early
    BY <2>1 DEF EventType
  <2>3. four = [i \in 1..Len(fs) |-> four[i]]
    BY <2>1
  <2> HIDE DEF four, Early
  <2> QED
    BY <2>1, <2>2, <2>3, ListTyped
<1>5. five \in Seq(Late)
  <2>1. /\ Len(ss) \in Nat /\ DOMAIN ss = 1..Len(ss) /\ \A i \in DOMAIN ss : ss[i] \in SignalType
    OBVIOUS
  <2>2. \A i \in DOMAIN ss : five[i] \in Late
    BY <2>1 DEF EventType
  <2>3. five = [i \in 1..Len(ss) |-> five[i]]
    BY <2>1
  <2> HIDE DEF five, Late
  <2> QED
    BY <2>1, <2>2, <2>3, ListTyped
<1>6. events = one \o two \o three \o four \o five
  BY DEF Events
<1>7. Early \subseteq EventType /\ Late \subseteq EventType
  OBVIOUS
<1> HIDE DEF one, two, three, four, five
<1> DEFINE first == one \o two \o three \o four
<1>8. first \in Seq(Early)
  <2> HIDE DEF Early
  <2> QED
    BY <1>1, <1>2, <1>3, <1>4
<1>9. events = first \o five /\ Len(first) \in Nat
  BY <1>6, <1>8
<1> HIDE DEF first
<1>10. events \in Seq(EventType)
  <2>1. first \in Seq(EventType) /\ five \in Seq(EventType)
    <3> HIDE DEF Early, Late
    <3> QED
      BY <1>5, <1>7, <1>8
  <2> QED
    BY <1>9, <2>1
<1>11. \A k \in DOMAIN events : \/ k \in DOMAIN first /\ events[k] = first[k]
                                \/ /\ k - Len(first) \in DOMAIN five /\ k > Len(first)
                                   /\ events[k] = five[k - Len(first)]
  <2> HIDE DEF Early, Late
  <2> QED
    BY <1>5, <1>8, <1>9
<1>12. /\ \A k \in DOMAIN first : first[k] \in Early /\ k <= Len(first) /\ k \in Nat
       /\ \A k \in DOMAIN five : five[k] \in Late /\ k \in Nat
  <2> HIDE DEF Early, Late
  <2> QED
    BY <1>5, <1>8
<1>13. \A k \in DOMAIN events : Len(first) < k <=> events[k].type = "belief"
  <2> SUFFICES ASSUME NEW k \in DOMAIN events PROVE Len(first) < k <=> events[k].type = "belief"
    OBVIOUS
  <2>1. CASE k \in DOMAIN first /\ events[k] = first[k]
    <3>1. events[k].type # "belief" /\ k <= Len(first) /\ k \in Nat
      BY <1>12, <2>1
    <3> QED
      BY <1>9, <3>1
  <2>2. CASE k - Len(first) \in DOMAIN five /\ k > Len(first) /\ events[k] = five[k - Len(first)]
    <3>1. events[k].type = "belief"
      BY <1>12, <2>2
    <3> QED
      BY <2>2, <3>1
  <2> QED
    BY <1>11, <2>1, <2>2
<1> QED
  BY <1>9, <1>10, <1>13

-----------------------------------------------------------------------------
(* What a cycle leaves to do *)

\* The writes of a cycle: a stop writes its pair's cooldown.
LEMMA WritesTyped ==
  ASSUME NEW old \in Seq(PositionType), NEW new \in Seq(PositionType), NEW actions \in Seq(ActionType),
         NEW writes, writes = Writes(old, new, actions)
  PROVE  /\ writes \in Seq(EffectType)
         /\ \A k \in DOMAIN writes : writes[k].type \in {"upsert", "closed", "cooldown"}
         /\ \A i \in DOMAIN actions : actions[i].type = "close" /\ actions[i].reason = "stop_loss"
              => \E k \in DOMAIN writes : writes[k].type = "cooldown" /\ writes[k].pair = actions[i].pair
<1> DEFINE Same(q) == \E i \in DOMAIN old : old[i] = q
           Gone(q) == \A i \in DOMAIN new : new[i].id # q.id
           C == {i \in DOMAIN new : ~Same(new[i])}
           R == {i \in DOMAIN old : Gone(old[i])}
           S == {i \in DOMAIN actions : actions[i].type = "close" /\ actions[i].reason = "stop_loss"}
           changed == Picked(new, C)
           removed == Picked(old, R)
           stops == Picked(actions, S)
           one == [i \in DOMAIN changed |-> [type |-> "upsert", position |-> changed[i]]]
           two == [i \in DOMAIN removed |-> [type |-> "closed", id |-> removed[i].id]]
           three == [i \in DOMAIN stops |-> [type |-> "cooldown", pair |-> stops[i].pair]]
           W == {e \in EffectType : e.type \in {"upsert", "closed", "cooldown"}}
<1>1. writes = one \o two \o three
  BY DEF Writes, Keeping
<1>2. C \in SUBSET DOMAIN new /\ R \in SUBSET DOMAIN old /\ S \in SUBSET DOMAIN actions
  OBVIOUS
<1>3. changed \in Seq(PositionType) /\ removed \in Seq(PositionType)
  <2> HIDE DEF C, R
  <2> QED
    BY <1>2, PickedLaws
<1>4. /\ stops \in Seq(ActionType)
      /\ \A i \in S : \E k \in DOMAIN stops : stops[k] = actions[i]
  <2> HIDE DEF S
  <2> QED
    BY <1>2, PickedLaws
<1> HIDE DEF changed, removed, stops
<1>5. one \in Seq(W)
  <2>1. /\ Len(changed) \in Nat /\ DOMAIN changed = 1..Len(changed)
        /\ \A i \in DOMAIN changed : changed[i] \in PositionType
    BY <1>3
  <2>2. \A i \in DOMAIN changed : one[i] \in W
    BY <2>1 DEF EffectType
  <2>3. one = [i \in 1..Len(changed) |-> one[i]]
    BY <2>1
  <2> HIDE DEF one, W
  <2> QED
    BY <2>1, <2>2, <2>3, ListTyped
<1>6. two \in Seq(W)
  <2>1. /\ Len(removed) \in Nat /\ DOMAIN removed = 1..Len(removed)
        /\ \A i \in DOMAIN removed : removed[i] \in PositionType
    BY <1>3
  <2>2. \A i \in DOMAIN removed : removed[i].id \in Ids
    BY <2>1 DEF PositionType
  <2>3. \A i \in DOMAIN removed : two[i] \in W
    BY <2>2 DEF EffectType
  <2>4. two = [i \in 1..Len(removed) |-> two[i]]
    BY <2>1
  <2> HIDE DEF two, W
  <2> QED
    BY <2>1, <2>3, <2>4, ListTyped
<1>7. three \in Seq(W) /\ DOMAIN three = DOMAIN stops
  <2>1. /\ Len(stops) \in Nat /\ DOMAIN stops = 1..Len(stops)
        /\ \A i \in DOMAIN stops : stops[i] \in ActionType
    BY <1>4
  <2>2. \A i \in DOMAIN stops : stops[i].pair \in Pairs
    BY <2>1 DEF ActionType
  <2>3. \A i \in DOMAIN stops : three[i] \in W
    BY <2>2 DEF EffectType
  <2>4. three = [i \in 1..Len(stops) |-> three[i]]
    BY <2>1
  <2>5. DOMAIN three = DOMAIN stops
    OBVIOUS
  <2> HIDE DEF three, W
  <2> QED
    BY <2>1, <2>3, <2>4, <2>5, ListTyped
<1>8. \A k \in DOMAIN stops : three[k].type = "cooldown" /\ three[k].pair = stops[k].pair
  OBVIOUS
<1> HIDE DEF one, two, three
<1> DEFINE n == Len(one \o two)
<1>9. writes \in Seq(W)
  <2> HIDE DEF W
  <2> QED
    BY <1>1, <1>5, <1>6, <1>7
<1>10. \A k \in DOMAIN three : n + k \in DOMAIN writes /\ writes[n + k] = three[k]
  <2> HIDE DEF W
  <2> QED
    BY <1>1, <1>5, <1>6, <1>7
<1>11. W \subseteq EffectType
  OBVIOUS
<1>12. writes \in Seq(EffectType) /\ \A k \in DOMAIN writes : writes[k] \in W
  <2> HIDE DEF W
  <2> QED
    BY <1>9, <1>11
<1>13. ASSUME NEW i \in S
       PROVE  \E k \in DOMAIN writes : writes[k].type = "cooldown" /\ writes[k].pair = actions[i].pair
  <2>1. PICK k \in DOMAIN stops : stops[k] = actions[i]
    BY <1>4
  <2>2. n + k \in DOMAIN writes /\ writes[n + k] = three[k]
    BY <1>7, <1>10
  <2> QED
    BY <1>8, <2>1, <2>2
<1> QED
  BY <1>12, <1>13

-----------------------------------------------------------------------------
(* The invariant *)

\* Every pending order that has an exchange id names an order of the exchange.
PendingKnown == Exchanges(bot.pending) \subseteq OrderNumbers \cup {0}

\* An order found gone by a fetch does not come back before it is worked off.
GoneStaysGone ==
  pc \in {"starting", "resolving"}
    => \A i \in DOMAIN todo : todo[i].pending.exchange \in OrderNumbers
                                => ~orders[todo[i].pending.exchange].live

\* A row that has a status has a kind.
RowsKinded == \A o \in DOMAIN rows : rows[o].status # "none" => rows[o].kind \in OrderKinds

\* Fills wait only while the reconciliation they ask for is due.
FillsDue == fills # <<>> => due

\* A pair whose stop has sold is in the table, and in the state of any process.
StoppedCools == stopped \subseteq dbCooldowns /\ (pc # "down" => stopped \subseteq bot.cooling)

\* Effects that wait: a stop sells a pair that cools, after its cooldown is
\* written; no entry waits for a pair that cools.
EffectsCool ==
  pc = "effects"
    => \A i \in DOMAIN todo :
         todo[i].type \in {"place", "close"} =>
           /\ todo[i].reason = "stop_loss"
                => /\ todo[i].type = "close" /\ todo[i].pair \in bot.cooling
                   /\ \/ todo[i].pair \in dbCooldowns
                      \/ \E j \in DOMAIN todo : j < i /\ todo[j].type = "cooldown"
                                                /\ todo[j].pair = todo[i].pair
           /\ todo[i].reason \in {"position_entry", "inventory_sell"}
                => todo[i].pair \notin bot.cooling

IInv == /\ TypeOK /\ PendingKnown /\ GoneStaysGone /\ CancelledRowNotLive
        /\ RowsKinded /\ FillsDue /\ StoppedCools /\ EffectsCool

LEMMA MaxExists ==
  ASSUME NEW S \in SUBSET Nat, IsFiniteSet(S), S # {}
  PROVE  Max(S) \in S /\ \A y \in S : Max(S) >= y
<1> DEFINE n == Cardinality(S)
<1>1. n \in Nat /\ n # 0
  BY FS_CardinalityType, FS_EmptySet
<1>2. n \in 1..n
  BY <1>1
<1>3. PICK x \in S : Rank(S, x) = n
  BY <1>2, RankLaws
<1>4. \A y \in S : x >= y
  <2> SUFFICES ASSUME NEW y \in S, ~(x >= y) PROVE FALSE
    OBVIOUS
  <2>1. x < y
    OBVIOUS
  <2>2. Rank(S, x) < Rank(S, y) /\ Rank(S, y) \in 1..n
    BY <2>1, RankLaws
  <2> HIDE DEF n
  <2> QED
    BY <1>1, <1>3, <2>2
<1> QED
  BY <1>4 DEF Max

LEMMA InitialTyped ==
  ASSUME NEW usd \in Int, NEW doge \in Int, NEW positions \in Seq(PositionType),
         NEW pending \in Seq(PendingType), NEW cooling \in SUBSET Pairs,
         NEW b, b = InitialBot(usd, doge, positions, pending, cooling)
  PROVE  b \in BotType /\ b.pending = pending /\ b.cooling = cooling
<1> DEFINE numbers == {positions[i].id.n : i \in DOMAIN positions}
           f == [i \in DOMAIN positions |-> positions[i].id.n]
           first == 1 + Max(numbers \cup {0})
           beliefs == [p \in Pairs |-> "none"]
<1>1. /\ DOMAIN positions = 1..Len(positions) /\ Len(positions) \in Nat
      /\ \A i \in DOMAIN positions : positions[i] \in PositionType
  OBVIOUS
<1>2. \A i \in DOMAIN positions : positions[i].id.n \in Nat
  BY <1>1 DEF PositionType, Ids
<1>3. f \in Surjection(DOMAIN positions, numbers)
  BY DEF Surjection
<1>4. IsFiniteSet(DOMAIN positions)
  BY <1>1, FS_Interval
<1>5. IsFiniteSet(numbers)
  <2> HIDE DEF f, numbers
  <2> QED
    BY <1>3, <1>4, FS_Surjection
<1>6. IsFiniteSet(numbers \cup {0}) /\ numbers \cup {0} \in SUBSET Nat
  <2>1. numbers \in SUBSET Nat
    BY <1>2
  <2> HIDE DEF numbers
  <2> QED
    BY <1>5, <2>1, FS_AddElement
<1>7. first \in Nat
  <2> HIDE DEF numbers
  <2>1. Max(numbers \cup {0}) \in numbers \cup {0}
    BY <1>6, MaxExists
  <2> QED
    BY <1>6, <2>1
<1>8. b = [positions |-> positions, pending |-> pending, cooling |-> cooling,
           beliefs |-> beliefs, usd |-> usd, doge |-> doge, seq |-> first]
  BY DEF InitialBot
<1>9. beliefs \in [Pairs -> Directions]
  BY DEF Directions
<1> HIDE DEF first, beliefs
<1> QED
  BY <1>7, <1>8, <1>9 DEF BotType

\* The state without a process.
LEMMA EmptyTyped ==
  ASSUME NEW b, b = InitialBot(0, 0, <<>>, <<>>, {})
  PROVE  b \in BotType /\ b.pending = <<>> /\ b.cooling = {}
<1> DEFINE ps == <<>>
           cs == {}
<1>1. ps \in Seq(PositionType) /\ ps \in Seq(PendingType) /\ cs \in SUBSET Pairs
  OBVIOUS
<1>2. b = InitialBot(0, 0, ps, ps, cs)
  OBVIOUS
<1> HIDE DEF ps, cs
<1>3. b \in BotType /\ b.pending = ps /\ b.cooling = cs
  BY <1>1, <1>2, InitialTyped
<1> QED
  BY <1>3 DEF ps, cs

LEMMA TailLaws ==
  ASSUME NEW T, NEW s \in Seq(T), s # <<>>
  PROVE  /\ Head(s) = s[1] /\ Head(s) \in T /\ 1 \in DOMAIN s
         /\ Tail(s) \in Seq(T) /\ Len(Tail(s)) = Len(s) - 1
         /\ \A i \in DOMAIN Tail(s) : i + 1 \in DOMAIN s /\ Tail(s)[i] = s[i + 1]
         /\ \A i \in DOMAIN s : i # 1 => i - 1 \in DOMAIN Tail(s) /\ Tail(s)[i - 1] = s[i]
OBVIOUS

LEMMA InitInv == Init => IInv
<1> SUFFICES ASSUME Init PROVE IInv
  OBVIOUS
<1>1. bot \in BotType /\ bot.pending = <<>> /\ bot.cooling = {}
  BY EmptyTyped DEF Init
<1>2. /\ <<>> \in Seq(SignalType) /\ <<>> \in Seq(FillType) /\ <<>> \in Seq(OrderType)
      /\ <<>> \in Seq(RowType) /\ <<>> \in Seq(PositionType) /\ <<>> \in Seq(WorkAt("down"))
  OBVIOUS
<1>3. TypeOK
  BY <1>1, <1>2 DEF Init, TypeOK, OrderNumbers
<1>4. PendingKnown
  BY <1>1 DEF PendingKnown, Exchanges
<1> QED
  BY <1>3, <1>4 DEF Init, IInv, GoneStaysGone, CancelledRowNotLive, RowsKinded, FillsDue,
                    StoppedCools, EffectsCool, OrderNumbers

-----------------------------------------------------------------------------
(* The lists the handlers make *)

LEMMA WorkIs ==
  /\ WorkAt("down") = {} /\ WorkAt("idle") = {} /\ WorkAt("reaping") = ReapType
  /\ WorkAt("effects") = EffectType
  /\ WorkAt("starting") = ResolveType /\ WorkAt("resolving") = ResolveType
BY DEF WorkAt

LEMMA Orderly ==
  ASSUME TypeOK
  PROVE  /\ OrderNumbers = 1..Len(orders) /\ Len(orders) \in Nat /\ DOMAIN rows = OrderNumbers
         /\ \A o \in OrderNumbers : orders[o] \in OrderType /\ rows[o] \in RowType
BY DEF TypeOK, OrderNumbers

\* What one fetch says is gone is gone.
LEMMA MissingLaws ==
  ASSUME TypeOK, NEW pending \in Seq(PendingType), Exchanges(pending) \subseteq OrderNumbers \cup {0},
         NEW items, items = Missing(pending)
  PROVE  /\ items \in Seq(ResolveType)
         /\ \A i \in DOMAIN items : items[i].pending.exchange \in OrderNumbers
                                      => ~orders[items[i].pending.exchange].live
<1> DEFINE G == {i \in DOMAIN pending : ~ListedOpen(pending[i])}
           gone == Picked(pending, G)
<1>1. items = [i \in DOMAIN gone |-> [type |-> "resolve", pending |-> gone[i], traded |-> Traded(gone[i])]]
  BY DEF Missing, Keeping
<1>2. G \in SUBSET DOMAIN pending
  OBVIOUS
<1>3. gone \in Seq(PendingType) /\ \A k \in DOMAIN gone : \E i \in G : gone[k] = pending[i]
  BY <1>2, PickedLaws
<1> HIDE DEF gone
<1>4. ASSUME NEW k \in DOMAIN gone
      PROVE  /\ items[k] = [type |-> "resolve", pending |-> gone[k], traded |-> Traded(gone[k])]
             /\ gone[k] \in PendingType /\ Traded(gone[k]) \in Nat /\ items[k] \in ResolveType
             /\ gone[k].exchange \in OrderNumbers => ~orders[gone[k].exchange].live
  <2>1. items[k] = [type |-> "resolve", pending |-> gone[k], traded |-> Traded(gone[k])]
    BY <1>1
  <2>2. gone[k] \in PendingType
    BY <1>3
  <2>3. PICK i \in DOMAIN pending : gone[k] = pending[i] /\ ~ListedOpen(pending[i])
    BY <1>3
  <2>4. gone[k].exchange \in OrderNumbers \cup {0}
    BY <2>3 DEF Exchanges
  <2>5. \A o \in OrderNumbers : orders[o] \in OrderType /\ o # 0
    BY Orderly
  <2>6. Traded(gone[k]) \in Nat
    BY <2>4, <2>5 DEF Traded, OrderType
  <2>7. gone[k].exchange \in OrderNumbers => ~orders[gone[k].exchange].live
    BY <2>3, <2>5 DEF ListedOpen
  <2>8. items[k] \in ResolveType
    BY <2>1, <2>2, <2>6 DEF ResolveType
  <2> QED
    BY <2>1, <2>2, <2>6, <2>7, <2>8
<1>5. DOMAIN gone = 1..Len(gone) /\ Len(gone) \in Nat
  BY <1>3
<1>6. items = [k \in 1..Len(gone) |-> items[k]] /\ DOMAIN items = DOMAIN gone
  BY <1>1, <1>5
<1>9. \A k \in 1..Len(gone) : items[k] \in ResolveType
  BY <1>4, <1>5
<1>7. items \in Seq(ResolveType)
  BY <1>5, <1>6, <1>9, ListTyped
<1>8. \A k \in DOMAIN items : items[k].pending = gone[k]
  <2> SUFFICES ASSUME NEW k \in DOMAIN gone PROVE items[k].pending = gone[k]
    BY <1>6
  <2>1. items[k] = [type |-> "resolve", pending |-> gone[k], traded |-> Traded(gone[k])]
    BY <1>4
  <2> QED
    BY <2>1
<1> QED
  BY <1>4, <1>6, <1>7, <1>8

LEMMA FetchLaws ==
  ASSUME TypeOK, RowsKinded, NEW fetched, fetched = FetchOpenOrders
  PROVE  fetched \in Seq(PendingType) /\ Exchanges(fetched) \subseteq OrderNumbers
<1> DEFINE all == [o \in OrderNumbers |-> o]
           I == {o \in DOMAIN all : rows[all[o]].status = "open"}
           open == Picked(all, I)
<1>1. OrderNumbers = 1..Len(orders) /\ Len(orders) \in Nat
  BY Orderly
<1>2. all \in Seq(OrderNumbers) /\ I \in SUBSET DOMAIN all
  <2>1. all = [k \in 1..Len(orders) |-> all[k]] /\ \A k \in 1..Len(orders) : all[k] \in OrderNumbers
    BY <1>1
  <2> HIDE DEF all
  <2> QED
    BY <1>1, <2>1, ListTyped
<1>3. open \in Seq(OrderNumbers) /\ \A k \in DOMAIN open : \E o \in I : open[k] = all[o]
  <2> HIDE DEF all, I
  <2> QED
    BY <1>2, PickedLaws
<1>4. fetched = [i \in DOMAIN open |-> PendingOf(open[i])]
  BY DEF FetchOpenOrders, Keeping
<1> HIDE DEF open
<1>5. ASSUME NEW k \in DOMAIN open
      PROVE  PendingOf(open[k]) \in PendingType /\ PendingOf(open[k]).exchange \in OrderNumbers
  <2>1. PICK o \in OrderNumbers : open[k] = o /\ rows[o].status = "open"
    BY <1>3
  <2>2. orders[o] \in OrderType /\ rows[o] \in RowType /\ o \in DOMAIN rows /\ o \in Nat
    BY <1>1, Orderly
  <2>3. rows[o].kind \in OrderKinds
    BY <2>1, <2>2 DEF RowsKinded
  <2>4. /\ rows[o].client \in Ids /\ rows[o].position \in Ids /\ rows[o].base \in Nat /\ rows[o].quote \in Nat
        /\ orders[o].pair \in Pairs /\ orders[o].side \in {"buy", "sell"}
    BY <2>2 DEF RowType, OrderType
  <2> QED
    BY <2>1, <2>2, <2>3, <2>4 DEF PendingOf, PendingType
<1>6. DOMAIN open = 1..Len(open) /\ Len(open) \in Nat
  BY <1>3
<1>7. fetched = [k \in 1..Len(open) |-> fetched[k]] /\ DOMAIN fetched = DOMAIN open
      /\ \A k \in DOMAIN open : fetched[k] = PendingOf(open[k])
  BY <1>4, <1>6
<1>8. fetched \in Seq(PendingType)
  BY <1>5, <1>6, <1>7, ListTyped
<1>9. \A k \in DOMAIN fetched : fetched[k].exchange \in OrderNumbers
  BY <1>5, <1>7
<1> HIDE DEF all, I
<1> QED
  BY <1>8, <1>9 DEF Exchanges

LEMMA SetStatusLaws ==
  ASSUME TypeOK, NEW o, NEW status \in {"open", "filled", "cancelled"},
         NEW next, next = SetStatus(o, status)
  PROVE  /\ next \in Seq(RowType) /\ Len(next) = Len(rows) /\ DOMAIN next = DOMAIN rows
         /\ \A k \in DOMAIN rows : \/ next[k] = rows[k]
                                   \/ /\ k = o /\ rows[k].status # "none" /\ next[k].status = status
                                      /\ next[k].kind = rows[k].kind
<1> DEFINE changed == [rows EXCEPT ![o].status = status]
<1>1. rows \in Seq(RowType) /\ DOMAIN rows = 1..Len(rows) /\ Len(rows) \in Nat
      /\ \A k \in DOMAIN rows : rows[k] \in RowType
  BY DEF TypeOK
<1>2. next = IF o = 0 \/ rows[o].status = "none" THEN rows ELSE changed
  BY DEF SetStatus
<1>3. \A k \in DOMAIN rows : changed[k] = IF k = o THEN [rows[k] EXCEPT !.status = status] ELSE rows[k]
  OBVIOUS
<1>4. DOMAIN changed = DOMAIN rows
  OBVIOUS
<1>8. \A r \in RowType : LET c == [r EXCEPT !.status = status]
                         IN  c \in RowType /\ c.kind = r.kind /\ c.status = status
  BY DEF RowType
<1>5. \A k \in DOMAIN rows : changed[k] \in RowType
                             /\ changed[k].kind = rows[k].kind /\ (k = o => changed[k].status = status)
  BY <1>1, <1>3, <1>8
<1>6. changed = [k \in 1..Len(rows) |-> changed[k]]
  BY <1>1, <1>4
<1> HIDE DEF changed
<1>7. changed \in Seq(RowType) /\ Len(changed) = Len(rows)
  BY <1>1, <1>4, <1>5, <1>6, ListTyped
<1> QED
  BY <1>1, <1>2, <1>3, <1>4, <1>5, <1>7

LEMMA RowWritten ==
  ASSUME TypeOK, NEW o, NEW row \in RowType, NEW next, next = [rows EXCEPT ![o] = row]
  PROVE  /\ next \in Seq(RowType) /\ Len(next) = Len(rows) /\ DOMAIN next = DOMAIN rows
         /\ \A k \in DOMAIN rows : next[k] = IF k = o THEN row ELSE rows[k]
<1> DEFINE changed == [rows EXCEPT ![o] = row]
<1>1. rows \in Seq(RowType) /\ DOMAIN rows = 1..Len(rows) /\ Len(rows) \in Nat
      /\ \A k \in DOMAIN rows : rows[k] \in RowType
  BY DEF TypeOK
<1>2. DOMAIN changed = DOMAIN rows /\ \A k \in DOMAIN rows : changed[k] = IF k = o THEN row ELSE rows[k]
  OBVIOUS
<1>3. changed = [k \in 1..Len(rows) |-> changed[k]] /\ \A k \in 1..Len(rows) : changed[k] \in RowType
  BY <1>1, <1>2
<1>4. next = changed
  OBVIOUS
<1> HIDE DEF changed
<1>5. changed \in Seq(RowType) /\ Len(changed) = Len(rows)
  BY <1>1, <1>3, ListTyped
<1> QED
  BY <1>2, <1>4, <1>5

LEMMA WithoutLaws ==
  ASSUME NEW pending \in Seq(PendingType), NEW I \in SUBSET DOMAIN pending
  PROVE  Picked(pending, I) \in Seq(PendingType) /\ Exchanges(Picked(pending, I)) \subseteq Exchanges(pending)
BY PickedLaws DEF Exchanges

-----------------------------------------------------------------------------
(* The steps keep the invariant: the process begins, ends, reconciles, reaps *)

LEMMA IdleTodo ==
  ASSUME TypeOK, pc \in {"idle", "down"}
  PROVE  todo = <<>>
<1>1. todo \in Seq({})
  BY WorkIs DEF TypeOK
<1>2. \A i \in DOMAIN todo : todo[i] \in {}
  BY <1>1
<1> QED
  BY <1>1, <1>2

LEMMA DownStep ==
  ASSUME IInv, Down, UNCHANGED <<orders, disk, stopped>>, crashes' \in Nat, believed' \in Nat
  PROVE  IInv'
<1>1. bot' \in BotType /\ bot'.pending = <<>> /\ bot'.cooling = {}
  BY EmptyTyped DEF Down
<1>2. TypeOK'
  <2>1. <<>> \in Seq(SignalType) /\ <<>> \in Seq(FillType) /\ <<>> \in Seq(WorkAt(pc'))
    OBVIOUS
  <2> QED
    BY <1>1, <2>1 DEF IInv, TypeOK, Down, disk, OrderNumbers
<1>3. PendingKnown'
  BY <1>1 DEF PendingKnown, Exchanges
<1> QED
  BY <1>2, <1>3 DEF IInv, Down, disk, GoneStaysGone, CancelledRowNotLive, RowsKinded, FillsDue,
                    StoppedCools, EffectsCool, OrderNumbers

LEMMA StartStep ==
  ASSUME IInv, Start
  PROVE  IInv'
<1>1. TypeOK /\ RowsKinded
  BY DEF IInv
<1>2. FetchOpenOrders \in Seq(PendingType) /\ Exchanges(FetchOpenOrders) \subseteq OrderNumbers
  BY <1>1, FetchLaws
<1>3. bot' \in BotType /\ bot'.pending = FetchOpenOrders /\ bot'.cooling = dbCooldowns
  <2>1. PICK b \in Balances : bot' = InitialBot(b.usd, b.doge, FetchOpenPositions, FetchOpenOrders, FetchCooldowns)
    BY DEF Start
  <2>2. b.usd \in Int /\ b.doge \in Int
    BY CoreAssumption
  <2>3. FetchOpenPositions \in Seq(PositionType) /\ FetchCooldowns \in SUBSET Pairs
        /\ FetchCooldowns = dbCooldowns
    BY <1>1 DEF TypeOK, FetchOpenPositions, FetchCooldowns
  <2> QED
    BY <1>2, <2>1, <2>2, <2>3, InitialTyped
<1>4. /\ todo' \in Seq(ResolveType)
      /\ \A i \in DOMAIN todo' : todo'[i].pending.exchange \in OrderNumbers
                                   => ~orders[todo'[i].pending.exchange].live
  <2>1. todo' = Missing(FetchOpenOrders)
    BY DEF Start
  <2> QED
    BY <1>1, <1>2, <2>1, MissingLaws
<1>5. TypeOK'
  BY <1>1, <1>3, <1>4, WorkIs DEF TypeOK, Start, disk, history, OrderNumbers
<1>6. PendingKnown'
  BY <1>2, <1>3 DEF PendingKnown, Start, OrderNumbers
<1>7. GoneStaysGone'
  BY <1>4 DEF GoneStaysGone, Start, OrderNumbers
<1>8. StoppedCools'
  BY <1>3 DEF IInv, StoppedCools, Start, disk, history
<1> QED
  BY <1>5, <1>6, <1>7, <1>8 DEF IInv, Start, disk, history, CancelledRowNotLive, RowsKinded, FillsDue,
                               EffectsCool, OrderNumbers

LEMMA CrashStep ==
  ASSUME IInv, Crash
  PROVE  IInv'
<1>1. crashes' \in Nat /\ believed' \in Nat
  BY DEF IInv, TypeOK, Crash
<1> QED
  BY <1>1, DownStep DEF Crash

LEMMA BeginCycleStep ==
  ASSUME IInv, BeginCycle
  PROVE  IInv'
<1>1. TypeOK /\ PendingKnown /\ bot \in BotType
  BY DEF IInv, TypeOK
<1>2. /\ todo' \in Seq(ResolveType)
      /\ \A i \in DOMAIN todo' : todo'[i].pending.exchange \in OrderNumbers
                                   => ~orders[todo'[i].pending.exchange].live
  <2>1. CASE todo' = Missing(bot.pending)
    <3>1. bot.pending \in Seq(PendingType)
      BY <1>1 DEF BotType
    <3> QED
      BY <1>1, <2>1, <3>1, MissingLaws DEF PendingKnown
  <2>2. CASE todo' = todo
    <3>1. todo' = <<>>
      BY <1>1, <2>2, IdleTodo DEF BeginCycle
    <3> QED
      BY <3>1
  <2> QED
    BY <2>1, <2>2 DEF BeginCycle
<1>3. TypeOK'
  BY <1>1, <1>2, WorkIs DEF TypeOK, BeginCycle, disk, history, OrderNumbers
<1>4. GoneStaysGone'
  BY <1>2 DEF GoneStaysGone, BeginCycle, OrderNumbers
<1>5. FillsDue'
  BY DEF IInv, FillsDue, BeginCycle
<1> QED
  BY <1>3, <1>4, <1>5 DEF IInv, BeginCycle, disk, history, PendingKnown, CancelledRowNotLive, RowsKinded,
                          StoppedCools, EffectsCool, OrderNumbers

LEMMA EndStartStep ==
  ASSUME IInv, EndStart
  PROVE  IInv'
<1>1. TypeOK'
  <2>1. <<>> \in Seq(WorkAt("idle"))
    OBVIOUS
  <2> QED
    BY <2>1 DEF IInv, TypeOK, EndStart, memory, disk, history, OrderNumbers
<1> QED
  BY <1>1 DEF IInv, EndStart, memory, disk, history, PendingKnown, GoneStaysGone, CancelledRowNotLive,
              RowsKinded, FillsDue, StoppedCools, EffectsCool, OrderNumbers

\* What a loop still has to do, once the first of it is done.
LEMMA TodoLaws ==
  ASSUME TypeOK, todo # <<>>
  PROVE  /\ Head(todo) = todo[1] /\ Head(todo) \in WorkAt(pc) /\ 1 \in DOMAIN todo
         /\ Tail(todo) \in Seq(WorkAt(pc))
         /\ \A i \in DOMAIN Tail(todo) : i + 1 \in DOMAIN todo /\ Tail(todo)[i] = todo[i + 1]
         /\ \A i \in DOMAIN todo : i # 1 => i - 1 \in DOMAIN Tail(todo) /\ Tail(todo)[i - 1] = todo[i]
<1>1. todo \in Seq(WorkAt(pc))
  BY DEF TypeOK
<1> QED
  BY <1>1, TailLaws

LEMMA RecoverFillStep ==
  ASSUME IInv, RecoverFill
  PROVE  IInv'
<1> DEFINE q == Head(todo).pending
           fill == [order |-> q.exchange, client |-> q.client, pair |-> q.pair,
                    quantity |-> Head(todo).traded]
           result == FillConfirmed(bot, fill)
           I == {i \in DOMAIN result.bot.pending : result.bot.pending[i].client # q.client}
           kept == Picked(result.bot.pending, I)
<1>1. TypeOK /\ bot \in BotType /\ pc \in {"starting", "resolving"} /\ todo # <<>>
  BY DEF IInv, TypeOK, RecoverFill
<1>2. /\ Head(todo) = todo[1] /\ Head(todo) \in ResolveType /\ Tail(todo) \in Seq(ResolveType)
      /\ \A i \in DOMAIN Tail(todo) : i + 1 \in DOMAIN todo /\ Tail(todo)[i] = todo[i + 1]
  BY <1>1, TodoLaws, WorkIs
<1>3. fill \in FillType
  BY <1>2 DEF ResolveType, PendingType, FillType
<1>4. Follows(bot, result, "fill")
  BY <1>1, <1>3, FillFollows
<1>5. /\ \/ /\ result.ok
            /\ bot' = [result.bot EXCEPT !.pending = kept]
            /\ todo' = Tail(todo) /\ rows' = SetStatus(q.exchange, "filled") /\ UNCHANGED pc
         \/ pc' = "idle" /\ todo' = <<>> /\ UNCHANGED <<bot, rows>>
      /\ UNCHANGED <<signals, fills, due, webOrder, orders, dbPositions, dbCooldowns, believed, crashes, stopped>>
  BY DEF RecoverFill, WithoutClient, Keeping
<1> HIDE DEF q, fill, result
<1>6. CASE /\ bot' = [result.bot EXCEPT !.pending = kept]
           /\ todo' = Tail(todo) /\ rows' = SetStatus(q.exchange, "filled") /\ UNCHANGED pc
  <2>1. result.bot \in BotType
    BY <1>4 DEF Follows, ResultType
  <2>2. result.bot.pending \in Seq(PendingType) /\ I \in SUBSET DOMAIN result.bot.pending
    BY <2>1 DEF BotType
  <2>3. kept \in Seq(PendingType) /\ Exchanges(kept) \subseteq Exchanges(result.bot.pending)
    <3> HIDE DEF I
    <3> QED
      BY <2>2, WithoutLaws
  <2> HIDE DEF kept
  <2>4. bot' \in BotType
    BY <1>6, <2>1, <2>3 DEF BotType
  <2>5. bot'.pending = kept /\ bot'.cooling = result.bot.cooling
    BY <1>6, <2>1 DEF BotType
  <2>6. result.bot.cooling = bot.cooling
        /\ Exchanges(result.bot.pending) \subseteq Exchanges(bot.pending) \cup {0}
    BY <1>4 DEF Follows
  <2>7. /\ rows' \in Seq(RowType) /\ Len(rows') = Len(rows) /\ DOMAIN rows' = DOMAIN rows
        /\ \A k \in DOMAIN rows : \/ rows'[k] = rows[k]
                                  \/ /\ rows[k].status # "none" /\ rows'[k].status = "filled"
                                     /\ rows'[k].kind = rows[k].kind
    BY <1>1, <1>6, SetStatusLaws
  <2>8. TypeOK'
    BY <1>1, <1>2, <1>5, <1>6, <2>4, <2>7, WorkIs DEF TypeOK, OrderNumbers
  <2>9. PendingKnown'
    BY <1>5, <2>3, <2>5, <2>6 DEF IInv, PendingKnown, OrderNumbers
  <2>10. GoneStaysGone'
    BY <1>1, <1>2, <1>5, <1>6 DEF IInv, GoneStaysGone, OrderNumbers
  <2>11. CancelledRowNotLive'
    BY <1>1, <1>5, <2>7, Orderly DEF IInv, CancelledRowNotLive, OrderNumbers
  <2>12. RowsKinded'
    BY <2>7 DEF IInv, RowsKinded
  <2>13. FillsDue' /\ StoppedCools' /\ EffectsCool'
    BY <1>1, <1>5, <1>6, <2>5, <2>6 DEF IInv, FillsDue, StoppedCools, EffectsCool
  <2> QED
    BY <2>8, <2>9, <2>10, <2>11, <2>12, <2>13 DEF IInv
<1>7. CASE pc' = "idle" /\ todo' = <<>> /\ UNCHANGED <<bot, rows>>
  <2>1. <<>> \in Seq(WorkAt("idle"))
    OBVIOUS
  <2>2. TypeOK'
    BY <1>1, <1>5, <1>7, <2>1 DEF TypeOK, OrderNumbers
  <2> QED
    BY <1>1, <1>5, <1>7, <2>2 DEF IInv, PendingKnown, GoneStaysGone, CancelledRowNotLive, RowsKinded,
                                  FillsDue, StoppedCools, EffectsCool, OrderNumbers
<1> QED
  BY <1>5, <1>6, <1>7

LEMMA TakeAsCancelledStep ==
  ASSUME IInv, TakeAsCancelled
  PROVE  IInv'
<1> DEFINE q == Head(todo).pending
           I == {i \in DOMAIN bot.pending : bot.pending[i].client # q.client}
           kept == Picked(bot.pending, I)
<1>1. TypeOK /\ bot \in BotType /\ pc \in {"starting", "resolving"} /\ todo # <<>>
  BY DEF IInv, TypeOK, TakeAsCancelled
<1>2. /\ Head(todo) = todo[1] /\ Head(todo) \in ResolveType /\ Tail(todo) \in Seq(ResolveType)
      /\ 1 \in DOMAIN todo
      /\ \A i \in DOMAIN Tail(todo) : i + 1 \in DOMAIN todo /\ Tail(todo)[i] = todo[i + 1]
  BY <1>1, TodoLaws, WorkIs
<1>3. /\ bot' = [bot EXCEPT !.pending = kept] /\ todo' = Tail(todo)
      /\ rows' = SetStatus(q.exchange, "cancelled")
      /\ UNCHANGED <<pc, signals, fills, due, webOrder, orders, dbPositions, dbCooldowns,
                     believed, crashes, stopped>>
  BY DEF TakeAsCancelled, WithoutClient, Keeping
<1>4. q.exchange \in OrderNumbers => ~orders[q.exchange].live
  BY <1>1, <1>2 DEF IInv, GoneStaysGone
<1> HIDE DEF q
<1>5. bot.pending \in Seq(PendingType) /\ I \in SUBSET DOMAIN bot.pending
  BY <1>1 DEF BotType
<1>6. kept \in Seq(PendingType) /\ Exchanges(kept) \subseteq Exchanges(bot.pending)
  <2> HIDE DEF I
  <2> QED
    BY <1>5, WithoutLaws
<1> HIDE DEF kept
<1>7. bot' \in BotType
  BY <1>1, <1>3, <1>6 DEF BotType
<1>8. bot'.pending = kept /\ bot'.cooling = bot.cooling
  BY <1>1, <1>3 DEF BotType
<1>9. /\ rows' \in Seq(RowType) /\ Len(rows') = Len(rows) /\ DOMAIN rows' = DOMAIN rows
      /\ \A k \in DOMAIN rows : \/ rows'[k] = rows[k]
                                \/ /\ k = q.exchange /\ rows[k].status # "none"
                                   /\ rows'[k].kind = rows[k].kind
  BY <1>1, <1>3, SetStatusLaws
<1>10. TypeOK'
  BY <1>1, <1>2, <1>3, <1>7, <1>9, WorkIs DEF TypeOK, OrderNumbers
<1>11. PendingKnown'
  BY <1>3, <1>6, <1>8 DEF IInv, PendingKnown, OrderNumbers
<1>12. GoneStaysGone'
  BY <1>1, <1>2, <1>3 DEF IInv, GoneStaysGone, OrderNumbers
<1>13. CancelledRowNotLive'
  BY <1>1, <1>3, <1>4, <1>9, Orderly DEF IInv, CancelledRowNotLive, OrderNumbers
<1>14. RowsKinded'
  BY <1>9 DEF IInv, RowsKinded
<1>15. FillsDue' /\ StoppedCools' /\ EffectsCool'
  BY <1>1, <1>3, <1>8 DEF IInv, FillsDue, StoppedCools, EffectsCool
<1> QED
  BY <1>10, <1>11, <1>12, <1>13, <1>14, <1>15 DEF IInv

LEMMA BeginReapingStep ==
  ASSUME IInv, BeginReaping
  PROVE  IInv'
<1>1. TypeOK /\ OrderNumbers = 1..Len(orders) /\ Len(orders) \in Nat
  BY Orderly DEF IInv
<1>2. PICK last \in OrderNumbers :
        todo' = Keeping([o \in OrderNumbers |-> [type |-> "reap", order |-> o]],
                        LAMBDA i : /\ rows[i.order].kind = "cc_api"
                                   /\ rows[i.order].status = "open"
                                   /\ i.order <= last)
  BY DEF BeginReaping
<1> DEFINE all == [o \in OrderNumbers |-> [type |-> "reap", order |-> o]]
           I == {i \in DOMAIN all : /\ rows[all[i].order].kind = "cc_api"
                                    /\ rows[all[i].order].status = "open"
                                    /\ all[i].order <= last}
<1>3. todo' = Picked(all, I)
  BY <1>2 DEF Keeping
<1>4. all \in Seq(ReapType) /\ I \in SUBSET DOMAIN all
  <2>1. all = [k \in 1..Len(orders) |-> all[k]] /\ \A k \in 1..Len(orders) : all[k] \in ReapType
    BY <1>1 DEF ReapType
  <2>2. I \in SUBSET DOMAIN all
    OBVIOUS
  <2> HIDE DEF all, I
  <2> QED
    BY <1>1, <2>1, <2>2, ListTyped
<1> HIDE DEF all, I
<1>5. todo' \in Seq(ReapType)
  BY <1>3, <1>4, PickedLaws
<1>6. TypeOK'
  BY <1>1, <1>5, WorkIs DEF TypeOK, BeginReaping, disk, history, OrderNumbers
<1> QED
  BY <1>6 DEF IInv, BeginReaping, disk, history, PendingKnown, GoneStaysGone, CancelledRowNotLive,
              RowsKinded, FillsDue, StoppedCools, EffectsCool, OrderNumbers

\* An order's liveness set or its execution told leaves it an order.
LEMMA OrderChanged ==
  ASSUME TypeOK, NEW o, NEW live \in BOOLEAN
  PROVE  LET next == [orders EXCEPT ![o].live = live]
         IN  /\ next \in Seq(OrderType) /\ Len(next) = Len(orders) /\ DOMAIN next = DOMAIN orders
             /\ \A k \in DOMAIN orders : next[k].live = IF k = o THEN live ELSE orders[k].live
<1> DEFINE next == [orders EXCEPT ![o].live = live]
<1>1. orders \in Seq(OrderType) /\ DOMAIN orders = 1..Len(orders) /\ Len(orders) \in Nat
      /\ \A k \in DOMAIN orders : orders[k] \in OrderType
  BY DEF TypeOK
<1>2. DOMAIN next = DOMAIN orders
      /\ \A k \in DOMAIN orders : next[k] = IF k = o THEN [orders[k] EXCEPT !.live = live] ELSE orders[k]
  OBVIOUS
<1>3. \A x \in OrderType : [x EXCEPT !.live = live] \in OrderType /\ [x EXCEPT !.live = live].live = live
  BY DEF OrderType
<1>4. \A k \in 1..Len(orders) : next[k] \in OrderType
  BY <1>1, <1>2, <1>3
<1>5. next = [k \in 1..Len(orders) |-> next[k]]
  BY <1>1, <1>2
<1>7. \A k \in DOMAIN orders : next[k].live = IF k = o THEN live ELSE orders[k].live
  BY <1>1, <1>2, <1>3
<1> HIDE DEF next
<1>6. next \in Seq(OrderType) /\ Len(next) = Len(orders)
  BY <1>1, <1>4, <1>5, ListTyped
<1>8. /\ next \in Seq(OrderType) /\ Len(next) = Len(orders) /\ DOMAIN next = DOMAIN orders
      /\ \A k \in DOMAIN orders : next[k].live = IF k = o THEN live ELSE orders[k].live
  BY <1>2, <1>6, <1>7
<1> QED
  BY <1>8 DEF next

\* What a cancellation leaves of the order it is about.
LEMMA CancelLaws ==
  ASSUME NEW o, NEW a \in CancelAnswers(o)
  PROVE  /\ a.live \in BOOLEAN /\ (a.answer # "failed" => a.live = FALSE)
         /\ ~orders[o].live => a.live = FALSE
<1>1. /\ orders[o].live =>
           \/ a = [live |-> FALSE, answer |-> "cancelled"] \/ a = [live |-> TRUE, answer |-> "failed"]
           \/ a = [live |-> FALSE, answer |-> "failed"]
      /\ ~orders[o].live =>
           a = [live |-> FALSE, answer |-> "not_found"] \/ a = [live |-> FALSE, answer |-> "failed"]
  BY DEF CancelAnswers
<1>2. a = [live |-> TRUE, answer |-> "failed"] => a.live = TRUE /\ a.answer = "failed"
  OBVIOUS
<1>3. \A word : a = [live |-> FALSE, answer |-> word] => a.live = FALSE
  OBVIOUS
<1> QED
  BY <1>1, <1>2, <1>3, Zenon

LEMMA ReapOrderStep ==
  ASSUME IInv, ReapOrder
  PROVE  IInv'
<1> DEFINE o == Head(todo).order
           I == {i \in DOMAIN bot.pending : ~(bot.pending[i].kind = "cc_api" /\ bot.pending[i].exchange = o)}
           kept == Picked(bot.pending, I)
<1>1. TypeOK /\ bot \in BotType /\ pc = "reaping" /\ todo # <<>>
  BY DEF IInv, TypeOK, ReapOrder
<1>2. Tail(todo) \in Seq(ReapType)
  BY <1>1, TodoLaws, WorkIs
<1>3. PICK a \in CancelAnswers(o) :
        /\ orders' = [orders EXCEPT ![o].live = a.live]
        /\ IF a.answer = "failed" THEN UNCHANGED <<bot, rows>>
           ELSE /\ rows' = SetStatus(o, "cancelled") /\ bot' = [bot EXCEPT !.pending = kept]
  BY DEF ReapOrder, WithoutStale, Keeping
<1>4. /\ todo' = Tail(todo)
      /\ UNCHANGED <<pc, signals, fills, due, webOrder, dbPositions, dbCooldowns, believed, crashes, stopped>>
  BY DEF ReapOrder
<1>5. /\ a.live \in BOOLEAN /\ (a.answer # "failed" => a.live = FALSE)
      /\ ~orders[o].live => a.live = FALSE
  BY CancelLaws
<1>6. bot.pending \in Seq(PendingType) /\ I \in SUBSET DOMAIN bot.pending
  BY <1>1 DEF BotType
<1>7. kept \in Seq(PendingType) /\ Exchanges(kept) \subseteq Exchanges(bot.pending)
  <2> HIDE DEF I
  <2> QED
    BY <1>6, WithoutLaws
<1> HIDE DEF kept, o
<1>8. /\ bot' \in BotType /\ bot'.cooling = bot.cooling
      /\ Exchanges(bot'.pending) \subseteq Exchanges(bot.pending)
  <2>1. CASE a.answer = "failed"
    BY <1>1, <1>3, <2>1
  <2>2. CASE a.answer # "failed"
    <3>1. bot' = [bot EXCEPT !.pending = kept]
      BY <1>3, <2>2
    <3>2. bot' \in BotType
      BY <1>1, <1>7, <3>1 DEF BotType
    <3>3. bot'.pending = kept /\ bot'.cooling = bot.cooling
      BY <1>1, <3>1 DEF BotType
    <3> QED
      BY <1>7, <3>2, <3>3
  <2> QED
    BY <2>1, <2>2
<1>9. /\ orders' \in Seq(OrderType) /\ Len(orders') = Len(orders) /\ DOMAIN orders' = DOMAIN orders
      /\ \A k \in DOMAIN orders : orders'[k].live = IF k = o THEN a.live ELSE orders[k].live
  BY <1>1, <1>3, <1>5, OrderChanged
<1>10. /\ rows' \in Seq(RowType) /\ Len(rows') = Len(rows) /\ DOMAIN rows' = DOMAIN rows
       /\ \A k \in DOMAIN rows : \/ rows'[k] = rows[k]
                                 \/ /\ k = o /\ a.answer # "failed" /\ rows[k].status # "none"
                                    /\ rows'[k].kind = rows[k].kind
  <2>1. CASE a.answer = "failed"
    BY <1>1, <1>3, <2>1 DEF TypeOK
  <2>2. CASE a.answer # "failed"
    BY <1>1, <1>3, <2>2, SetStatusLaws
  <2> QED
    BY <2>1, <2>2
<1>11. TypeOK'
  BY <1>1, <1>2, <1>4, <1>8, <1>9, <1>10, WorkIs DEF TypeOK, OrderNumbers
<1>12. PendingKnown'
  BY <1>8, <1>9 DEF IInv, PendingKnown, OrderNumbers
<1>13. CancelledRowNotLive'
  BY <1>1, <1>5, <1>9, <1>10, Orderly DEF IInv, CancelledRowNotLive, OrderNumbers
<1>14. RowsKinded'
  BY <1>10 DEF IInv, RowsKinded
<1>15. GoneStaysGone' /\ FillsDue' /\ StoppedCools' /\ EffectsCool'
  BY <1>1, <1>4, <1>8 DEF IInv, GoneStaysGone, FillsDue, StoppedCools, EffectsCool
<1> QED
  BY <1>11, <1>12, <1>13, <1>14, <1>15 DEF IInv

-----------------------------------------------------------------------------
(* The scheduler's cycle *)

LEMMA InputsTyped ==
  ASSUME TypeOK, NEW in \in CycleInputs, NEW verdict \in IF in.guarding THEN Verdicts(bot) ELSE {Holding},
         NEW expired \in IF in.guarding THEN Windows(bot) ELSE {NoId}
  PROVE  /\ in.gain \in Int /\ in.balances \in [usd : Int, doge : Int]
         /\ verdict \in [DOMAIN bot.positions -> {"hold", "stop", "target"}] /\ expired \in Ids
<1>1. bot \in BotType
  BY DEF TypeOK
<1>2. in.gain \in Int
  BY DEF CycleInputs
<1>3. in.balances \in [usd : Int, doge : Int]
  BY <1>1, CoreAssumption DEF CycleInputs, BotType
<1>4. verdict \in [DOMAIN bot.positions -> {"hold", "stop", "target"}]
  BY DEF Verdicts, Holding
<1>5. expired \in Ids
  <2>1. \A p \in Pairs : HasPair(bot, p) => PositionOfPair(bot, p).id \in Ids
    BY <1>1, PositionTyped DEF PositionType
  <2> QED
    BY <2>1, IdsTyped DEF Windows
<1> QED
  BY <1>2, <1>3, <1>4, <1>5

\* What a cycle gives is typed; its stops cool, and nothing that cools is entered.
LEMMA CycleOfAlong ==
  ASSUME TypeOK, NEW in \in CycleInputs, NEW verdict \in IF in.guarding THEN Verdicts(bot) ELSE {Holding},
         NEW expired \in IF in.guarding THEN Windows(bot) ELSE {NoId},
         NEW r, r = CycleOf(in.prices, in.guarding, verdict, expired, in.balances, in.gain)
  PROVE  \E m, n \in Nat : Along(bot, m, n, r)
<1>1. /\ bot \in BotType /\ fills \in Seq(FillType) /\ signals \in Seq(SignalType) /\ due \in BOOLEAN
      /\ in.gain \in Int /\ in.balances \in [usd : Int, doge : Int]
      /\ verdict \in [DOMAIN bot.positions -> {"hold", "stop", "target"}] /\ expired \in Ids
  BY InputsTyped DEF TypeOK
<1> DEFINE events == Events(bot, verdict, expired, due, in.balances, fills, signals)
<1>2. events \in Seq(EventType)
      /\ \E m \in Nat : \A k \in DOMAIN events : m < k <=> events[k].type = "belief"
  BY <1>1, EventsTyped
<1>3. r \in {Raised(bot), Cycle(bot, events, in.prices, in.gain)}
  BY DEF CycleOf
<1> HIDE DEF events
<1>4. PICK m \in Nat : \A k \in DOMAIN events : m < k <=> events[k].type = "belief"
  BY <1>2
<1>5. Along(bot, m, Len(events), Cycle(bot, events, in.prices, in.gain))
  BY <1>1, <1>2, <1>4, CycleAlong
<1>6. Along(bot, m, Len(events), Raised(bot))
  BY <1>1, RaisedTyped DEF Along, Raised
<1>7. Len(events) \in Nat
  BY <1>2
<1> QED
  BY <1>3, <1>5, <1>6, <1>7

\* All a cycle leaves to do: its writes, the poll, then its actions.
LeftOf(t, actions) ==
  /\ t \in Seq(EffectType)
  /\ \A i \in DOMAIN t : t[i].type \in {"place", "close"} =>
       \E k \in DOMAIN actions :
          /\ t[i] = actions[k]
          /\ actions[k].type = "close" /\ actions[k].reason = "stop_loss"
               => \E j \in DOMAIN t : j < i /\ t[j].type = "cooldown" /\ t[j].pair = actions[k].pair

LEMMA LeftToDo ==
  ASSUME NEW old \in Seq(PositionType), NEW new \in Seq(PositionType), NEW actions \in Seq(ActionType),
         NEW t, t = Writes(old, new, actions) \o <<[type |-> "poll"]>> \o actions
  PROVE  LeftOf(t, actions)
<1> DEFINE writes == Writes(old, new, actions)
           poll == [type |-> "poll"]
           before == writes \o <<poll>>
<1>1. /\ writes \in Seq(EffectType)
      /\ \A k \in DOMAIN writes : writes[k].type \in {"upsert", "closed", "cooldown"}
      /\ \A i \in DOMAIN actions : actions[i].type = "close" /\ actions[i].reason = "stop_loss"
           => \E k \in DOMAIN writes : writes[k].type = "cooldown" /\ writes[k].pair = actions[i].pair
  BY WritesTyped
<1>2. poll \in EffectType /\ poll.type = "poll"
  BY DEF EffectType
<1>3. actions \in Seq(EffectType)
  <2>1. ActionType \subseteq EffectType
    BY DEF EffectType
  <2> QED
    BY <2>1
<1>4. t = before \o actions
  <2> HIDE DEF writes, poll
  <2> QED
    BY <1>1, <1>2, <1>3 DEF writes, poll
<1> HIDE DEF writes, poll
<1>5. /\ before \in Seq(EffectType) /\ Len(before) = Len(writes) + 1
      /\ \A i \in DOMAIN before : before[i] = poll \/ (i \in DOMAIN writes /\ before[i] = writes[i])
      /\ \A i \in DOMAIN writes : i \in DOMAIN before /\ before[i] = writes[i]
  BY <1>1, <1>2
<1> HIDE DEF before
<1>6. /\ t \in Seq(EffectType)
      /\ \A i \in DOMAIN t : \/ i \in DOMAIN before /\ t[i] = before[i]
                             \/ i - Len(before) \in DOMAIN actions /\ t[i] = actions[i - Len(before)]
      /\ \A i \in DOMAIN before : i \in DOMAIN t /\ t[i] = before[i]
  <2> DEFINE joined == before \o actions
  <2>1. /\ joined \in Seq(EffectType)
        /\ \A i \in DOMAIN joined : \/ i \in DOMAIN before /\ joined[i] = before[i]
                                    \/ i - Len(before) \in DOMAIN actions
                                       /\ joined[i] = actions[i - Len(before)]
        /\ \A i \in DOMAIN before : i \in DOMAIN joined /\ joined[i] = before[i]
    BY <1>3, <1>5, JoinedLaws
  <2>2. t = joined
    BY <1>4
  <2> HIDE DEF joined
  <2> QED
    BY <2>1, <2>2
<1>7. ASSUME NEW i \in DOMAIN t, t[i].type \in {"place", "close"}
      PROVE  \E k \in DOMAIN actions :
                 /\ t[i] = actions[k]
                 /\ actions[k].type = "close" /\ actions[k].reason = "stop_loss"
                      => \E j \in DOMAIN t : j < i /\ t[j].type = "cooldown" /\ t[j].pair = actions[k].pair
  <2>1. ~(i \in DOMAIN before /\ t[i] = before[i])
    <3> SUFFICES ASSUME i \in DOMAIN before, t[i] = before[i] PROVE FALSE
      OBVIOUS
    <3>1. t[i].type \in {"poll", "upsert", "closed", "cooldown"}
      BY <1>1, <1>2, <1>5
    <3> QED
      BY <1>7, <3>1
  <2> DEFINE k == i - Len(before)
  <2>2. k \in DOMAIN actions /\ t[i] = actions[k] /\ i > Len(before)
    BY <1>3, <1>5, <1>6, <2>1
  <2>3. ASSUME actions[k].type = "close", actions[k].reason = "stop_loss"
        PROVE  \E j \in DOMAIN t : j < i /\ t[j].type = "cooldown" /\ t[j].pair = actions[k].pair
    <3>1. PICK j \in DOMAIN writes : writes[j].type = "cooldown" /\ writes[j].pair = actions[k].pair
      BY <1>1, <2>2, <2>3
    <3>2. j \in DOMAIN before /\ before[j] = writes[j] /\ j \in DOMAIN t /\ t[j] = before[j]
      BY <1>5, <1>6
    <3>3. j < i
      BY <1>1, <1>5, <1>6, <2>2, <3>2
    <3> QED
      BY <3>1, <3>2, <3>3
  <2> QED
    BY <2>2, <2>3
<1> QED
  BY <1>6, <1>7 DEF LeftOf

LEMMA RunCycleStep ==
  ASSUME IInv, RunCycle
  PROVE  IInv'
<1>1. TypeOK /\ bot \in BotType
  BY DEF IInv, TypeOK
<1>2. UNCHANGED <<webOrder, orders, disk, history>>
  BY DEF RunCycle
<1>3. PICK in \in CycleInputs :
        \E verdict \in IF in.guarding THEN Verdicts(bot) ELSE {Holding},
           expired \in IF in.guarding THEN Windows(bot) ELSE {NoId} :
          LET result == CycleOf(in.prices, in.guarding, verdict, expired, in.balances, in.gain)
          IN  \/ /\ result.ok
                 /\ bot' = result.bot
                 /\ todo' = Writes(bot.positions, result.bot.positions, result.actions)
                            \o <<[type |-> "poll"]>> \o result.actions
                 /\ signals' = <<>> /\ fills' = <<>> /\ due' = FALSE
                 /\ pc' = "effects"
              \/ /\ ~result.ok
                 /\ pc' = "idle"
                 /\ UNCHANGED <<bot, todo, signals, fills, due>>
  BY DEF RunCycle
<1>4. PICK verdict \in (IF in.guarding THEN Verdicts(bot) ELSE {Holding}),
           expired \in (IF in.guarding THEN Windows(bot) ELSE {NoId}) :
          LET result == CycleOf(in.prices, in.guarding, verdict, expired, in.balances, in.gain)
          IN  \/ /\ result.ok
                 /\ bot' = result.bot
                 /\ todo' = Writes(bot.positions, result.bot.positions, result.actions)
                            \o <<[type |-> "poll"]>> \o result.actions
                 /\ signals' = <<>> /\ fills' = <<>> /\ due' = FALSE
                 /\ pc' = "effects"
              \/ /\ ~result.ok
                 /\ pc' = "idle"
                 /\ UNCHANGED <<bot, todo, signals, fills, due>>
  BY <1>3
<1> DEFINE r == CycleOf(in.prices, in.guarding, verdict, expired, in.balances, in.gain)
<1>5. PICK m \in Nat, n \in Nat : Along(bot, m, n, r)
  BY <1>1, CycleOfAlong
<1>6. \/ /\ bot' = r.bot
         /\ todo' = Writes(bot.positions, r.bot.positions, r.actions) \o <<[type |-> "poll"]>> \o r.actions
         /\ signals' = <<>> /\ fills' = <<>> /\ due' = FALSE
         /\ pc' = "effects"
      \/ pc' = "idle" /\ UNCHANGED <<bot, todo, signals, fills, due>>
  BY <1>4
<1> HIDE DEF r
<1>7. CASE pc' = "idle" /\ UNCHANGED <<bot, todo, signals, fills, due>>
  <2>1. todo' \in Seq(WorkAt(pc'))
    <3>1. todo' = <<>>
      BY <1>7 DEF RunCycle
    <3> QED
      BY <3>1
  <2>2. TypeOK'
    BY <1>1, <1>2, <1>7, <2>1 DEF TypeOK, OrderNumbers, disk, history
  <2>3. pc # "down"
    BY DEF RunCycle
  <2> QED
    BY <1>2, <1>7, <2>2, <2>3 DEF IInv, PendingKnown, GoneStaysGone, CancelledRowNotLive, RowsKinded,
                                  FillsDue, StoppedCools, EffectsCool, OrderNumbers, disk, history
<1>8. CASE /\ bot' = r.bot
           /\ todo' = Writes(bot.positions, r.bot.positions, r.actions) \o <<[type |-> "poll"]>> \o r.actions
           /\ signals' = <<>> /\ fills' = <<>> /\ due' = FALSE
           /\ pc' = "effects"
  <2>1. r \in ResultType /\ r.bot \in BotType /\ r.actions \in Seq(ActionType)
    <3>1. r \in ResultType
      BY <1>5 DEF Along
    <3> QED
      BY <3>1 DEF ResultType
  <2>2. bot.positions \in Seq(PositionType) /\ r.bot.positions \in Seq(PositionType)
    BY <1>1, <2>1 DEF BotType
  <2>3. /\ todo' \in Seq(EffectType)
        /\ \A i \in DOMAIN todo' : todo'[i].type \in {"place", "close"} =>
              \E k \in DOMAIN r.actions :
                 /\ todo'[i] = r.actions[k]
                 /\ r.actions[k].type = "close" /\ r.actions[k].reason = "stop_loss"
                      => \E j \in DOMAIN todo' : /\ j < i /\ todo'[j].type = "cooldown"
                                                 /\ todo'[j].pair = r.actions[k].pair
    <3> DEFINE old == bot.positions
               new == r.bot.positions
               acts == r.actions
    <3>1. old \in Seq(PositionType) /\ new \in Seq(PositionType) /\ acts \in Seq(ActionType)
      BY <2>1, <2>2
    <3>2. todo' = Writes(old, new, acts) \o <<[type |-> "poll"]>> \o acts
      BY <1>8
    <3> HIDE DEF old, new, acts
    <3>3. LeftOf(todo', acts)
      BY <3>1, <3>2, LeftToDo
    <3> QED
      BY <3>3 DEF acts, LeftOf
  <2>4. TypeOK'
    <3>1. <<>> \in Seq(SignalType) /\ <<>> \in Seq(FillType)
      OBVIOUS
    <3> QED
      BY <1>1, <1>2, <1>8, <2>1, <2>3, <3>1, WorkIs DEF TypeOK, OrderNumbers, disk, history
  <2>5. PendingKnown'
    BY <1>2, <1>5, <1>8 DEF IInv, PendingKnown, Along, OrderNumbers
  <2>6. StoppedCools'
    <3>1. pc # "down"
      BY DEF RunCycle
    <3> QED
      BY <1>2, <1>5, <1>8, <3>1 DEF IInv, StoppedCools, Along, disk, history
  <2>7. EffectsCool'
    <3> SUFFICES ASSUME NEW i \in DOMAIN todo', todo'[i].type \in {"place", "close"}
                 PROVE  /\ todo'[i].reason = "stop_loss"
                             => /\ todo'[i].type = "close" /\ todo'[i].pair \in bot'.cooling
                                /\ \/ todo'[i].pair \in dbCooldowns'
                                   \/ \E j \in DOMAIN todo' : j < i /\ todo'[j].type = "cooldown"
                                                             /\ todo'[j].pair = todo'[i].pair
                        /\ todo'[i].reason \in {"position_entry", "inventory_sell"}
                             => todo'[i].pair \notin bot'.cooling
      BY DEF EffectsCool
    <3>1. PICK k \in DOMAIN r.actions :
                 /\ todo'[i] = r.actions[k]
                 /\ r.actions[k].type = "close" /\ r.actions[k].reason = "stop_loss"
                      => \E j \in DOMAIN todo' : /\ j < i /\ todo'[j].type = "cooldown"
                                                 /\ todo'[j].pair = r.actions[k].pair
      BY <2>3
    <3>2. /\ r.actions[k].reason = "stop_loss"
               => r.actions[k].type = "close" /\ r.actions[k].pair \in r.bot.cooling
          /\ r.actions[k].reason \in {"position_entry", "inventory_sell"}
               => r.actions[k].pair \notin r.bot.cooling
      BY <1>5 DEF Along
    <3> QED
      BY <1>8, <3>1, <3>2
  <2> QED
    BY <1>2, <1>8, <2>4, <2>5, <2>6, <2>7
       DEF IInv, GoneStaysGone, CancelledRowNotLive, RowsKinded, FillsDue, OrderNumbers, disk, history
<1> QED
  BY <1>6, <1>7, <1>8

-----------------------------------------------------------------------------
(* Writes and effects *)

\* One item of the effects is done.  A cooldown that was waited for is written.
LEMMA ItemDoneLaws ==
  ASSUME IInv, pc = "effects", todo # <<>>, ItemDone,
         bot'.cooling = bot.cooling, dbCooldowns \subseteq dbCooldowns',
         Head(todo).type = "cooldown" => Head(todo).pair \in dbCooldowns'
  PROVE  /\ pc' \in {"idle", "effects"} /\ todo' \in Seq(WorkAt(pc'))
         /\ GoneStaysGone' /\ EffectsCool'
<1>1. TypeOK /\ EffectsCool
  BY DEF IInv
<1>2. /\ Head(todo) = todo[1] /\ Tail(todo) \in Seq(EffectType)
      /\ \A i \in DOMAIN Tail(todo) : i + 1 \in DOMAIN todo /\ Tail(todo)[i] = todo[i + 1]
      /\ \A i \in DOMAIN todo : i # 1 => i - 1 \in DOMAIN Tail(todo) /\ Tail(todo)[i - 1] = todo[i]
  BY <1>1, TodoLaws, WorkIs
<1>3. todo' = Tail(todo) /\ (pc' = "effects" \/ (pc' = "idle" /\ Tail(todo) = <<>>))
  BY DEF ItemDone
<1>4. todo' \in Seq(WorkAt(pc'))
  <2>1. <<>> \in Seq(WorkAt("idle"))
    OBVIOUS
  <2> QED
    BY <1>2, <1>3, <2>1, WorkIs
<1>5. EffectsCool'
  <2> SUFFICES ASSUME NEW i \in DOMAIN todo', todo'[i].type \in {"place", "close"}
               PROVE  /\ todo'[i].reason = "stop_loss"
                           => /\ todo'[i].type = "close" /\ todo'[i].pair \in bot'.cooling
                              /\ \/ todo'[i].pair \in dbCooldowns'
                                 \/ \E j \in DOMAIN todo' : j < i /\ todo'[j].type = "cooldown"
                                                           /\ todo'[j].pair = todo'[i].pair
                      /\ todo'[i].reason \in {"position_entry", "inventory_sell"}
                           => todo'[i].pair \notin bot'.cooling
    BY DEF EffectsCool
  <2>1. i + 1 \in DOMAIN todo /\ todo'[i] = todo[i + 1] /\ i \in Nat
    BY <1>2, <1>3
  <2>2. /\ todo'[i].reason = "stop_loss"
             => /\ todo'[i].type = "close" /\ todo'[i].pair \in bot.cooling
                /\ \/ todo'[i].pair \in dbCooldowns
                   \/ \E j \in DOMAIN todo : j < i + 1 /\ todo[j].type = "cooldown"
                                             /\ todo[j].pair = todo'[i].pair
        /\ todo'[i].reason \in {"position_entry", "inventory_sell"}
             => todo'[i].pair \notin bot.cooling
    BY <1>1, <2>1 DEF EffectsCool
  <2>3. ASSUME NEW j \in DOMAIN todo, j < i + 1, todo[j].type = "cooldown", todo[j].pair = todo'[i].pair
        PROVE  \/ todo'[i].pair \in dbCooldowns'
               \/ \E k \in DOMAIN todo' : k < i /\ todo'[k].type = "cooldown"
                                          /\ todo'[k].pair = todo'[i].pair
    <3>1. CASE j = 1
      BY <1>2, <2>3, <3>1
    <3>2. CASE j # 1
      <4>1. j - 1 \in DOMAIN todo' /\ todo'[j - 1] = todo[j]
        BY <1>2, <1>3, <3>2
      <4>2. j \in Nat /\ j - 1 < i
        BY <1>1, <2>1, <2>3 DEF TypeOK
      <4> QED
        BY <2>3, <4>1, <4>2
    <3> QED
      BY <3>1, <3>2
  <2> QED
    BY <2>2, <2>3
<1>6. GoneStaysGone'
  BY <1>3 DEF GoneStaysGone
<1> QED
  BY <1>3, <1>4, <1>5, <1>6

LEMMA PersistPositionStep ==
  ASSUME IInv, PersistPosition
  PROVE  IInv'
<1> DEFINE item == Head(todo)
           Other(q) == q.id # (IF item.type = "upsert" THEN item.position.id ELSE item.id)
           I == {i \in DOMAIN dbPositions : Other(dbPositions[i])}
           others == Picked(dbPositions, I)
<1>1. TypeOK /\ pc = "effects" /\ todo # <<>> /\ item.type \in {"upsert", "closed"}
  BY DEF IInv, PersistPosition, Doing
<1>2. item \in EffectType
  BY <1>1, TodoLaws, WorkIs
<1>3. item.type = "upsert" => item.position \in PositionType
  BY <1>2 DEF EffectType, ActionType
<1>4. dbPositions' = IF item.type = "upsert" THEN Append(others, item.position) ELSE others
  BY DEF PersistPosition, Keeping
<1>5. UNCHANGED <<bot, signals, fills, due, webOrder, orders, rows, dbCooldowns, believed, crashes, stopped>>
      /\ ItemDone
  BY DEF PersistPosition
<1>6. dbPositions \in Seq(PositionType) /\ I \in SUBSET DOMAIN dbPositions
  BY <1>1 DEF TypeOK
<1>7. others \in Seq(PositionType)
  <2> HIDE DEF I
  <2> QED
    BY <1>6, PickedLaws
<1> HIDE DEF others
<1>8. dbPositions' \in Seq(PositionType)
  BY <1>3, <1>4, <1>7
<1>9. /\ pc' \in {"idle", "effects"} /\ todo' \in Seq(WorkAt(pc')) /\ GoneStaysGone' /\ EffectsCool'
  BY <1>1, <1>5, ItemDoneLaws
<1>10. TypeOK'
  BY <1>1, <1>5, <1>8, <1>9 DEF TypeOK, OrderNumbers
<1> QED
  BY <1>1, <1>5, <1>9, <1>10 DEF IInv, PendingKnown, CancelledRowNotLive, RowsKinded, FillsDue,
                                 StoppedCools, OrderNumbers

LEMMA PersistCooldownStep ==
  ASSUME IInv, PersistCooldown
  PROVE  IInv'
<1>1. TypeOK /\ pc = "effects" /\ todo # <<>> /\ Head(todo).type = "cooldown"
  BY DEF IInv, PersistCooldown, Doing
<1>2. Head(todo) \in EffectType
  BY <1>1, TodoLaws, WorkIs
<1>3. Head(todo).pair \in Pairs
  BY <1>1, <1>2 DEF EffectType, ActionType
<1>4. /\ dbCooldowns' = dbCooldowns \cup {Head(todo).pair} /\ ItemDone
      /\ UNCHANGED <<bot, signals, fills, due, webOrder, orders, rows, dbPositions, believed, crashes, stopped>>
  BY DEF PersistCooldown
<1>5. /\ pc' \in {"idle", "effects"} /\ todo' \in Seq(WorkAt(pc')) /\ GoneStaysGone' /\ EffectsCool'
  BY <1>1, <1>4, ItemDoneLaws
<1>6. TypeOK'
  BY <1>1, <1>3, <1>4, <1>5 DEF TypeOK, OrderNumbers
<1> QED
  BY <1>1, <1>4, <1>5, <1>6 DEF IInv, PendingKnown, CancelledRowNotLive, RowsKinded, FillsDue,
                                StoppedCools, OrderNumbers

\* What is enqueued for a poll: a signal for each pair that got an answer.
LEMMA EnqueuedTyped ==
  ASSUME TypeOK, NEW asked \in SUBSET Pairs, NEW direction \in Views,
         NEW next, next = Enqueued(asked, direction)
  PROVE  next \in Seq(SignalType) /\ Cardinality(asked) \in Nat
<1> DEFINE answers == [p \in asked |-> [pair |-> p, direction |-> direction]]
           A == {answers[p] : p \in asked}
           list == SetToSeq(A)
<1>1. next = signals \o list
  BY DEF Enqueued
<1>2. IsFiniteSet(asked)
  BY PairsAssumption, FS_Subset
<1>3. answers \in Surjection(asked, A)
  BY DEF Surjection
<1>4. A \subseteq SignalType
  BY CoreAssumption DEF SignalType
<1> HIDE DEF answers, A
<1>5. IsFiniteSet(A)
  BY <1>2, <1>3, FS_Surjection
<1>6. Cardinality(A) \in Nat /\ ExistsBijection(1..Cardinality(A), A)
  BY <1>5, FS_CardinalityType
<1>7. \E f \in [1..Cardinality(A) -> A] : IsInjective(f)
  <2>1. PICK f : f \in Bijection(1..Cardinality(A), A)
    BY <1>6 DEF ExistsBijection
  <2> QED
    BY <2>1 DEF Bijection, Injection
<1>8. list \in [1..Cardinality(A) -> A]
  BY <1>7 DEF SetToSeq
<1> HIDE DEF list
<1>9. list \in Seq(SignalType)
  BY <1>4, <1>6, <1>8
<1>10. signals \in Seq(SignalType)
  BY DEF TypeOK
<1>11. next \in Seq(SignalType)
  BY <1>1, <1>9, <1>10
<1> QED
  BY <1>2, <1>11, FS_CardinalityType

LEMMA PollBeliefsStep ==
  ASSUME IInv, PollBeliefs
  PROVE  IInv'
<1>1. TypeOK /\ pc = "effects" /\ todo # <<>> /\ Head(todo).type = "poll"
  BY DEF IInv, PollBeliefs, Doing
<1>2. PICK asked \in SUBSET Pairs, direction \in Views :
        /\ signals' = Enqueued(asked, direction)
        /\ believed' = believed + Cardinality(asked)
  BY DEF PollBeliefs
<1>3. ItemDone /\ UNCHANGED <<bot, fills, due, webOrder, orders, disk, crashes, stopped>>
  BY DEF PollBeliefs
<1>4. signals' \in Seq(SignalType) /\ believed' \in Nat
  <2>1. signals' \in Seq(SignalType) /\ Cardinality(asked) \in Nat
    BY <1>1, <1>2, EnqueuedTyped
  <2> QED
    BY <1>1, <1>2, <2>1 DEF TypeOK
<1>5. /\ pc' \in {"idle", "effects"} /\ todo' \in Seq(WorkAt(pc')) /\ GoneStaysGone' /\ EffectsCool'
  BY <1>1, <1>3, ItemDoneLaws DEF disk
<1>6. TypeOK'
  BY <1>1, <1>3, <1>4, <1>5 DEF TypeOK, OrderNumbers, disk
<1> QED
  BY <1>1, <1>3, <1>5, <1>6 DEF IInv, PendingKnown, CancelledRowNotLive, RowsKinded, FillsDue,
                                StoppedCools, OrderNumbers, disk

LEMMA EffectRefusedStep ==
  ASSUME IInv, EffectRefused
  PROVE  IInv'
<1>1. TypeOK /\ pc = "effects" /\ todo # <<>> /\ Head(todo).type \in {"place", "close"}
  BY DEF IInv, EffectRefused, Doing
<1>2. ItemDone /\ UNCHANGED <<bot, signals, fills, due, webOrder, orders, disk, history>>
  BY DEF EffectRefused
<1>3. /\ pc' \in {"idle", "effects"} /\ todo' \in Seq(WorkAt(pc')) /\ GoneStaysGone' /\ EffectsCool'
  BY <1>1, <1>2, ItemDoneLaws DEF disk
<1>4. TypeOK'
  BY <1>1, <1>2, <1>3 DEF TypeOK, OrderNumbers, disk, history
<1> QED
  BY <1>1, <1>2, <1>3, <1>4 DEF IInv, PendingKnown, CancelledRowNotLive, RowsKinded, FillsDue,
                                StoppedCools, OrderNumbers, disk, history

\* An order placed takes the next number, and a row without a status.
LEMMA PlacedLaws ==
  ASSUME TypeOK, NEW x \in OrderType, orders' = Append(orders, x), rows' = Append(rows, NoRow)
  PROVE  /\ orders' \in Seq(OrderType) /\ rows' \in Seq(RowType) /\ Len(orders') = Len(rows')
         /\ OrderNumbers' = OrderNumbers \cup {Len(orders) + 1} /\ Len(orders) + 1 \notin OrderNumbers
         /\ \A o \in OrderNumbers : orders'[o] = orders[o] /\ rows'[o] = rows[o]
         /\ orders'[Len(orders) + 1] = x /\ rows'[Len(orders) + 1] = NoRow
         /\ DOMAIN rows' = OrderNumbers'
<1>1. NoRow \in RowType
  BY IdsTyped DEF NoRow, RowType
<1>2. orders \in Seq(OrderType) /\ rows \in Seq(RowType) /\ Len(orders) = Len(rows)
  BY DEF TypeOK
<1> HIDE DEF NoRow
<1>3. /\ orders' \in Seq(OrderType) /\ rows' \in Seq(RowType) /\ Len(orders') = Len(rows')
      /\ Len(orders') = Len(orders) + 1
  BY <1>1, <1>2
<1>4. OrderNumbers = 1..Len(orders) /\ OrderNumbers' = 1..(Len(orders) + 1) /\ Len(orders) \in Nat
      /\ DOMAIN rows' = 1..(Len(orders) + 1)
  BY <1>2, <1>3 DEF OrderNumbers
<1> QED
  BY <1>1, <1>2, <1>3, <1>4

LEMMA PlacedKeeps ==
  ASSUME IInv, NEW x \in OrderType, orders' = Append(orders, x), rows' = Append(rows, NoRow)
  PROVE  CancelledRowNotLive' /\ RowsKinded' /\ (bot' = bot => PendingKnown')
<1>1. /\ TypeOK /\ CancelledRowNotLive /\ RowsKinded /\ PendingKnown
      /\ OrderNumbers = DOMAIN rows
  BY Orderly DEF IInv
<1>2. /\ OrderNumbers' = OrderNumbers \cup {Len(orders) + 1} /\ Len(orders) + 1 \notin OrderNumbers
      /\ \A o \in OrderNumbers : orders'[o] = orders[o] /\ rows'[o] = rows[o]
      /\ rows'[Len(orders) + 1] = NoRow /\ DOMAIN rows' = OrderNumbers'
  BY <1>1, PlacedLaws
<1>3. NoRow.status = "none"
  BY DEF NoRow
<1>4. CancelledRowNotLive'
  BY <1>1, <1>2, <1>3 DEF CancelledRowNotLive
<1>5. RowsKinded'
  BY <1>1, <1>2, <1>3 DEF RowsKinded
<1>6. bot' = bot => PendingKnown'
  BY <1>1, <1>2 DEF PendingKnown
<1> QED
  BY <1>4, <1>5, <1>6

\* A stop that is placed is of a pair that cools, in the state and in the table.
LEMMA StopPlaced ==
  ASSUME IInv, PlaceEffect
  PROVE  /\ Head(todo) \in ActionType /\ Head(todo) = todo[1] /\ 1 \in DOMAIN todo
         /\ Head(todo).reason = "stop_loss"
              => Head(todo).pair \in bot.cooling /\ Head(todo).pair \in dbCooldowns
         /\ Head(todo).reason \in {"position_entry", "inventory_sell"}
              => Head(todo).pair \notin bot.cooling
<1>1. TypeOK /\ pc = "effects" /\ todo # <<>> /\ Head(todo).type \in {"place", "close"} /\ EffectsCool
  BY DEF IInv, PlaceEffect, Doing
<1>2. Head(todo) = todo[1] /\ Head(todo) \in EffectType /\ 1 \in DOMAIN todo
  BY <1>1, TodoLaws, WorkIs
<1>3. Head(todo) \in ActionType
  BY <1>1, <1>2 DEF EffectType
<1>4. ~\E j \in DOMAIN todo : j < 1
  BY <1>1 DEF TypeOK
<1> QED
  BY <1>1, <1>2, <1>3, <1>4 DEF EffectsCool

LEMMA PlaceEffectStep ==
  ASSUME IInv, PlaceEffect
  PROVE  IInv'
<1> DEFINE a == Head(todo)
           o == Len(orders) + 1
           item == [type |-> "record", order |-> o, of |-> a]
<1>1. TypeOK /\ pc = "effects" /\ todo # <<>> /\ a.type \in {"place", "close"} /\ bot \in BotType
  BY DEF IInv, TypeOK, PlaceEffect, Doing
<1>2. /\ a \in ActionType /\ a = todo[1]
      /\ a.reason = "stop_loss" => a.pair \in bot.cooling /\ a.pair \in dbCooldowns
  BY StopPlaced
<1>3. /\ orders' = Append(orders, OrderOf(a)) /\ rows' = Append(rows, NoRow)
      /\ stopped' = IF a.reason = "stop_loss" THEN stopped \cup {a.pair} ELSE stopped
      /\ \/ todo' = <<item>> \o Tail(todo) /\ UNCHANGED pc
         \/ ItemDone
      /\ UNCHANGED <<bot, signals, fills, due, webOrder, dbPositions, dbCooldowns, believed, crashes>>
  BY DEF PlaceEffect
<1>4. OrderOf(a) \in OrderType
  BY <1>2, IdsTyped DEF OrderOf, NewOrder, OrderType, ActionType
<1>5. /\ orders' \in Seq(OrderType) /\ rows' \in Seq(RowType) /\ Len(orders') = Len(rows')
      /\ OrderNumbers' = OrderNumbers \cup {Len(orders) + 1}
  BY <1>1, <1>3, <1>4, PlacedLaws
<1>6. CancelledRowNotLive' /\ RowsKinded' /\ PendingKnown'
  BY <1>3, <1>4, PlacedKeeps
<1>7. StoppedCools'
  BY <1>1, <1>2, <1>3 DEF IInv, StoppedCools
<1>8. stopped' \subseteq Pairs
  BY <1>1, <1>2, <1>3 DEF TypeOK, ActionType
<1>9. /\ pc' \in {"idle", "effects"} /\ todo' \in Seq(WorkAt(pc')) /\ GoneStaysGone' /\ EffectsCool'
  <2>1. CASE ItemDone
    BY <1>1, <1>3, <2>1, ItemDoneLaws
  <2>2. CASE todo' = <<item>> \o Tail(todo) /\ UNCHANGED pc
    <3>1. /\ Tail(todo) \in Seq(EffectType)
          /\ \A i \in DOMAIN Tail(todo) : i + 1 \in DOMAIN todo /\ Tail(todo)[i] = todo[i + 1]
          /\ \A i \in DOMAIN todo : i # 1 => i - 1 \in DOMAIN Tail(todo) /\ Tail(todo)[i - 1] = todo[i]
      BY <1>1, TodoLaws, WorkIs
    <3>2. item \in EffectType /\ item.type = "record"
      <4>1. o \in Nat
        BY <1>1, Orderly
      <4> HIDE DEF o
      <4> QED
        BY <1>2, <4>1 DEF EffectType
    <3> HIDE DEF item
    <3> DEFINE rest == Tail(todo)
               t == <<item>> \o rest
    <3>3. rest \in Seq(EffectType)
      BY <3>1
    <3> HIDE DEF rest
    <3>4. /\ t \in Seq(EffectType) /\ t[1] = item
          /\ \A i \in DOMAIN t : i \in Nat /\ (i = 1 \/ (i - 1 \in DOMAIN rest /\ t[i] = rest[i - 1]))
          /\ \A i \in DOMAIN rest : i + 1 \in DOMAIN t /\ t[i + 1] = rest[i]
      BY <3>2, <3>3
    <3>5. todo' = t
      BY <2>2 DEF rest
    <3> HIDE DEF t
    <3>6. \A i \in DOMAIN todo' : i # 1 => i \in DOMAIN todo /\ todo'[i] = todo[i]
      <4> SUFFICES ASSUME NEW i \in DOMAIN todo', i # 1 PROVE i \in DOMAIN todo /\ todo'[i] = todo[i]
        OBVIOUS
      <4>1. i \in Nat /\ i - 1 \in DOMAIN rest /\ todo'[i] = rest[i - 1]
        BY <3>4, <3>5
      <4>2. (i - 1) + 1 \in DOMAIN todo /\ rest[i - 1] = todo[(i - 1) + 1]
        BY <3>1, <4>1 DEF rest
      <4>3. (i - 1) + 1 = i
        BY <4>1
      <4> QED
        BY <4>1, <4>2, <4>3
    <3>7. \A i \in DOMAIN todo : i # 1 => i \in DOMAIN todo' /\ todo'[i] = todo[i]
      <4> SUFFICES ASSUME NEW i \in DOMAIN todo, i # 1 PROVE i \in DOMAIN todo' /\ todo'[i] = todo[i]
        OBVIOUS
      <4>1. i - 1 \in DOMAIN rest /\ rest[i - 1] = todo[i] /\ i \in Nat
        BY <1>1, <3>1 DEF rest, TypeOK
      <4>2. (i - 1) + 1 \in DOMAIN t /\ t[(i - 1) + 1] = rest[i - 1] /\ (i - 1) + 1 = i
        BY <3>4, <4>1
      <4> QED
        BY <3>5, <4>1, <4>2
    <3>8. EffectsCool'
      <4> SUFFICES ASSUME NEW i \in DOMAIN todo', todo'[i].type \in {"place", "close"}
                   PROVE  /\ todo'[i].reason = "stop_loss"
                               => /\ todo'[i].type = "close" /\ todo'[i].pair \in bot'.cooling
                                  /\ \/ todo'[i].pair \in dbCooldowns'
                                     \/ \E j \in DOMAIN todo' : j < i /\ todo'[j].type = "cooldown"
                                                               /\ todo'[j].pair = todo'[i].pair
                          /\ todo'[i].reason \in {"position_entry", "inventory_sell"}
                               => todo'[i].pair \notin bot'.cooling
        BY DEF EffectsCool
      <4>1. i # 1
        BY <3>2, <3>4, <3>5
      <4>2. i \in DOMAIN todo /\ todo'[i] = todo[i]
        BY <3>6, <4>1
      <4>3. \A j \in DOMAIN todo : todo[j].type = "cooldown" => j # 1
        BY <1>1, <1>2
      <4> QED
        BY <1>1, <1>3, <3>7, <4>2, <4>3 DEF IInv, EffectsCool
    <3> QED
      BY <1>1, <2>2, <3>4, <3>5, <3>8, WorkIs DEF GoneStaysGone
  <2> QED
    BY <1>3, <2>1, <2>2
<1>10. TypeOK'
  BY <1>1, <1>3, <1>5, <1>8, <1>9 DEF TypeOK
<1> QED
  BY <1>3, <1>6, <1>7, <1>9, <1>10 DEF IInv, FillsDue

LEMMA RecordOrderStep ==
  ASSUME IInv, RecordOrder
  PROVE  IInv'
<1> DEFINE item == Head(todo)
           pending == PendingFor(item.of)
           row == IF pending = <<>>
                  THEN [NoRow EXCEPT !.status = "open", !.kind = "position_entry",
                                     !.client = OrderId(item.order), !.base = item.of.quantity]
                  ELSE [status |-> "open", kind |-> pending[1].kind, client |-> pending[1].client,
                        position |-> pending[1].position, base |-> pending[1].base,
                        quote |-> pending[1].quote]
           I == {i \in DOMAIN bot.pending : bot.pending[i].client = item.of.id}
           known == Picked(bot.pending, I)
<1>1. TypeOK /\ pc = "effects" /\ todo # <<>> /\ item.type = "record" /\ bot \in BotType
  BY DEF IInv, TypeOK, RecordOrder, Doing
<1>2. UNCHANGED <<orders, dbPositions, dbCooldowns, believed, crashes, stopped>>
  BY DEF RecordOrder
<1>3. \/ /\ rows' = [rows EXCEPT ![item.order] = row] /\ ItemDone
         /\ UNCHANGED <<bot, signals, fills, due, webOrder>>
      \/ Down /\ UNCHANGED rows
  BY DEF RecordOrder
<1>4. CASE Down /\ UNCHANGED rows
  <2>1. crashes' \in Nat /\ believed' \in Nat
    BY <1>1, <1>2 DEF TypeOK
  <2> QED
    BY <1>2, <1>4, <2>1, DownStep DEF disk
<1>5. CASE /\ rows' = [rows EXCEPT ![item.order] = row] /\ ItemDone
           /\ UNCHANGED <<bot, signals, fills, due, webOrder>>
  <2>1. item \in EffectType
    BY <1>1, TodoLaws, WorkIs
  <2>2. item.order \in Nat /\ item.of \in ActionType
    BY <1>1, <2>1 DEF EffectType, ActionType
  <2>3. pending = IF item.of.id = NoId \/ known = <<>> THEN <<>> ELSE <<known[1]>>
    BY DEF PendingFor, Keeping
  <2>4. known \in Seq(PendingType)
    <3>1. bot.pending \in Seq(PendingType) /\ I \in SUBSET DOMAIN bot.pending
      BY <1>1 DEF BotType
    <3> HIDE DEF I
    <3> QED
      BY <3>1, PickedLaws
  <2> HIDE DEF known
  <2>5. pending # <<>> => pending[1] \in PendingType
    BY <2>3, <2>4
  <2> HIDE DEF pending, item
  <2>6. row \in RowType /\ row.status = "open" /\ row.kind \in OrderKinds
    <3>1. CASE pending = <<>>
      <4>1. OrderId(item.order) \in Ids /\ NoId \in Ids /\ item.of.quantity \in Nat
        BY <2>2, IdsTyped DEF ActionType
      <4>2. row = [status |-> "open", kind |-> "position_entry", client |-> OrderId(item.order),
                   position |-> NoId, base |-> item.of.quantity, quote |-> 0]
        BY <3>1 DEF NoRow
      <4> HIDE DEF row
      <4> QED
        BY <4>1, <4>2 DEF RowType, OrderKinds
    <3>2. CASE pending # <<>>
      <4>1. pending[1] \in PendingType
        BY <2>5, <3>2
      <4>2. row = [status |-> "open", kind |-> pending[1].kind, client |-> pending[1].client,
                   position |-> pending[1].position, base |-> pending[1].base, quote |-> pending[1].quote]
        BY <3>2
      <4> HIDE DEF row
      <4> QED
        BY <4>1, <4>2 DEF RowType, PendingType
    <3> QED
      BY <3>1, <3>2
  <2> HIDE DEF row
  <2>7. /\ rows' \in Seq(RowType) /\ Len(rows') = Len(rows) /\ DOMAIN rows' = DOMAIN rows
        /\ \A k \in DOMAIN rows : rows'[k] = rows[k] \/ rows'[k] = row
    <3> DEFINE o == item.order
    <3>1. TypeOK /\ rows' = [rows EXCEPT ![o] = row] /\ row \in RowType
      BY <1>1, <1>5, <2>6
    <3> HIDE DEF o
    <3>2. /\ rows' \in Seq(RowType) /\ Len(rows') = Len(rows) /\ DOMAIN rows' = DOMAIN rows
          /\ \A k \in DOMAIN rows : rows'[k] = IF k = o THEN row ELSE rows[k]
      BY <3>1, RowWritten
    <3> QED
      BY <3>2
  <2>8. /\ pc' \in {"idle", "effects"} /\ todo' \in Seq(WorkAt(pc')) /\ GoneStaysGone' /\ EffectsCool'
    <3>1. /\ bot'.cooling = bot.cooling /\ dbCooldowns \subseteq dbCooldowns'
          /\ Head(todo).type # "cooldown"
      BY <1>1, <1>2, <1>5 DEF item
    <3> QED
      BY <1>1, <1>5, <3>1, ItemDoneLaws
  <2>9. TypeOK'
    BY <1>1, <1>2, <1>5, <2>7, <2>8 DEF TypeOK, OrderNumbers
  <2>10. CancelledRowNotLive'
    BY <1>1, <1>2, <2>6, <2>7, Orderly DEF IInv, CancelledRowNotLive, OrderNumbers
  <2>11. RowsKinded'
    BY <2>6, <2>7 DEF IInv, RowsKinded
  <2> QED
    BY <1>1, <1>2, <1>5, <2>8, <2>9, <2>10, <2>11 DEF IInv, PendingKnown, FillsDue, StoppedCools, OrderNumbers
<1> QED
  BY <1>3, <1>4, <1>5

-----------------------------------------------------------------------------
(* The surroundings: fills, web threads, the exchange, time *)

LEMMA DeliverStep ==
  ASSUME IInv, NEW o \in OrderNumbers, NEW n \in 1..OrderQuantity, Deliver(o, n)
  PROVE  IInv'
<1> DEFINE fill == [order |-> o, client |-> NoId, pair |-> orders[o].pair, quantity |-> n]
<1>1. /\ TypeOK /\ Suspended /\ fills' = Append(fills, fill) /\ rows' = SetStatus(o, "filled") /\ due' = TRUE
      /\ UNCHANGED <<pc, bot, signals, todo, webOrder, orders, dbPositions, dbCooldowns,
                     believed, crashes, stopped>>
  BY DEF IInv, Deliver
<1>2. fill \in FillType
  BY <1>1, Orderly, IdsTyped, CoreAssumption DEF FillType, OrderType
<1> HIDE DEF fill
<1>3. fills' \in Seq(FillType)
  BY <1>1, <1>2 DEF TypeOK
<1>4. /\ rows' \in Seq(RowType) /\ Len(rows') = Len(rows) /\ DOMAIN rows' = DOMAIN rows
      /\ \A k \in DOMAIN rows : \/ rows'[k] = rows[k]
                                \/ /\ rows[k].status # "none" /\ rows'[k].status = "filled"
                                   /\ rows'[k].kind = rows[k].kind
  BY <1>1, SetStatusLaws
<1>5. TypeOK'
  BY <1>1, <1>3, <1>4 DEF TypeOK, OrderNumbers
<1>6. CancelledRowNotLive'
  BY <1>1, <1>4, Orderly DEF IInv, CancelledRowNotLive, OrderNumbers
<1>7. RowsKinded'
  BY <1>4 DEF IInv, RowsKinded
<1> QED
  BY <1>1, <1>5, <1>6, <1>7 DEF IInv, PendingKnown, GoneStaysGone, FillsDue, StoppedCools, EffectsCool,
                                OrderNumbers

LEMMA WebPlaceStep ==
  ASSUME IInv, NEW w \in WebOrders, WebPlace(w.pair, w.side)
  PROVE  IInv'
<1> DEFINE x == NewOrder(w.pair, w.side, OrderQuantity, "api", NoId)
<1>1. /\ TypeOK /\ pc = "idle" /\ orders' = Append(orders, x) /\ rows' = Append(rows, NoRow)
      /\ webOrder' \in {0, Len(orders) + 1}
      /\ UNCHANGED <<pc, bot, signals, fills, due, todo, dbPositions, dbCooldowns, history>>
  BY DEF IInv, WebPlace, Web
<1>2. x \in OrderType
  BY CoreAssumption, IdsTyped DEF NewOrder, OrderType
<1> HIDE DEF x
<1>3. /\ orders' \in Seq(OrderType) /\ rows' \in Seq(RowType) /\ Len(orders') = Len(rows')
      /\ OrderNumbers' = OrderNumbers \cup {Len(orders) + 1}
  BY <1>1, <1>2, PlacedLaws
<1>4. CancelledRowNotLive' /\ RowsKinded' /\ PendingKnown'
  BY <1>1, <1>2, PlacedKeeps
<1>5. TypeOK'
  BY <1>1, <1>3 DEF TypeOK, history
<1> QED
  BY <1>1, <1>4, <1>5 DEF IInv, GoneStaysGone, FillsDue, StoppedCools, EffectsCool, history

LEMMA WebRecordStep ==
  ASSUME IInv, WebRecord
  PROVE  IInv'
<1> DEFINE row == [NoRow EXCEPT !.status = "open", !.kind = "cc_api",
                                !.client = OrderId(webOrder), !.base = OrderQuantity]
<1>1. /\ TypeOK /\ rows' = [rows EXCEPT ![webOrder] = row] /\ webOrder' = 0
      /\ UNCHANGED <<pc, bot, signals, fills, due, todo, orders, dbPositions, dbCooldowns,
                     believed, crashes, stopped>>
  BY DEF IInv, WebRecord
<1>2. row \in RowType /\ row.status = "open" /\ row.kind \in OrderKinds
  <2>1. webOrder \in Nat /\ OrderQuantity \in Nat
    BY <1>1, Orderly, CoreAssumption DEF TypeOK
  <2>2. row = [status |-> "open", kind |-> "cc_api", client |-> OrderId(webOrder),
               position |-> NoId, base |-> OrderQuantity, quote |-> 0]
    <3> DEFINE none == NoRow
               client == OrderId(webOrder)
               opened == [none EXCEPT !.status = "open"]
               kinded == [opened EXCEPT !.kind = "cc_api"]
               named == [kinded EXCEPT !.client = client]
    <3>1. row = [named EXCEPT !.base = OrderQuantity]
      OBVIOUS
    <3>2. none = [status |-> "none", kind |-> "none", client |-> NoId,
                  position |-> NoId, base |-> 0, quote |-> 0]
      BY DEF NoRow
    <3> HIDE DEF row, none
    <3>3. opened = [status |-> "open", kind |-> "none", client |-> NoId,
                    position |-> NoId, base |-> 0, quote |-> 0]
      BY <3>2
    <3> HIDE DEF opened
    <3>4. kinded = [status |-> "open", kind |-> "cc_api", client |-> NoId,
                    position |-> NoId, base |-> 0, quote |-> 0]
      BY <3>3
    <3> HIDE DEF client, kinded
    <3>5. named = [status |-> "open", kind |-> "cc_api", client |-> client,
                   position |-> NoId, base |-> 0, quote |-> 0]
      BY <3>4
    <3> HIDE DEF named
    <3>6. row = [status |-> "open", kind |-> "cc_api", client |-> client,
                 position |-> NoId, base |-> OrderQuantity, quote |-> 0]
      BY <3>1, <3>5
    <3> QED
      BY <3>6 DEF client
  <2> HIDE DEF row
  <2> QED
    BY <2>1, <2>2, IdsTyped DEF RowType, OrderKinds
<1> HIDE DEF row
<1>3. /\ rows' \in Seq(RowType) /\ Len(rows') = Len(rows) /\ DOMAIN rows' = DOMAIN rows
      /\ \A k \in DOMAIN rows : rows'[k] = IF k = webOrder THEN row ELSE rows[k]
  BY <1>1, <1>2, RowWritten
<1>4. TypeOK'
  BY <1>1, <1>3 DEF TypeOK, OrderNumbers
<1>5. CancelledRowNotLive'
  BY <1>1, <1>2, <1>3, Orderly DEF IInv, CancelledRowNotLive, OrderNumbers
<1>6. RowsKinded'
  BY <1>2, <1>3 DEF IInv, RowsKinded
<1> QED
  BY <1>1, <1>4, <1>5, <1>6 DEF IInv, PendingKnown, GoneStaysGone, FillsDue, StoppedCools, EffectsCool,
                                OrderNumbers

LEMMA WebCancelStep ==
  ASSUME IInv, NEW o \in OrderNumbers, WebCancel(o)
  PROVE  IInv'
<1>1. TypeOK /\ orders' = [orders EXCEPT ![o].live = FALSE] /\ UNCHANGED <<pc, memory, disk, history>>
  BY DEF IInv, WebCancel
<1>2. /\ orders' \in Seq(OrderType) /\ Len(orders') = Len(orders) /\ DOMAIN orders' = DOMAIN orders
      /\ \A k \in DOMAIN orders : orders'[k].live = IF k = o THEN FALSE ELSE orders[k].live
  <2>1. FALSE \in BOOLEAN
    OBVIOUS
  <2> QED
    BY <1>1, <2>1, OrderChanged
<1>3. TypeOK'
  BY <1>1, <1>2 DEF TypeOK, OrderNumbers, memory, disk, history
<1> QED
  BY <1>1, <1>2, <1>3 DEF IInv, PendingKnown, GoneStaysGone, CancelledRowNotLive, RowsKinded, FillsDue,
                          StoppedCools, EffectsCool, OrderNumbers, memory, disk, history

LEMMA ExecuteStep ==
  ASSUME IInv, NEW o \in OrderNumbers, NEW n \in 1..OrderQuantity, Execute(o, n)
  PROVE  IInv'
<1> DEFINE done == orders[o].done + n
           live == done < orders[o].quantity
           changed == [orders[o] EXCEPT !.done = done, !.live = live]
<1>1. /\ TypeOK /\ rows[o].status = "open" /\ orders[o].live /\ UNCHANGED <<pc, memory, disk, history>>
      /\ orders' = [orders EXCEPT ![o].done = @ + n, ![o].live = orders[o].done + n < orders[o].quantity]
  BY DEF IInv, Execute
<1>2. /\ orders \in Seq(OrderType) /\ orders[o] \in OrderType /\ OrderNumbers = 1..Len(orders)
      /\ Len(orders) \in Nat /\ DOMAIN orders = OrderNumbers
      /\ \A k \in OrderNumbers : orders[k] \in OrderType
  BY <1>1, Orderly DEF TypeOK, OrderNumbers
<1>3. changed \in OrderType
  <2>1. done \in Nat /\ live \in BOOLEAN
    BY <1>2, CoreAssumption DEF OrderType
  <2> HIDE DEF done, live
  <2> QED
    BY <1>2, <2>1 DEF OrderType
<1>4. DOMAIN orders' = OrderNumbers
      /\ \A k \in OrderNumbers : orders'[k] = IF k = o THEN changed ELSE orders[k]
  BY <1>1, <1>2
<1> HIDE DEF changed
<1>5. orders' \in Seq(OrderType) /\ Len(orders') = Len(orders)
  <2>1. \A k \in 1..Len(orders) : orders'[k] \in OrderType
    BY <1>2, <1>3, <1>4
  <2>2. orders' = [k \in 1..Len(orders) |-> orders'[k]]
    <3>1. orders' = [k \in DOMAIN orders' |-> orders'[k]]
      BY <1>1
    <3> QED
      BY <1>2, <1>4, <3>1
  <2> QED
    BY <1>2, <2>1, <2>2, ListTyped
<1>6. TypeOK'
  BY <1>1, <1>2, <1>4, <1>5 DEF TypeOK, OrderNumbers, memory, disk, history
<1>7. \A k \in OrderNumbers : orders'[k] = orders[k] \/ (k = o /\ orders[k].live /\ rows[k].status = "open")
  BY <1>1, <1>4
<1>8. OrderNumbers' = OrderNumbers
  BY <1>4 DEF OrderNumbers
<1>9. CancelledRowNotLive'
  BY <1>1, <1>7, <1>8 DEF IInv, CancelledRowNotLive, disk
<1>10. GoneStaysGone'
  BY <1>1, <1>7, <1>8 DEF IInv, GoneStaysGone, memory
<1> QED
  BY <1>1, <1>6, <1>8, <1>9, <1>10 DEF IInv, PendingKnown, RowsKinded, FillsDue, StoppedCools, EffectsCool,
                                       memory, disk, history

LEMMA CooldownPassesStep ==
  ASSUME IInv, NEW p \in Pairs, CooldownPasses(p)
  PROVE  IInv'
<1>1. /\ TypeOK /\ bot \in BotType /\ pc \in {"idle", "down"} /\ bot' = [bot EXCEPT !.cooling = @ \ {p}]
      /\ dbCooldowns' = dbCooldowns \ {p} /\ stopped' = stopped \ {p}
      /\ UNCHANGED <<pc, signals, fills, due, todo, webOrder, orders, rows, dbPositions, believed, crashes>>
  BY DEF IInv, TypeOK, CooldownPasses
<1>2. bot' \in BotType
  BY <1>1 DEF BotType
<1>3. bot'.pending = bot.pending /\ bot'.cooling = bot.cooling \ {p}
  BY <1>1 DEF BotType
<1>4. TypeOK'
  BY <1>1, <1>2 DEF TypeOK, OrderNumbers
<1>5. StoppedCools'
  BY <1>1, <1>3 DEF IInv, StoppedCools
<1> QED
  BY <1>1, <1>3, <1>4, <1>5 DEF IInv, PendingKnown, GoneStaysGone, CancelledRowNotLive, RowsKinded, FillsDue,
                                EffectsCool, OrderNumbers

-----------------------------------------------------------------------------
(* The theorems *)

LEMMA NextInv == IInv /\ [Next]_vars => IInv'
<1> SUFFICES ASSUME IInv, [Next]_vars PROVE IInv'
  OBVIOUS
<1>1. CASE RunOnce
  BY <1>1, BeginCycleStep, RecoverFillStep, TakeAsCancelledStep, EndStartStep, BeginReapingStep,
     ReapOrderStep, RunCycleStep, PersistPositionStep, PersistCooldownStep, PollBeliefsStep,
     PlaceEffectStep, EffectRefusedStep, RecordOrderStep DEF RunOnce
<1>2. CASE Surroundings
  <2>1. CASE Start
    BY <2>1, StartStep
  <2>2. CASE Crash
    BY <2>2, CrashStep
  <2>3. CASE WebRecord
    BY <2>3, WebRecordStep
  <2>4. ASSUME NEW p \in Pairs, CooldownPasses(p) PROVE IInv'
    BY <2>4, CooldownPassesStep
  <2>5. ASSUME NEW w \in WebOrders, WebPlace(w.pair, w.side) PROVE IInv'
    BY <2>5, WebPlaceStep
  <2>6. ASSUME NEW o \in OrderNumbers, WebCancel(o) PROVE IInv'
    BY <2>6, WebCancelStep
  <2>7. ASSUME NEW o \in OrderNumbers, NEW n \in 1..OrderQuantity, Execute(o, n) PROVE IInv'
    BY <2>7, ExecuteStep
  <2>8. ASSUME NEW o \in OrderNumbers, NEW n \in 1..OrderQuantity, Deliver(o, n) PROVE IInv'
    BY <2>8, DeliverStep
  <2> QED
    BY <1>2, <2>1, <2>2, <2>3, <2>4, <2>5, <2>6, <2>7, <2>8 DEF Surroundings
<1>3. CASE UNCHANGED vars
  BY <1>3 DEF vars, memory, disk, history, IInv, TypeOK, PendingKnown, GoneStaysGone, CancelledRowNotLive,
              RowsKinded, FillsDue, StoppedCools, EffectsCool, OrderNumbers, WorkAt
<1> QED
  BY <1>1, <1>2, <1>3 DEF Next

LEMMA Invariance == Spec => []IInv
BY InitInv, NextInv, PTL DEF Spec

\* The state of the core, what its loops have still to do and the tables have
\* their types at every step: no handler and no restart leaves a field behind.
THEOREM CoreTypes == Spec => []TypeOK
<1>1. IInv => TypeOK
  BY DEF IInv
<1> QED
  BY <1>1, Invariance, PTL

\* An order that the orders table calls cancelled is not live on the exchange,
\* whatever came between the fetch that missed it and the write.
THEOREM CancelledRowNotLiveHolds == Spec => []CancelledRowNotLive
<1>1. IInv => CancelledRowNotLive
  BY DEF IInv
<1> QED
  BY <1>1, Invariance, PTL

\* Only the effects place orders for the reducer, and never for a pair that cools.
LEMMA NewOrders ==
  ASSUME IInv, [Next]_vars, NEW o \in DOMAIN orders' \ DOMAIN orders,
         orders'[o].cause \in {"position_entry", "inventory_sell"}
  PROVE  orders'[o].pair \notin stopped
<1>1. TypeOK /\ StoppedCools
  BY DEF IInv
<1>2. CASE PlaceEffect
  <2> DEFINE a == Head(todo)
  <2>1. orders' = Append(orders, OrderOf(a)) /\ rows' = Append(rows, NoRow) /\ pc = "effects"
    BY <1>2 DEF PlaceEffect, Doing
  <2>2. /\ a \in ActionType
        /\ a.reason \in {"position_entry", "inventory_sell"} => a.pair \notin bot.cooling
    BY <1>2, StopPlaced
  <2> HIDE DEF a
  <2>3. OrderOf(a) \in OrderType /\ OrderOf(a).cause = a.reason /\ OrderOf(a).pair = a.pair
    BY <2>2, IdsTyped DEF OrderOf, NewOrder, OrderType, ActionType
  <2>4. OrderNumbers' = OrderNumbers \cup {Len(orders) + 1} /\ orders'[Len(orders) + 1] = OrderOf(a)
    BY <1>1, <2>1, <2>3, PlacedLaws
  <2>5. orders'[o] = OrderOf(a)
    BY <2>4 DEF OrderNumbers
  <2> QED
    BY <1>1, <2>1, <2>2, <2>3, <2>5 DEF StoppedCools
<1>3. ASSUME NEW w \in WebOrders, WebPlace(w.pair, w.side) PROVE FALSE
  <2> DEFINE x == NewOrder(w.pair, w.side, OrderQuantity, "api", NoId)
  <2>1. orders' = Append(orders, x) /\ rows' = Append(rows, NoRow)
    BY <1>3 DEF WebPlace
  <2>2. x \in OrderType /\ x.cause = "api"
    BY CoreAssumption, IdsTyped DEF NewOrder, OrderType
  <2> HIDE DEF x
  <2>3. OrderNumbers' = OrderNumbers \cup {Len(orders) + 1} /\ orders'[Len(orders) + 1] = x
    BY <1>1, <2>1, <2>2, PlacedLaws
  <2>4. orders'[o] = x
    BY <2>3 DEF OrderNumbers
  <2> QED
    BY <2>2, <2>4
<1>4. ASSUME DOMAIN orders' = DOMAIN orders PROVE FALSE
  BY <1>4
<1>5. ReapOrder => DOMAIN orders' = DOMAIN orders
  BY DEF ReapOrder
<1>6. \A k \in OrderNumbers : WebCancel(k) => DOMAIN orders' = DOMAIN orders
  BY DEF WebCancel
<1>7. \A k \in OrderNumbers, n \in 1..OrderQuantity :
        /\ Execute(k, n) => DOMAIN orders' = DOMAIN orders
        /\ Deliver(k, n) => DOMAIN orders' = DOMAIN orders
  BY DEF Execute, Deliver
<1>8. RunOnce => PlaceEffect \/ ReapOrder \/ orders' = orders
  BY DEF RunOnce, BeginCycle, RecoverFill, TakeAsCancelled, EndStart, BeginReaping, RunCycle,
         PersistPosition, PersistCooldown, PollBeliefs, EffectRefused, RecordOrder
<1>9. /\ Start \/ Crash \/ WebRecord \/ (\E p \in Pairs : CooldownPasses(p)) => orders' = orders
      /\ UNCHANGED vars => orders' = orders
  BY DEF Start, Crash, WebRecord, CooldownPasses, vars
<1> QED
  BY <1>2, <1>3, <1>4, <1>5, <1>6, <1>7, <1>8, <1>9 DEF Next, Surroundings

\* After a stop has sold a pair and until its cooldown is over, no belief buys
\* or sells that pair, in the process that sold it or in a later one.
THEOREM ReentryBlockedHolds == Spec => ReentryBlockedAfterStop
<1>1. IInv /\ [Next]_vars
        => [\A o \in DOMAIN orders' \ DOMAIN orders :
              orders'[o].cause \in {"position_entry", "inventory_sell"}
                 => orders'[o].pair \notin stopped]_vars
  BY NewOrders
<1> QED
  BY <1>1, Invariance, PTL DEF Spec, ReentryBlockedAfterStop

-----------------------------------------------------------------------------
(* What does not stop a cycle *)

\* Nothing in the bot keeps it from closing what a cycle that knows its prices
\* may close: all positions have their stops, and a profit is turned into DOGE
\* only if every position is one in DOGE.
Clear(b, rising) ==
  /\ \A i \in DOMAIN b.positions : b.positions[i].armed /\ (b.positions[i].pair = Doge \/ ~rising)
  /\ b.beliefs[Doge] = "bullish" => rising

\* An event that has not raised, and has left the bot clear.
Passes(r, rising) == r \in ResultType /\ r.ok /\ Clear(r.bot, rising)

LEMMA ClosePasses ==
  ASSUME NEW b \in BotType, NEW rising \in BOOLEAN, Clear(b, rising),
         NEW i \in DOMAIN b.positions, NEW reason \in Reasons, NEW gain \in Int, NEW dogePriced \in BOOLEAN,
         dogePriced \/ b.positions[i].pair # Doge,
         NEW r, r = Close(b, b.positions[i], reason, gain, dogePriced)
  PROVE  Passes(r, rising) /\ r.bot.pending = b.pending
<1> DEFINE position == b.positions[i]
           I == {j \in DOMAIN b.positions : b.positions[j] # position}
<1>1. b.positions \in Seq(PositionType) /\ I \in SUBSET DOMAIN b.positions
  BY DEF BotType
<1>2. position \in PositionType
  BY <1>1
<1>3. ClosedAs(b, position, reason, gain, dogePriced, r)
  BY <1>2, CloseLaws
<1>4. position.armed /\ (dogePriced \/ b.beliefs[Doge] # "bullish")
  BY DEF Clear
<1>5. /\ r \in ResultType /\ r.ok /\ r.bot.pending = b.pending /\ r.bot.beliefs = b.beliefs
      /\ r.bot.positions = Picked(b.positions, I)
  BY <1>3, <1>4 DEF ClosedAs, Keeping
<1> HIDE DEF I
<1>6. \A k \in DOMAIN r.bot.positions : \E j \in DOMAIN b.positions : r.bot.positions[k] = b.positions[j]
  BY <1>1, <1>5, PickedLaws
<1>7. Clear(r.bot, rising)
  BY <1>5, <1>6 DEF Clear
<1> QED
  BY <1>5, <1>7 DEF Passes

LEMMA NothingPasses ==
  ASSUME NEW b \in BotType, NEW rising \in BOOLEAN, Clear(b, rising)
  PROVE  Passes(Done(b, <<>>), rising) /\ Done(b, <<>>).bot = b
BY DEF Passes, Done, ResultType

LEMMA VerdictPasses ==
  ASSUME NEW b \in BotType, NEW rising \in BOOLEAN, Clear(b, rising), NEW id, NEW gain \in Int,
         NEW r, r \in {StopTriggered(b, id, TRUE), TargetHit(b, id, TRUE), WindowExpired(b, id, gain, TRUE)}
  PROVE  Passes(r, rising) /\ r.bot.pending = b.pending
<1>1. CASE ~IsPosition(b, id)
  <2>1. r = Done(b, <<>>)
    BY <1>1 DEF StopTriggered, TargetHit, WindowExpired
  <2> QED
    BY <2>1, NothingPasses
<1>2. CASE IsPosition(b, id)
  <2>1. PICK i \in DOMAIN b.positions : PositionOf(b, id) = b.positions[i]
    BY <1>2, FoundPosition
  <2>2. {"stop_loss", "target_hit", "window_expired"} \subseteq Reasons /\ TRUE \in BOOLEAN
    BY DEF Reasons
  <2>3. ASSUME NEW g \in Int, NEW reason \in {"stop_loss", "target_hit", "window_expired"},
               NEW x, x = Close(b, b.positions[i], reason, g, TRUE)
        PROVE  Passes(x, rising) /\ x.bot.pending = b.pending
    <3> DEFINE priced == TRUE
    <3>1. reason \in Reasons /\ priced \in BOOLEAN /\ (priced \/ b.positions[i].pair # Doge)
      BY <2>2
    <3>2. x = Close(b, b.positions[i], reason, g, priced)
      BY <2>3
    <3> HIDE DEF priced
    <3> QED
      BY <3>1, <3>2, ClosePasses
  <2> DEFINE position == b.positions[i]
             closed == Close(b, position, "stop_loss", -1, TRUE)
             stopResult == [closed EXCEPT !.bot.cooling = IF closed.ok THEN @ \cup {position.pair} ELSE @]
  <2>4. r \in {stopResult, Close(b, position, "target_hit", 1, TRUE),
               Close(b, position, "window_expired", gain, TRUE)}
    BY <1>2, <2>1 DEF StopTriggered, TargetHit, WindowExpired
  <2>5. CASE r = stopResult
    <3>1. Passes(closed, rising) /\ closed.bot.pending = b.pending
      <4>1. -1 \in Int
        OBVIOUS
      <4> QED
        BY <2>3, <4>1
    <3>2. position.pair \in Pairs
      <4>1. b.positions \in Seq(PositionType)
        BY DEF BotType
      <4>2. position \in PositionType
        BY <4>1
      <4> QED
        BY <4>2 DEF PositionType
    <3> HIDE DEF closed, position
    <3> DEFINE cooling == closed.bot.cooling \cup {position.pair}
               next == [closed.bot EXCEPT !.cooling = cooling]
    <3>3. closed \in ResultType /\ closed.ok /\ closed.bot \in BotType /\ Clear(closed.bot, rising)
      BY <3>1 DEF Passes, ResultType
    <3>4. r = [closed EXCEPT !.bot = next]
      BY <2>5, <3>3 DEF ResultType, BotType
    <3>5. cooling \subseteq Pairs
      BY <3>2, <3>3 DEF BotType
    <3> HIDE DEF cooling
    <3>6. /\ next \in BotType /\ next.positions = closed.bot.positions
          /\ next.beliefs = closed.bot.beliefs /\ next.pending = closed.bot.pending
      BY <3>3, <3>5 DEF BotType
    <3> HIDE DEF next
    <3>7. r \in ResultType /\ r.ok /\ r.bot = next
      BY <3>3, <3>4, <3>6 DEF ResultType
    <3>8. Clear(next, rising)
      BY <3>3, <3>6 DEF Clear
    <3> QED
      BY <3>1, <3>6, <3>7, <3>8 DEF Passes
  <2>6. CASE r \in {Close(b, position, "target_hit", 1, TRUE), Close(b, position, "window_expired", gain, TRUE)}
    <3>1. 1 \in Int
      OBVIOUS
    <3>2. CASE r = Close(b, position, "target_hit", 1, TRUE)
      BY <2>3, <3>1, <3>2
    <3>3. CASE r = Close(b, position, "window_expired", gain, TRUE)
      BY <2>3, <3>3
    <3> QED
      BY <2>6, <3>2, <3>3
  <2> QED
    BY <2>4, <2>5, <2>6
<1> QED
  BY <1>1, <1>2

LEMMA BeliefPasses ==
  ASSUME NEW b \in BotType, NEW rising \in BOOLEAN, Clear(b, rising), NEW signal \in SignalType,
         signal = [pair |-> Doge, direction |-> "bullish"] => rising, NEW priced, NEW gain \in Int
  PROVE  Passes(BeliefApplied(b, signal, priced, gain), rising)
<1> DEFINE next == BeliefUpdate(b, priced, signal.pair, signal.direction, gain)
           r == [next EXCEPT !.bot.beliefs[signal.pair] = signal.direction]
           pair == signal.pair
<1>1. /\ signal.pair \in Pairs /\ signal.direction \in Directions
      /\ signal = [pair |-> signal.pair, direction |-> signal.direction]
  BY DEF SignalType
<1>2. \/ next = Done(b, <<>>)
      \/ HasPair(b, pair) /\ next = ClosedOnBelief(b, PositionOfPair(b, pair), gain)
      \/ /\ pair \notin b.cooling
         /\ \E side \in {"buy", "sell"}, kind \in {"position_entry", "inventory_sell"}, n \in Nat :
              next = Ordered(b, pair, side, kind, n)
  BY <1>1, BeliefCases
<1>3. BeliefApplied(b, signal, priced, gain) = r
  BY DEF BeliefApplied
<1> HIDE DEF next
<1>4. Passes(next, rising)
  <2>1. CASE next = Done(b, <<>>)
    BY <2>1, NothingPasses
  <2>2. CASE HasPair(b, pair) /\ next = ClosedOnBelief(b, PositionOfPair(b, pair), gain)
    <3>1. PICK i \in DOMAIN b.positions : PositionOfPair(b, pair) = b.positions[i]
      BY <2>2, FoundPosition
    <3> DEFINE priceAtHand == b.positions[i].pair = Doge
    <3>2. next = Close(b, b.positions[i], "belief_change", gain, priceAtHand)
      BY <2>2, <3>1 DEF ClosedOnBelief
    <3>3. priceAtHand \in BOOLEAN /\ "belief_change" \in Reasons
      BY DEF Reasons
    <3>4. priceAtHand \/ b.positions[i].pair # Doge
      OBVIOUS
    <3> HIDE DEF priceAtHand
    <3> QED
      BY <3>2, <3>3, <3>4, ClosePasses
  <2>3. ASSUME pair \notin b.cooling, NEW side \in {"buy", "sell"},
               NEW kind \in {"position_entry", "inventory_sell"}, NEW n \in Nat,
               next = Ordered(b, pair, side, kind, n)
        PROVE  Passes(next, rising)
    <3>1. /\ Follows(b, next, "belief") /\ next.ok /\ next.bot.positions = b.positions
          /\ next.bot.beliefs = b.beliefs
      BY <1>1, <2>3, OrderedFollows
    <3> QED
      BY <3>1 DEF Follows, Passes, Clear
  <2> QED
    BY <1>2, <2>1, <2>2, <2>3
<1> DEFINE beliefs == [next.bot.beliefs EXCEPT ![signal.pair] = signal.direction]
           after == [next.bot EXCEPT !.beliefs = beliefs]
<1>5. next \in ResultType /\ next.ok /\ next.bot \in BotType /\ Clear(next.bot, rising)
  BY <1>4 DEF Passes, ResultType
<1>6. r = [next EXCEPT !.bot = after]
  BY <1>5 DEF ResultType, BotType
<1>7. beliefs \in [Pairs -> Directions]
  BY <1>1, <1>5 DEF BotType
<1>8. beliefs[Doge] = "bullish" => rising
  BY <1>1, <1>5, PairsAssumption DEF BotType, Clear
<1> HIDE DEF beliefs, r
<1>9. after \in BotType /\ after.positions = next.bot.positions /\ after.beliefs = beliefs
  BY <1>5, <1>7 DEF BotType
<1> HIDE DEF after
<1>10. r \in ResultType /\ r.bot = after /\ r.ok
  BY <1>5, <1>6, <1>9 DEF ResultType
<1>11. Clear(after, rising)
  BY <1>5, <1>8, <1>9 DEF Clear
<1> QED
  BY <1>3, <1>10, <1>11 DEF Passes

\* The events of a cycle whose reconciliation, if any, is the m + 1-st and whose
\* fills are all those after it up to the n-th.
Placed(event, k, m, n, rising) ==
  /\ k = m + 1 /\ k <= n => event.type = "reconciliation"
  /\ event.type = "fill" <=> m + 1 < k /\ k <= n
  /\ event.type = "belief" /\ event.belief = [pair |-> Doge, direction |-> "bullish"] => rising

\* What holds after the k-th of them: a reconciliation leaves no order pending,
\* so the fills after it are those of no order.
ClearAlong(x, k, m, n, rising) ==
  Passes(x, rising) /\ (m < k /\ k <= n => x.bot.pending = <<>>)

LEMMA ClearStep ==
  ASSUME NEW rising \in BOOLEAN, NEW m \in Nat, NEW n \in Nat, NEW k \in Nat \ {0}, NEW x,
         ClearAlong(x, k - 1, m, n, rising), NEW event \in EventType, Placed(event, k, m, n, rising),
         NEW priced, Doge \in priced, NEW gain \in Int
  PROVE  ClearAlong(AndThen(x, event, priced, gain), k, m, n, rising)
<1> DEFINE b == x.bot
           next == ApplyEvent(b, event, priced, gain)
           acts == x.actions \o next.actions
           y == [next EXCEPT !.actions = acts]
<1>1. /\ x \in ResultType /\ x.ok /\ x.actions \in Seq(ActionType) /\ b \in BotType /\ Clear(b, rising)
      /\ m < k - 1 /\ k - 1 <= n => b.pending = <<>>
  BY DEF ClearAlong, Passes, ResultType
<1>2. AndThen(x, event, priced, gain) = y
  BY <1>1 DEF AndThen
<1>3. /\ event.type \in {"hold", "stop", "target", "window", "reconciliation", "fill", "belief"}
      /\ event.type = "reconciliation" => event.usd \in Int /\ event.doge \in Int
      /\ event.type = "fill" => event.fill \in FillType
      /\ event.type = "belief" => event.belief \in SignalType
  BY DEF EventType
<1>4. m < k /\ k <= n => event.type \in {"reconciliation", "fill"}
  BY DEF Placed
<1>5. (Doge \in priced) = TRUE
  OBVIOUS
<1> HIDE DEF b
<1>6. Passes(next, rising) /\ (event.type \in {"reconciliation", "fill"} => next.bot.pending = <<>>)
  <2>1. CASE event.type \in {"stop", "target", "window"}
    <3>1. next \in {StopTriggered(b, event.id, TRUE), TargetHit(b, event.id, TRUE),
                    WindowExpired(b, event.id, gain, TRUE)}
      BY <1>5, <2>1 DEF ApplyEvent
    <3> HIDE DEF next
    <3>2. Passes(next, rising)
      BY <1>1, <3>1, VerdictPasses
    <3> QED
      BY <2>1, <3>2
  <2>2. CASE event.type = "hold"
    <3>1. next = Done(b, <<>>)
      BY <2>2 DEF ApplyEvent
    <3> HIDE DEF next
    <3> QED
      BY <1>1, <2>2, <3>1, NothingPasses
  <2>3. CASE event.type = "reconciliation"
    <3> DEFINE c == Reconciled(b, event.usd, event.doge)
    <3>1. next = Done(c, <<>>)
      BY <2>3 DEF ApplyEvent
    <3>2. c \in BotType
      BY <1>1, <1>3, <2>3, ReconciledFollows
    <3>3. c.pending = <<>> /\ c.positions = b.positions /\ c.beliefs = b.beliefs
      BY <1>1 DEF Reconciled, BotType
    <3> HIDE DEF next, c
    <3>4. Clear(c, rising)
      BY <1>1, <3>3 DEF Clear
    <3>5. Passes(next, rising) /\ next.bot = c
      BY <3>1, <3>2, <3>4, NothingPasses
    <3> QED
      BY <3>3, <3>5 DEF Passes
  <2>4. CASE event.type = "fill"
    <3>1. b.pending = <<>>
      <4>1. m + 1 < k /\ k <= n
        BY <2>4 DEF Placed
      <4> QED
        BY <1>1, <4>1
    <3>2. next = FillConfirmed(b, event.fill)
      BY <2>4 DEF ApplyEvent
    <3> HIDE DEF next
    <3>3. next = Done(b, <<>>)
      BY <1>1, <1>3, <2>4, <3>1, <3>2, FillFollows
    <3> QED
      BY <1>1, <3>1, <3>3, NothingPasses
  <2>5. CASE event.type = "belief"
    <3>1. next = BeliefApplied(b, event.belief, priced, gain)
      BY <2>5 DEF ApplyEvent
    <3>2. event.belief = [pair |-> Doge, direction |-> "bullish"] => rising
      BY <2>5 DEF Placed
    <3> HIDE DEF next
    <3>3. Passes(next, rising)
      BY <1>1, <1>3, <2>5, <3>1, <3>2, BeliefPasses
    <3> QED
      BY <2>5, <3>3
  <2> QED
    BY <1>3, <2>1, <2>2, <2>3, <2>4, <2>5
<1> HIDE DEF next
<1>7. next \in ResultType /\ next.ok /\ next.actions \in Seq(ActionType) /\ Clear(next.bot, rising)
  BY <1>6 DEF Passes, ResultType
<1>8. acts \in Seq(ActionType)
  BY <1>1, <1>7, JoinedLaws
<1> HIDE DEF acts
<1>9. y \in ResultType /\ y.ok /\ y.bot = next.bot
  BY <1>7, <1>8 DEF ResultType
<1> HIDE DEF y
<1>10. ClearAlong(y, k, m, n, rising)
  BY <1>4, <1>6, <1>7, <1>9 DEF ClearAlong, Passes
<1> QED
  BY <1>2, <1>10

LEMMA ClearCycle ==
  ASSUME NEW b \in BotType, NEW rising \in BOOLEAN, Clear(b, rising),
         NEW events \in Seq(EventType), NEW m \in Nat, NEW n \in Nat,
         \A k \in DOMAIN events : Placed(events[k], k, m, n, rising),
         NEW priced, Doge \in priced, NEW gain \in Int
  PROVE  Cycle(b, events, priced, gain).ok
<1> DEFINE last == Len(events)
<1>1. last \in Nat /\ DOMAIN events = 1..last /\ \A k \in 1..last : events[k] \in EventType
  OBVIOUS
<1>2. PICK f : /\ f[0] = Done(b, <<>>)
               /\ \A k \in 1..last : f[k] = AndThen(f[k - 1], events[k], priced, gain)
               /\ Cycle(b, events, priced, gain) = f[last]
  BY <1>1, CycleIs
<1> HIDE DEF last
<1> DEFINE Bad == {k \in 0..last : ~ClearAlong(f[k], k, m, n, rising)}
<1>3. ASSUME Bad # {} PROVE FALSE
  <2>1. PICK k \in Bad : \A j \in Bad : k <= j
    <3>1. Bad \in SUBSET Nat
      OBVIOUS
    <3> HIDE DEF Bad
    <3> QED
      BY <1>3, <3>1, LeastExists
  <2>2. CASE k = 0
    <3>1. ClearAlong(Done(b, <<>>), 0, m, n, rising)
      BY NothingPasses DEF ClearAlong, Passes
    <3> QED
      BY <1>2, <2>1, <2>2, <3>1
  <2>3. CASE k # 0
    <3>1. k \in 1..last /\ k \in Nat \ {0} /\ k - 1 \in 0..last /\ k - 1 \notin Bad
      BY <1>1, <2>1, <2>3
    <3>2. ClearAlong(f[k - 1], k - 1, m, n, rising)
      BY <3>1
    <3>3. events[k] \in EventType /\ Placed(events[k], k, m, n, rising)
      BY <1>1, <3>1
    <3>4. ClearAlong(AndThen(f[k - 1], events[k], priced, gain), k, m, n, rising)
      BY <3>1, <3>2, <3>3, ClearStep
    <3> QED
      BY <1>2, <2>1, <3>1, <3>4
  <2> QED
    BY <2>2, <2>3
<1>4. ClearAlong(f[last], last, m, n, rising)
  BY <1>1, <1>3
<1> QED
  BY <1>2, <1>4 DEF ClearAlong, Passes

LEMMA JoinIs ==
  ASSUME NEW T, NEW s \in Seq(T), NEW t \in Seq(T), NEW r, r = s \o t
  PROVE  /\ r \in Seq(T) /\ Len(r) = Len(s) + Len(t)
         /\ \A i \in DOMAIN r :
              \/ i \in DOMAIN s /\ r[i] = s[i]
              \/ i - Len(s) \in DOMAIN t /\ i > Len(s) /\ r[i] = t[i - Len(s)]
<1>1. s \o t \in Seq(T) /\ Len(s \o t) = Len(s) + Len(t)
  BY JoinedLaws
<1>2. \A i \in DOMAIN (s \o t) :
        \/ i \in DOMAIN s /\ (s \o t)[i] = s[i]
        \/ i - Len(s) \in DOMAIN t /\ i > Len(s) /\ (s \o t)[i] = t[i - Len(s)]
  BY JoinedLaws
<1> QED
  BY <1>1, <1>2

InPlace(events, rising) ==
  \E m, n \in Nat : \A k \in DOMAIN events : Placed(events[k], k, m, n, rising)
Announced(ss) == \E j \in DOMAIN ss : ss[j] = [pair |-> Doge, direction |-> "bullish"]

\* Where the events of a cycle come: one reconciliation at most, and the fills after it.
LEMMA EventsPlaced ==
  ASSUME NEW b \in BotType, NEW fs \in Seq(FillType), NEW ss \in Seq(SignalType),
         NEW verdict \in [DOMAIN b.positions -> {"hold", "stop", "target"}], NEW expired \in Ids,
         NEW isDue \in BOOLEAN, fs # <<>> => isDue, NEW wallet \in [usd : Int, doge : Int],
         NEW rising \in BOOLEAN,
         Announced(ss) => rising, NEW events, events = Events(b, verdict, expired, isDue, wallet, fs, ss)
  PROVE  InPlace(events, rising)
<1> DEFINE one == [i \in DOMAIN b.positions |-> [type |-> verdict[i], id |-> b.positions[i].id]]
           two == <<[type |-> "window", id |-> expired]>>
           reconciliation == [type |-> "reconciliation", usd |-> wallet.usd, doge |-> wallet.doge]
           three == IF isDue THEN <<reconciliation>> ELSE <<>>
           four == [i \in DOMAIN fs |-> [type |-> "fill", fill |-> fs[i]]]
           five == [i \in DOMAIN ss |-> [type |-> "belief", belief |-> ss[i]]]
           Verdict == {"hold", "stop", "target", "window"}
<1>1. /\ Len(one) \in Nat /\ one \in Seq([type : Verdict, id : Ids]) /\ two \in Seq([type : Verdict, id : Ids])
  <2> DEFINE E == [type : Verdict, id : Ids]
  <2>1. b.positions \in Seq(PositionType)
    BY DEF BotType
  <2>2. /\ Len(b.positions) \in Nat /\ DOMAIN b.positions = 1..Len(b.positions)
        /\ \A i \in DOMAIN b.positions : b.positions[i] \in PositionType
    BY <2>1
  <2>3. \A i \in DOMAIN b.positions : one[i] \in E
    BY <2>2 DEF PositionType
  <2>4. one = [i \in 1..Len(b.positions) |-> one[i]]
    BY <2>2
  <2>5. [type |-> "window", id |-> expired] \in E
    OBVIOUS
  <2> HIDE DEF one, E
  <2>6. one \in Seq(E)
    BY <2>2, <2>3, <2>4, ListTyped
  <2>7. two \in Seq(E)
    BY <2>5
  <2> QED
    BY <2>6, <2>7 DEF E
<1> DEFINE head == one \o two
           m == Len(head)
           n == m + (IF isDue THEN 1 + Len(fs) ELSE 0)
           known == head \o three
           told == known \o four
<1>2. head \in Seq([type : Verdict, id : Ids])
  BY <1>1, JoinedLaws
<1>3. events = told \o five
  BY DEF Events
<1>4. m \in Nat /\ DOMAIN head = 1..m /\ \A k \in DOMAIN head : head[k].type \in Verdict
  BY <1>2
<1>5. Len(fs) \in Nat /\ DOMAIN four = 1..Len(fs) /\ Len(four) = Len(fs) /\ four \in Seq([type : {"fill"}, fill : FillType])
  <2>1. Len(fs) \in Nat /\ DOMAIN fs = 1..Len(fs) /\ \A i \in DOMAIN fs : fs[i] \in FillType
    OBVIOUS
  <2>2. \A i \in DOMAIN fs : four[i] \in [type : {"fill"}, fill : FillType]
    BY <2>1
  <2>3. four = [i \in 1..Len(fs) |-> four[i]]
    BY <2>1
  <2> HIDE DEF four
  <2> QED
    BY <2>1, <2>2, <2>3, ListTyped
<1>6. Len(ss) \in Nat /\ DOMAIN five = 1..Len(ss) /\ Len(five) = Len(ss)
      /\ five \in Seq([type : {"belief"}, belief : SignalType])
      /\ \A i \in DOMAIN five : five[i].belief = ss[i]
  <2>1. Len(ss) \in Nat /\ DOMAIN ss = 1..Len(ss) /\ \A i \in DOMAIN ss : ss[i] \in SignalType
    OBVIOUS
  <2>2. \A i \in DOMAIN ss : five[i] \in [type : {"belief"}, belief : SignalType] /\ five[i].belief = ss[i]
    BY <2>1
  <2>3. five = [i \in 1..Len(ss) |-> five[i]]
    BY <2>1
  <2> HIDE DEF five
  <2>4. five \in Seq([type : {"belief"}, belief : SignalType]) /\ DOMAIN five = 1..Len(ss) /\ Len(five) = Len(ss)
    BY <2>1, <2>2, <2>3, ListTyped
  <2> QED
    BY <2>1, <2>2, <2>4

<1>7. /\ three \in Seq(EventType) /\ Len(three) = IF isDue THEN 1 ELSE 0
      /\ isDue => three[1].type = "reconciliation"
  <2>1. reconciliation \in EventType /\ reconciliation.type = "reconciliation"
    BY DEF EventType
  <2> HIDE DEF reconciliation
  <2>2. CASE isDue
    BY <2>1, <2>2
  <2>3. CASE ~isDue
    BY <2>3
  <2> QED
    BY <2>2, <2>3
<1>8. /\ head \in Seq(EventType) /\ four \in Seq(EventType) /\ five \in Seq(EventType)
      /\ \A k \in DOMAIN four : four[k].type = "fill"
      /\ \A k \in DOMAIN five : five[k].type = "belief"
  <2> HIDE DEF one, two, three, head, four, five
  <2>1. [type : Verdict, id : Ids] \subseteq EventType
    BY DEF EventType
  <2>2. [type : {"fill"}, fill : FillType] \subseteq EventType
    BY DEF EventType
  <2>3. [type : {"belief"}, belief : SignalType] \subseteq EventType
    BY DEF EventType
  <2> DEFINE Fill == [type : {"fill"}, fill : FillType]
             Belief == [type : {"belief"}, belief : SignalType]
  <2>4. /\ \A e \in Fill : e.type = "fill"
        /\ \A e \in Belief : e.type = "belief"
    OBVIOUS
  <2>5. four \in Seq(Fill) /\ five \in Seq(Belief)
    BY <1>5, <1>6
  <2> HIDE DEF Fill, Belief
  <2>6. /\ \A k \in DOMAIN four : four[k] \in Fill
        /\ \A k \in DOMAIN five : five[k] \in Belief
    BY <2>5
  <2>7. Fill \subseteq EventType /\ Belief \subseteq EventType
    BY <2>2, <2>3 DEF Fill, Belief
  <2> DEFINE Seen == [type : Verdict, id : Ids]
  <2>8. head \in Seq(Seen) /\ Seen \subseteq EventType
    BY <1>2, <2>1
  <2> HIDE DEF Seen
  <2>9. head \in Seq(EventType)
    BY <2>8
  <2> QED
    BY <2>4, <2>5, <2>6, <2>7, <2>9
<1>9. ~isDue => Len(fs) = 0
  OBVIOUS
<1> HIDE DEF one, two, three, four, five, head, m
<1>10. m = Len(head)
  BY DEF m
<1>11. known \in Seq(EventType) /\ Len(known) = m + Len(three)
       /\ \A k \in DOMAIN known : \/ k \in DOMAIN head /\ known[k] = head[k]
                                  \/ k - m \in DOMAIN three /\ k > m /\ known[k] = three[k - m]
  <2>1. known = head \o three
    OBVIOUS
  <2> HIDE DEF known
  <2>2. /\ known \in Seq(EventType) /\ Len(known) = Len(head) + Len(three)
        /\ \A k \in DOMAIN known :
             \/ k \in DOMAIN head /\ known[k] = head[k]
             \/ k - Len(head) \in DOMAIN three /\ k > Len(head) /\ known[k] = three[k - Len(head)]
    <3>1. head \in Seq(EventType) /\ three \in Seq(EventType)
      BY <1>7, <1>8
    <3> QED
      BY <2>1, <3>1, JoinIs
  <2> QED
    BY <1>10, <2>2
<1> HIDE DEF known
<1>12. told \in Seq(EventType) /\ Len(told) = n
       /\ \A k \in DOMAIN told : \/ k \in DOMAIN known /\ told[k] = known[k]
                                 \/ /\ k - Len(known) \in DOMAIN four /\ k > Len(known)
                                    /\ told[k] = four[k - Len(known)]
  <2>1. /\ told \in Seq(EventType) /\ Len(told) = Len(known) + Len(four)
        /\ \A k \in DOMAIN told : \/ k \in DOMAIN known /\ told[k] = known[k]
                                  \/ /\ k - Len(known) \in DOMAIN four /\ k > Len(known)
                                     /\ told[k] = four[k - Len(known)]
    <3>1. told = known \o four
      OBVIOUS
    <3> HIDE DEF told
    <3> QED
      BY <1>8, <1>11, <3>1, JoinIs
  <2>2. Len(known) + Len(four) = n
    <3>1. Len(known) = m + Len(three) /\ Len(four) = Len(fs)
      BY <1>5, <1>11
    <3>2. Len(three) = IF isDue THEN 1 ELSE 0
      BY <1>7
    <3>3. m \in Nat /\ Len(fs) \in Nat /\ (~isDue => Len(fs) = 0)
      BY <1>4, <1>5, <1>9
    <3>4. CASE isDue
      BY <3>1, <3>2, <3>3, <3>4
    <3>5. CASE ~isDue
      BY <3>1, <3>2, <3>3, <3>5
    <3> QED
      BY <3>4, <3>5
  <2> QED
    BY <2>1, <2>2
<1> HIDE DEF told
<1>13. n \in Nat /\ m <= n
  BY <1>4, <1>5
<1>14. /\ events \in Seq(EventType)
       /\ \A k \in DOMAIN events : \/ k \in DOMAIN told /\ events[k] = told[k]
                                   \/ k - n \in DOMAIN five /\ k > n /\ events[k] = five[k - n]
  <2> HIDE DEF n
  <2> QED
    BY <1>3, <1>8, <1>12, JoinIs
<1>15. ASSUME NEW k \in DOMAIN events PROVE Placed(events[k], k, m, n, rising)
  <2>1. CASE k \in DOMAIN told /\ events[k] = told[k]
    <3>1. k \in Nat /\ k <= n
      BY <1>12, <1>13, <2>1
    <3>2. CASE k \in DOMAIN known /\ told[k] = known[k]
      <4>1. CASE k \in DOMAIN head /\ known[k] = head[k]
        <5>1. events[k].type \in Verdict /\ k <= m
          BY <1>4, <2>1, <3>2, <4>1
        <5> HIDE DEF n
        <5> QED
          BY <1>4, <3>1, <5>1 DEF Placed
      <4>2. CASE k - m \in DOMAIN three /\ k > m /\ known[k] = three[k - m]
        <5>1. isDue /\ k - m = 1
          BY <1>4, <1>7, <3>1, <4>2
        <5>2. events[k].type = "reconciliation" /\ k = m + 1
          BY <1>4, <1>7, <2>1, <3>1, <3>2, <4>2, <5>1
        <5> HIDE DEF n
        <5> QED
          BY <1>4, <3>1, <5>2 DEF Placed
      <4> QED
        BY <1>11, <3>2, <4>1, <4>2
    <3>3. CASE k - Len(known) \in DOMAIN four /\ k > Len(known) /\ told[k] = four[k - Len(known)]
      <4>1. events[k].type = "fill"
        BY <1>8, <2>1, <3>3
      <4>2. isDue /\ Len(known) = m + 1
        BY <1>5, <1>7, <1>9, <1>11, <3>3
      <4> HIDE DEF n
      <4> QED
        BY <1>4, <3>1, <3>3, <4>1, <4>2 DEF Placed
    <3> QED
      BY <1>12, <2>1, <3>2, <3>3
  <2>2. CASE k - n \in DOMAIN five /\ k > n /\ events[k] = five[k - n]
    <3>1. events[k].type = "belief" /\ \E j \in DOMAIN ss : events[k].belief = ss[j]
      <4> DEFINE j == k - n
      <4>1. j \in DOMAIN five /\ events[k] = five[j] /\ j \in DOMAIN ss
        BY <1>6, <2>2
      <4> HIDE DEF j
      <4>2. events[k].belief = ss[j]
        BY <1>6, <4>1
      <4> QED
        BY <1>8, <4>1, <4>2
    <3>2. k \in Nat
      BY <1>14
    <3> HIDE DEF n
    <3> QED
      BY <1>4, <1>13, <2>2, <3>1, <3>2 DEF Placed, Announced
  <2> QED
    BY <1>14, <2>1, <2>2
<1> QED
  BY <1>4, <1>13, <1>15 DEF InPlace

\* Nothing but a position that cannot be closed keeps a cycle that knows its prices
\* from ending, so the fills and beliefs that wait for it are worked off.
THEOREM OnlyPoisonBlocksHolds == Spec => []OnlyPoisonBlocks
<1>1. IInv => OnlyPoisonBlocks
  <2> SUFFICES ASSUME IInv, ~Poisoned, NEW in \in CycleInputs, in.prices = Pairs,
                      NEW verdict \in IF in.guarding THEN Verdicts(bot) ELSE {Holding},
                      NEW expired \in IF in.guarding THEN Windows(bot) ELSE {NoId}
               PROVE  CycleOf(in.prices, in.guarding, verdict, expired, in.balances, in.gain).ok
    BY DEF OnlyPoisonBlocks
  <2> DEFINE rising == \/ bot.beliefs[Doge] = "bullish"
                       \/ \E j \in DOMAIN signals : signals[j] = [pair |-> Doge, direction |-> "bullish"]
             events == Events(bot, verdict, expired, due, in.balances, fills, signals)
  <2>1. TypeOK /\ (fills # <<>> => due)
    BY DEF IInv, FillsDue
  <2>2. /\ bot \in BotType /\ fills \in Seq(FillType) /\ signals \in Seq(SignalType) /\ due \in BOOLEAN
        /\ in.gain \in Int /\ in.balances \in [usd : Int, doge : Int]
        /\ verdict \in [DOMAIN bot.positions -> {"hold", "stop", "target"}] /\ expired \in Ids
    BY <2>1, InputsTyped DEF TypeOK
  <2>3. Clear(bot, rising)
    BY DEF Poisoned, Clear
  <2>4. rising \in BOOLEAN /\ (Announced(signals) => rising)
    BY DEF Announced
  <2> HIDE DEF rising
  <2>5. InPlace(events, rising)
    <3> DEFINE wallet == in.balances
    <3>1. events = Events(bot, verdict, expired, due, wallet, fills, signals)
      OBVIOUS
    <3>2. wallet \in [usd : Int, doge : Int]
      BY <2>2
    <3> HIDE DEF events, wallet
    <3> QED
      BY <2>1, <2>2, <2>4, <3>1, <3>2, EventsPlaced
  <2>6. events \in Seq(EventType)
    BY <2>2, EventsTyped
  <2> HIDE DEF events
  <2>7. Cycle(bot, events, in.prices, in.gain).ok
    BY <2>2, <2>3, <2>4, <2>5, <2>6, PairsAssumption, ClearCycle DEF InPlace
  <2>8. MissingPrices(bot, in.prices) = {}
    <3>1. \A i \in DOMAIN bot.positions : bot.positions[i] \in PositionType
      BY <2>2 DEF BotType
    <3> QED
      BY <3>1 DEF MissingPrices, PositionType
  <2> QED
    BY <2>7, <2>8 DEF CycleOf, events
<1> QED
  BY <1>1, Invariance, PTL

=============================================================================
