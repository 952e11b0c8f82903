---------------------------- MODULE LibraryProofs ----------------------------
(***************************************************************************)
(* The smaller parts of the library, each for any threads, names and       *)
(* addresses, by an inductive invariant of its own.                        *)
(***************************************************************************)
EXTENDS MCLibrary, ListLemmas, FiniteSetTheorems, WellFoundedInduction, TLAPS

\* A step is one of a part, and leaves the others as they are.
LEMMA OnePartMoves ==
  ASSUME [Next]_vars
  PROVE  /\ SizesNext \/ UNCHANGED sizeVars
         /\ L!LibNext \/ UNCHANGED library
         /\ T!TimersNext \/ UNCHANGED timers
         /\ D!DirNext \/ UNCHANGED directory
         /\ W!WinNext \/ UNCHANGED winAlarms
         /\ X!SlotsNext \/ X!CancelsNext \/ UNCHANGED data
         /\ A!AtomNext \/ UNCHANGED atomics
         /\ N!MarksNext \/ UNCHANGED marks
         /\ P!WaitNext \/ UNCHANGED waits
  BY DEF Next, OnSizes, OnLibrary, OnStrings, OnConfig, OnTimers, OnDirectory, OnAlarms,
     OnAtomics, OnSlots, OnPoints, OnMarks, OnWaits, vars
\* A set of numbers has a least one.
LEMMA Least ==
  ASSUME NEW S_ \in SUBSET Nat, S_ # {}
  PROVE  \E m_ \in S_ : \A k_ \in S_ : m_ <= k_
  <1>. DEFINE R_ == OpToRel(<, Nat)
  <1>1. IsWellFoundedOn(R_, Nat)
    BY NatLessThanWellFounded
  <1>2. \A x_, y_ \in Nat : x_ < y_ => <<x_, y_>> \in R_
    BY DEF OpToRel
  <1>. HIDE DEF R_
  <1>3. PICK m_ \in S_ : \A k_ \in S_ : ~(<<k_, m_>> \in R_)
    BY <1>1, WFMin
  <1>4. ASSUME NEW k_ \in S_
        PROVE  m_ <= k_
    <2>1. k_ \in Nat /\ m_ \in Nat /\ ~(k_ < m_)
      BY <1>2, <1>3
    <2>. QED
      BY <2>1
  <1>. QED
    BY <1>4
-----------------------------------------------------------------------------
(* Atomic numbers: while a thread has the lock of the number, the value it *)
(* has read is the number.                                                 *)

AtomInv ==
  /\ A!AtomicsSound
  /\ op = [t \in Workers |-> op[t]]
  /\ \A t \in Workers : op[t] # NoOp => op[t].read = number /\ holder = t

LEMMA AtomInitHolds == A!AtomInit => AtomInv
  BY DEF A!AtomInit, AtomInv, A!AtomicsSound

LEMMA AtomStepHolds ==
  ASSUME AtomInv, A!AtomNext
  PROVE  AtomInv'
  <1>. USE LibraryAssumption DEF AtomInv, A!AtomicsSound
  <1>1. ASSUME NEW t \in Workers, A!Begin(t)
        PROVE  AtomInv'
    BY <1>1 DEF A!Begin
  <1>2. ASSUME NEW t \in Workers, A!End(t)
        PROVE  AtomInv'
    <2>1. op[t].read = total /\ \A u \in Workers \ {t} : op[u] = NoOp
      BY <1>2 DEF A!End
    <2>. QED
      BY <1>2, <2>1 DEF A!End
  <1>. QED
    BY <1>1, <1>2 DEF A!AtomNext

LEMMA AtomNextHolds ==
  ASSUME AtomInv, [Next]_vars
  PROVE  AtomInv'
  <1>1. A!AtomNext \/ UNCHANGED atomics
    BY OnePartMoves
  <1>2. UNCHANGED atomics => AtomInv'
    BY DEF atomics, AtomInv, A!AtomicsSound
  <1>. QED
    BY <1>1, <1>2, AtomStepHolds

THEOREM AtomsAreSound == Spec => []A!AtomicsSound
  <1>1. Init => AtomInv
    BY AtomInitHolds DEF Init
  <1>2. AtomInv => A!AtomicsSound
    BY DEF AtomInv
  <1>. QED
    BY <1>1, <1>2, AtomNextHolds, PTL DEF Spec
-----------------------------------------------------------------------------
(* Alarms of Windows: who has a timer of the system that must be deleted.  *)

WinIds == TimerIds \cup {NoTimer}

WinShape ==
  /\ alarms \in Seq(Addresses) /\ IsInjective(alarms)
  /\ alarm \in [Addresses -> [repeat : BOOLEAN, timer : WinIds, handle : Clients \cup {W!Blank.handle}]]
  /\ made \in [Clients -> [alarm : Addresses \cup {NoAlarm}, timer : WinIds, repeat : BOOLEAN,
                           gone : BOOLEAN]]
  /\ step \in [Clients -> {"out", "in", "count", "last", "make", "store"}]
  /\ osTimers \subseteq [id : TimerIds, alarm : Addresses, once : BOOLEAN, fired : BOOLEAN]
  /\ wrappers \subseteq [of : TimerIds, alarm : Addresses, timer : WinIds, at : {"find", "call"}]

Exists(id) == \E k \in osTimers : k.id = id

\* A timer that an alarm, a maker or a firing has is there.
TimersExist ==
  /\ \A a \in Addresses : alarm[a].timer # NoTimer => a \in Range(alarms) /\ Exists(alarm[a].timer)
  /\ \A t \in Clients : made[t].timer # NoTimer => step[t] = "store" /\ Exists(made[t].timer)
  /\ \A w \in wrappers : w.timer # NoTimer => w.at = "call" /\ Exists(w.timer)

\* No two of them have the same one.
TimersApart ==
  /\ \A k, l \in osTimers : k.id = l.id => k = l
  /\ \A a, b \in Addresses : alarm[a].timer = alarm[b].timer => a = b \/ alarm[a].timer = NoTimer
  /\ \A t, u \in Clients : made[t].timer = made[u].timer => t = u \/ made[t].timer = NoTimer
  /\ \A v, w \in wrappers : v.timer = w.timer => v = w \/ w.timer = NoTimer
  /\ \A a \in Addresses, t \in Clients : alarm[a].timer = made[t].timer => made[t].timer = NoTimer
  /\ \A a \in Addresses, w \in wrappers : alarm[a].timer = w.timer => w.timer = NoTimer
  /\ \A t \in Clients, w \in wrappers : made[t].timer = w.timer => w.timer = NoTimer

\* An alarm that is still being made is listed and has no timer, unless one
\* that was lost was stored there; whoever else makes it has lost it.
MakersKnow ==
  /\ \A t \in Clients :
       IF step[t] \in {"make", "store"}
       THEN /\ made[t].alarm \in Addresses
            /\ ~made[t].gone => /\ made[t].alarm \in Range(alarms)
                                /\ alarm[made[t].alarm].timer \in {NoTimer} \cup lost
       ELSE made[t] = W!NotMade
  /\ \A t, u \in Clients :
       made[t].alarm = made[u].alarm /\ made[t].alarm # NoAlarm /\ ~made[t].gone /\ ~made[u].gone
         => t = u

TimersKept == \A k \in osTimers : W!Kept(k)

WinInv == WinShape /\ TimersExist /\ TimersApart /\ MakersKnow /\ TimersKept

\* The lists of this part are those of the lemmas.
LEMMA WinLists ==
  /\ \A f : W!Range(f) = Range(f)
  /\ \A f : W!IsInjective(f) <=> IsInjective(f)
  /\ \A places : W!InOrder(places) = InOrder(places)
  /\ \A s, x : W!Without(s, x) = Without(s, x)
  <1>1. \A dom, ran : W!Bijection(dom, ran) = Bijection(dom, ran)
    BY DEF W!Bijection, Bijection, W!Injection, Injection, W!Surjection, Surjection,
       W!IsInjective, IsInjective
  <1>2. \A s, n : W!RemoveAt(s, n) = RemoveAt(s, n)
    BY DEF W!RemoveAt, RemoveAt
  <1>3. \A places : W!InOrder(places) = InOrder(places)
    <2>1. \A dom : W!Cardinality(dom) = Cardinality(dom)
      BY DEF W!Cardinality, Cardinality
    <2>. QED
      BY <1>1, <2>1 DEF W!InOrder, InOrder
  <1>4. \A s, x : W!Without(s, x) = Without(s, x)
    BY <1>2 DEF W!Without, Without
  <1>5. \A f : (W!Range(f) = Range(f)) /\ (W!IsInjective(f) <=> IsInjective(f))
    BY DEF W!Range, Range, W!IsInjective, IsInjective
  <1>. QED
    BY <1>3, <1>4, <1>5

LEMMA WinInitHolds == W!WinInit => WinInv
  <1>. SUFFICES ASSUME W!WinInit
                PROVE  WinInv
    OBVIOUS
  <1>. USE DEF W!WinInit, W!Blank, W!NotMade
  <1>1. WinShape
    BY DEF WinShape, WinIds, IsInjective
  <1>2. TimersExist
    BY DEF TimersExist
  <1>3. TimersApart
    BY DEF TimersApart
  <1>4. MakersKnow
    BY LibraryAssumption DEF MakersKnow
  <1>5. TimersKept
    BY DEF TimersKept
  <1>. QED
    BY <1>1, <1>2, <1>3, <1>4, <1>5 DEF WinInv

LEMMA WinInvSuffices == WinInv => WinAlarmsSound
  <1>. SUFFICES ASSUME WinInv
                PROVE  WinAlarmsSound
    OBVIOUS
  <1>1. \A a \in Range(alarms) : a \in Addresses
    BY DEF WinInv, WinShape, Range
  <1>. QED
    BY <1>1, WinLists DEF WinInv, WinShape, WinAlarmsSound, W!WinAlarmsSound, TimersKept, TimersExist, Exists,
       W!Listed

\* What unlinking alarms leaves.
LEMMA UnlinkActs ==
  ASSUME WinShape, NEW gone, W!Unlinked(gone)
  PROVE  /\ alarms' \in Seq(Addresses) /\ IsInjective(alarms')
         /\ Range(alarms') = Range(alarms) \ gone
         /\ alarm' = [a \in Addresses |-> IF a \in gone THEN W!Blank ELSE alarm[a]]
         /\ made' = [t \in Clients |-> [made[t] EXCEPT !.gone = @ \/ made[t].alarm \in gone]]
  <1>. DEFINE places == {k \in DOMAIN alarms : alarms[k] \notin gone}
  <1>1. PICK at_ \in InOrder(places) : alarms' = [k \in DOMAIN at_ |-> alarms[at_[k]]]
    BY WinLists DEF W!Unlinked
  <1>2. places \in SUBSET DOMAIN alarms /\ at_ \in Bijection(1 .. Cardinality(places), places)
    BY DEF InOrder
  <1>. HIDE DEF places
  <1>. DEFINE picked == [k \in DOMAIN at_ |-> alarms[at_[k]]]
  <1>3. picked \in Seq(Addresses) /\ IsInjective(picked) /\ Range(picked) = {alarms[k] : k \in places}
    <2>1. alarms \in Seq(Addresses) /\ IsInjective(alarms)
      BY DEF WinShape
    <2>. QED
      BY <1>2, <2>1, PickedOut
  <1>4. {alarms[k] : k \in places} = Range(alarms) \ gone
    BY DEF places, Range
  <1>. HIDE DEF picked
  <1>. QED
    BY <1>1, <1>3, <1>4 DEF W!Unlinked, picked

\* Nobody begins or ends the making of an alarm.
MakersStay ==
  /\ step' \in [Clients -> {"out", "in", "count", "last", "make", "store"}]
  /\ \A t \in Clients : step'[t] # step[t] => {step[t], step'[t]} \cap {"make", "store"} = {}

\* What an unlinking does to the makers of alarms.
LEMMA UnlinkMade ==
  ASSUME WinShape, NEW gone, W!Unlinked(gone)
  PROVE  /\ made' \in [Clients -> [alarm : Addresses \cup {NoAlarm}, timer : WinIds, repeat : BOOLEAN,
                                   gone : BOOLEAN]]
         /\ \A t \in Clients : /\ made'[t].alarm = made[t].alarm /\ made'[t].timer = made[t].timer
                               /\ made'[t].gone <=> made[t].gone \/ made[t].alarm \in gone
                               /\ made[t].alarm \notin gone => made'[t] = made[t]
  <1>1. made' = [t \in Clients |-> [made[t] EXCEPT !.gone = @ \/ made[t].alarm \in gone]]
    BY DEF W!Unlinked
  <1>2. ASSUME NEW t \in Clients
        PROVE  /\ made'[t] \in [alarm : Addresses \cup {NoAlarm}, timer : WinIds, repeat : BOOLEAN,
                                gone : BOOLEAN]
               /\ made'[t].alarm = made[t].alarm /\ made'[t].timer = made[t].timer
               /\ made'[t].gone <=> made[t].gone \/ made[t].alarm \in gone
               /\ made[t].alarm \notin gone => made'[t] = made[t]
    <2>. DEFINE g == made[t].gone \/ made[t].alarm \in gone
    <2>1. /\ made[t] \in [alarm : Addresses \cup {NoAlarm}, timer : WinIds, repeat : BOOLEAN,
                          gone : BOOLEAN]
          /\ made'[t] = [made[t] EXCEPT !.gone = g]
      BY <1>1 DEF WinShape
    <2>2. g \in BOOLEAN /\ (made[t].alarm \notin gone => g = made[t].gone)
      BY <2>1
    <2>. HIDE DEF g
    <2>3. /\ made'[t] \in [alarm : Addresses \cup {NoAlarm}, timer : WinIds, repeat : BOOLEAN,
                           gone : BOOLEAN]
          /\ made'[t].alarm = made[t].alarm /\ made'[t].timer = made[t].timer
          /\ made'[t].gone = g
          /\ g = made[t].gone => made'[t] = made[t]
      BY <2>1, <2>2
    <2>. QED
      BY <2>2, <2>3 DEF g
  <1>. QED
    BY <1>1, <1>2

LEMMA RemoveHolds ==
  ASSUME WinInv, NEW some, W!removeAlarm(some), UNCHANGED <<lost, wrappers>>, MakersStay
  PROVE  WinInv'
  <1>. DEFINE gone == some \cap Range(alarms)
  <1>1. W!Unlinked(gone) /\ osTimers' = {k \in osTimers : k.id \notin {alarm[a].timer : a \in gone}}
    BY WinLists DEF W!removeAlarm, W!DeleteTimers, W!Listed
  <1>. HIDE DEF gone
  <1>2. WinShape /\ TimersExist /\ TimersApart /\ MakersKnow /\ TimersKept
    BY DEF WinInv
  <1>3. /\ alarms' \in Seq(Addresses) /\ IsInjective(alarms') /\ Range(alarms') = Range(alarms) \ gone
        /\ alarm' = [a \in Addresses |-> IF a \in gone THEN W!Blank ELSE alarm[a]]
    BY <1>1, <1>2, UnlinkActs
  <1>4. /\ made' \in [Clients -> [alarm : Addresses \cup {NoAlarm}, timer : WinIds, repeat : BOOLEAN,
                                  gone : BOOLEAN]]
        /\ \A t \in Clients : /\ made'[t].alarm = made[t].alarm /\ made'[t].timer = made[t].timer
                              /\ made'[t].gone <=> made[t].gone \/ made[t].alarm \in gone
                              /\ made[t].alarm \notin gone => made'[t] = made[t]
    BY <1>1, <1>2, UnlinkMade
  <1>5. /\ osTimers' \subseteq osTimers
        /\ \A k \in osTimers : (\A a \in gone : alarm[a].timer # k.id) => k \in osTimers'
        /\ \A k \in osTimers' : \A a \in gone : alarm[a].timer # k.id
    BY <1>1
  <1>6. gone \subseteq Addresses
    BY <1>2 DEF gone, WinShape, Range
  <1>7. \A a \in Addresses : alarm'[a].timer = IF a \in gone THEN NoTimer ELSE alarm[a].timer
    BY <1>3 DEF W!Blank
  <1>8. lost' = lost /\ wrappers' = wrappers
    OBVIOUS
  <1>9. WinShape'
    <2>1. alarm' \in [Addresses -> [repeat : BOOLEAN, timer : WinIds, handle : Clients \cup {W!Blank.handle}]]
      BY <1>2, <1>3 DEF WinShape, W!Blank, WinIds
    <2>. QED
      BY <1>2, <1>3, <1>4, <1>5, <1>8, <2>1 DEF WinShape, MakersStay
  <1>10. TimersExist'
    <2>1. ASSUME NEW a \in Addresses, alarm'[a].timer # NoTimer
          PROVE  a \in Range(alarms') /\ \E k \in osTimers' : k.id = alarm'[a].timer
      <3>1. a \notin gone /\ alarm'[a].timer = alarm[a].timer /\ alarm[a].timer # NoTimer
        BY <1>7, <2>1
      <3>2. a \in Range(alarms) /\ \E k \in osTimers : k.id = alarm[a].timer
        BY <1>2, <3>1 DEF TimersExist, Exists
      <3>3. \A b \in gone : alarm[b].timer # alarm[a].timer
        BY <1>2, <1>6, <3>1 DEF TimersApart
      <3>. QED
        BY <1>3, <1>5, <3>1, <3>2, <3>3
    <2>2. ASSUME NEW t \in Clients, made'[t].timer # NoTimer
          PROVE  step'[t] = "store" /\ \E k \in osTimers' : k.id = made'[t].timer
      <3>1. /\ step[t] = "store" /\ made'[t].timer = made[t].timer
            /\ \E k \in osTimers : k.id = made[t].timer
        BY <1>2, <1>4, <2>2 DEF TimersExist, Exists
      <3>2. step'[t] = "store"
        BY <3>1 DEF MakersStay
      <3>3. \A b \in gone : alarm[b].timer # made[t].timer
        BY <1>2, <1>6, <2>2, <3>1 DEF TimersApart
      <3>. QED
        BY <1>5, <3>1, <3>2, <3>3
    <2>3. ASSUME NEW w \in wrappers, w.timer # NoTimer
          PROVE  w.at = "call" /\ \E k \in osTimers' : k.id = w.timer
      <3>1. w.at = "call" /\ \E k \in osTimers : k.id = w.timer
        BY <1>2, <2>3 DEF TimersExist, Exists
      <3>2. \A b \in gone : alarm[b].timer # w.timer
        BY <1>2, <1>6, <2>3 DEF TimersApart
      <3>. QED
        BY <1>5, <3>1, <3>2
    <2>. QED
      BY <1>8, <2>1, <2>2, <2>3 DEF TimersExist, Exists
  <1>11. TimersApart'
    BY <1>2, <1>4, <1>5, <1>7, <1>8 DEF TimersApart
  <1>12. MakersKnow'
    <2>1. ASSUME NEW t \in Clients, step'[t] \in {"make", "store"}
          PROVE  /\ made'[t].alarm \in Addresses
                 /\ ~made'[t].gone => /\ made'[t].alarm \in Range(alarms')
                                      /\ alarm'[made'[t].alarm].timer \in {NoTimer} \cup lost'
      <3>1. step[t] \in {"make", "store"}
        BY <2>1 DEF MakersStay
      <3>. QED
        BY <1>2, <1>3, <1>4, <1>7, <1>8, <3>1 DEF MakersKnow
    <2>2. ASSUME NEW t \in Clients, step'[t] \notin {"make", "store"}
          PROVE  made'[t] = W!NotMade
      <3>1. made[t] = W!NotMade
        BY <1>2, <2>2 DEF MakersKnow, MakersStay
      <3>2. made[t].alarm \notin gone
        BY <1>6, <3>1, LibraryAssumption DEF W!NotMade
      <3>. QED
        BY <1>4, <3>1, <3>2
    <2>. QED
      BY <1>2, <1>4, <2>1, <2>2 DEF MakersKnow
  <1>13. TimersKept'
    <2>. SUFFICES ASSUME NEW k \in osTimers'
                  PROVE  W!Kept(k)'
      BY DEF TimersKept
    <2>1. k \in osTimers /\ \A a \in gone : alarm[a].timer # k.id
      BY <1>5
    <2>2. W!Kept(k)
      BY <1>2, <2>1 DEF TimersKept
    <2>3. ASSUME NEW a \in Range(alarms), alarm[a].timer = k.id
          PROVE  a \in Range(alarms') /\ alarm'[a].timer = k.id
      <3>1. a \notin gone /\ a \in Addresses
        BY <1>2, <2>1, <2>3 DEF WinShape, Range
      <3>. QED
        BY <1>3, <1>7, <2>3, <3>1
    <2>. QED
      BY <1>4, <1>8, <2>2, <2>3, WinLists DEF W!Kept, W!Listed
  <1>. QED
    BY <1>9, <1>10, <1>11, <1>12, <1>13 DEF WinInv

LEMMA StayHolds ==
  ASSUME WinInv, UNCHANGED <<alarms, alarm, osTimers, lost, wrappers, made>>, MakersStay
  PROVE  WinInv'
  <1>1. TimersKept'
    <2>. SUFFICES ASSUME NEW k \in osTimers
                  PROVE  W!Kept(k)'
      BY DEF TimersKept
    <2>1. W!Kept(k)
      BY DEF WinInv, TimersKept
    <2>. QED
      BY <2>1 DEF W!Kept, W!Listed
  <1>2. WinShape'
    BY DEF WinInv, WinShape, MakersStay
  <1>3. TimersExist'
    <2>1. \A t \in Clients : step[t] = "store" => step'[t] = "store"
      BY DEF MakersStay
    <2>. QED
      BY <2>1 DEF WinInv, TimersExist, Exists
  <1>4. TimersApart'
    BY DEF WinInv, TimersApart
  <1>5. MakersKnow'
    BY DEF WinInv, MakersKnow, MakersStay
  <1>. QED
    BY <1>1, <1>2, <1>3, <1>4, <1>5 DEF WinInv

LEMMA InsertHolds ==
  ASSUME WinInv, NEW t \in Clients, W!Insert(t)
  PROVE  WinInv'
  <1>. USE DEF W!Insert
  <1>1. WinShape /\ TimersExist /\ TimersApart /\ MakersKnow /\ TimersKept
    BY DEF WinInv
  <1>2. PICK a_ \in Addresses \ Range(alarms), r \in BOOLEAN :
          /\ alarms' = <<a_>> \o alarms
          /\ alarm' = [alarm EXCEPT ![a_] = [repeat |-> r, timer |-> NoTimer, handle |-> t]]
          /\ made' = [made EXCEPT ![t] = [alarm |-> a_, timer |-> NoTimer, repeat |-> r, gone |-> FALSE]]
    BY WinLists DEF W!Listed
  <1>3. step[t] = "in" /\ step' = [step EXCEPT ![t] = "make"]
    BY DEF W!Moves
  <1>4. osTimers' = osTimers /\ lost' = lost /\ wrappers' = wrappers
    OBVIOUS
  <1>5. alarms' \in Seq(Addresses) /\ IsInjective(alarms') /\ Range(alarms') = Range(alarms) \cup {a_}
    <2>1. alarms \in Seq(Addresses) /\ IsInjective(alarms) /\ ~Contains(alarms, a_)
      BY <1>1 DEF WinShape, Range, Contains
    <2>. HIDE DEF W!Insert
    <2>2. /\ alarms' \in Seq(Addresses) /\ IsInjective(alarms')
          /\ \A u : Contains(alarms', u) <=> u = a_ \/ Contains(alarms, u)
      BY <1>2, <2>1, FrontAdds
    <2>3. \A u : (Contains(alarms', u) <=> u \in Range(alarms')) /\ (Contains(alarms, u) <=> u \in Range(alarms))
      BY <2>1, <2>2 DEF Contains, Range
    <2>. QED
      BY <2>2, <2>3
  <1>6. \A b \in Addresses : alarm'[b] = IF b = a_ THEN [repeat |-> r, timer |-> NoTimer, handle |-> t]
                                                  ELSE alarm[b]
    BY <1>1, <1>2 DEF WinShape
  <1>7. \A u \in Clients : made'[u] = IF u = t THEN [alarm |-> a_, timer |-> NoTimer, repeat |-> r, gone |-> FALSE]
                                              ELSE made[u]
    BY <1>1, <1>2 DEF WinShape
  <1>8. \A u \in Clients : step'[u] = IF u = t THEN "make" ELSE step[u]
    BY <1>1, <1>3 DEF WinShape
  <1>9. WinShape'
    BY <1>1, <1>2, <1>3, <1>4, <1>5 DEF WinShape, WinIds
  <1>10. TimersExist'
    BY <1>1, <1>3, <1>4, <1>5, <1>6, <1>7, <1>8 DEF TimersExist, Exists
  <1>11. TimersApart'
    BY <1>1, <1>4, <1>6, <1>7 DEF TimersApart
  <1>12. MakersKnow'
    <2>1. ASSUME NEW u \in Clients, u # t
          PROVE  IF step'[u] \in {"make", "store"}
                 THEN /\ made'[u].alarm \in Addresses
                      /\ ~made'[u].gone => /\ made'[u].alarm \in Range(alarms')
                                           /\ made'[u].alarm # a_
                                           /\ alarm'[made'[u].alarm].timer \in {NoTimer} \cup lost'
                 ELSE made'[u] = W!NotMade
      BY <1>1, <1>4, <1>5, <1>6, <1>7, <1>8, <2>1 DEF MakersKnow
    <2>2. \A u \in Clients : u # t /\ ~made'[u].gone => made'[u].alarm # a_
      BY <2>1, <1>2, LibraryAssumption DEF W!NotMade
    <2>. QED
      BY <1>1, <1>5, <1>6, <1>7, <1>8, <2>1, <2>2 DEF MakersKnow
  <1>13. TimersKept'
    <2>. SUFFICES ASSUME NEW k \in osTimers
                  PROVE  W!Kept(k)'
      BY <1>4 DEF TimersKept
    <2>1. W!Kept(k)
      BY <1>1 DEF TimersKept
    <2>2. k.id # NoTimer
      BY <1>1, LibraryAssumption DEF WinShape
    <2>3. \A b \in Range(alarms) : b \in Addresses /\ b # a_
      BY <1>1, <1>2 DEF WinShape, Range
    <2>4. made[t].timer = NoTimer
      BY <1>1, <1>3 DEF TimersExist
    <2>. QED
      BY <1>4, <1>5, <1>6, <1>7, <2>1, <2>2, <2>3, <2>4, WinLists DEF W!Kept, W!Listed
  <1>. QED
    BY <1>9, <1>10, <1>11, <1>12, <1>13 DEF WinInv

LEMMA CreateTimerHolds ==
  ASSUME WinInv, NEW t \in Clients, W!CreateTimer(t)
  PROVE  WinInv'
  <1>. USE DEF W!CreateTimer
  <1>1. WinShape /\ TimersExist /\ TimersApart /\ MakersKnow /\ TimersKept
    BY DEF WinInv
  <1>2. PICK id \in TimerIds \ W!InUse :
          /\ osTimers' = osTimers \cup {[id |-> id, alarm |-> made[t].alarm,
                                         once |-> ~made[t].repeat, fired |-> FALSE]}
          /\ made' = [made EXCEPT ![t].timer = id]
    OBVIOUS
  <1>. DEFINE new == [id |-> id, alarm |-> made[t].alarm, once |-> ~made[t].repeat, fired |-> FALSE]
  <1>0. osTimers' = osTimers \cup {new} /\ new.id = id
    BY <1>2
  <1>. HIDE DEF new
  <1>3. step[t] = "make" /\ step' = [step EXCEPT ![t] = "store"]
    BY DEF W!Moves
  <1>4. alarms' = alarms /\ alarm' = alarm /\ lost' = lost /\ wrappers' = wrappers
    OBVIOUS
  <1>5. made[t].alarm \in Addresses /\ made[t].timer = NoTimer
    BY <1>1, <1>3 DEF MakersKnow, TimersExist
  <1>6. (\A k \in osTimers : k.id # id) /\ id # NoTimer /\ \A w \in wrappers : w.timer # id
    BY <1>2, LibraryAssumption DEF W!InUse
  <1>7. \A u \in Clients : /\ made'[u].alarm = made[u].alarm /\ made'[u].gone = made[u].gone
                           /\ made'[u].timer = IF u = t THEN id ELSE made[u].timer
                           /\ u # t => made'[u] = made[u]
    BY <1>1, <1>2 DEF WinShape
  <1>8. \A u \in Clients : step'[u] = IF u = t THEN "store" ELSE step[u]
    BY <1>1, <1>3 DEF WinShape
  <1>9. \E k \in osTimers' : k.id = id
    BY <1>0
  <1>10. \A k \in osTimers' : k \in osTimers \/ k.id = id
    BY <1>0
  <1>11. WinShape'
    <2>1. new \in [id : TimerIds, alarm : Addresses, once : BOOLEAN, fired : BOOLEAN]
      BY <1>1, <1>2, <1>5 DEF WinShape, new
    <2>. QED
      BY <1>0, <1>1, <1>2, <1>3, <1>4, <2>1 DEF WinShape, WinIds
  <1>12. TimersExist'
    BY <1>0, <1>1, <1>4, <1>7, <1>8, <1>9 DEF TimersExist, Exists
  <1>13. TimersApart'
    <2>1. \A k, l \in osTimers' : k.id = l.id => k = l
      BY <1>0, <1>1, <1>6 DEF TimersApart
    <2>2. (\A a_ \in Addresses : alarm[a_].timer # id) /\ \A u \in Clients : made[u].timer # id
      BY <1>1, <1>6 DEF TimersExist, Exists
    <2>. QED
      BY <1>1, <1>4, <1>6, <1>7, <2>1, <2>2 DEF TimersApart
  <1>14. MakersKnow'
    BY <1>1, <1>3, <1>4, <1>7, <1>8 DEF MakersKnow
  <1>15. TimersKept'
    <2>1. ASSUME NEW k \in osTimers
          PROVE  W!Kept(k)'
      <3>1. W!Kept(k) /\ k.id # NoTimer
        BY <1>1, LibraryAssumption DEF TimersKept, WinShape
      <3>. QED
        BY <3>1, <1>4, <1>5, <1>7 DEF W!Kept, W!Listed
    <2>2. ASSUME NEW k \in osTimers', k.id = id
          PROVE  W!Kept(k)'
      BY <2>2, <1>7 DEF W!Kept
    <2>. QED
      BY <2>1, <2>2, <1>10 DEF TimersKept
  <1>. QED
    BY <1>11, <1>12, <1>13, <1>14, <1>15 DEF WinInv

LEMMA StoreHolds ==
  ASSUME WinInv, NEW t \in Clients, W!Store(t)
  PROVE  WinInv'
  <1>. USE DEF W!Store
  <1>. DEFINE a_ == made[t].alarm
              id == made[t].timer
  <1>1. WinShape /\ TimersExist /\ TimersApart /\ MakersKnow /\ TimersKept
    BY DEF WinInv
  <1>2. step[t] = "store" /\ step' = [step EXCEPT ![t] = "in"]
    BY DEF W!Moves
  <1>3. alarms' = alarms /\ osTimers' = osTimers /\ wrappers' = wrappers
    OBVIOUS
  <1>4. /\ a_ \in Addresses /\ a_ # NoAlarm
        /\ ~made[t].gone => a_ \in Range(alarms) /\ alarm[a_].timer \in {NoTimer} \cup lost
    BY <1>1, <1>2, LibraryAssumption DEF MakersKnow
  <1>5. id # NoTimer => \E k \in osTimers : k.id = id
    BY <1>1 DEF TimersExist, Exists
  <1>6. \A u \in Clients : made'[u] = IF u = t THEN W!NotMade ELSE made[u]
    BY <1>1 DEF WinShape
  <1>7. \A u \in Clients : step'[u] = IF u = t THEN "in" ELSE step[u]
    BY <1>1, <1>2 DEF WinShape
  <1>8. /\ alarm' \in [Addresses -> [repeat : BOOLEAN, timer : WinIds, handle : Clients \cup {W!Blank.handle}]]
        /\ \A b \in Addresses : alarm'[b].timer = IF b = a_ /\ a_ \in Range(alarms) THEN id ELSE alarm[b].timer
    <2>1. id \in WinIds
      BY <1>1 DEF WinShape
    <2>. HIDE DEF a_, id
    <2>2. alarm' = IF a_ \in Range(alarms) THEN [alarm EXCEPT ![a_].timer = id] ELSE alarm
      BY WinLists DEF a_, id, W!Listed
    <2>3. alarm \in [Addresses -> [repeat : BOOLEAN, timer : WinIds, handle : Clients \cup {W!Blank.handle}]]
      BY <1>1 DEF WinShape
    <2>. HIDE DEF W!Store
    <2>. QED
      BY <1>4, <2>1, <2>2, <2>3
  <1>9. /\ ~made[t].gone => lost' = lost
        /\ \A k \in osTimers : k.id \in lost => k.id \in lost'
        /\ \A k \in osTimers : made[t].gone /\ k.id \in {id, alarm[a_].timer} => k.id \in lost'
    BY DEF W!Lost
  <1>. HIDE DEF a_, id
  <1>10. W!NotMade.timer = NoTimer /\ W!NotMade.alarm = NoAlarm
    BY DEF W!NotMade
  <1>11. WinShape'
    <2>1. W!NotMade \in [alarm : Addresses \cup {NoAlarm}, timer : WinIds, repeat : BOOLEAN, gone : BOOLEAN]
      BY DEF W!NotMade, WinIds
    <2>2. made' = [made EXCEPT ![t] = W!NotMade]
      OBVIOUS
    <2>3. made' \in [Clients -> [alarm : Addresses \cup {NoAlarm}, timer : WinIds, repeat : BOOLEAN,
                                 gone : BOOLEAN]]
      BY <1>1, <2>1, <2>2 DEF WinShape
    <2>. HIDE DEF W!Store
    <2>. QED
      BY <1>1, <1>2, <1>3, <1>8, <2>3 DEF WinShape
  <1>. HIDE DEF W!Store
  <1>12. TimersExist'
    BY <1>1, <1>3, <1>5, <1>6, <1>7, <1>8, <1>10 DEF TimersExist, Exists
  <1>13. TimersApart'
    BY <1>1, <1>3, <1>6, <1>8, <1>10 DEF TimersApart, id
  <1>14. MakersKnow'
    <2>1. ASSUME NEW u \in Clients, u # t, step[u] \in {"make", "store"}, ~made[u].gone
          PROVE  alarm'[made[u].alarm].timer \in {NoTimer} \cup lost'
      <3>1. /\ made[u].alarm \in Addresses /\ made[u].alarm \in Range(alarms)
            /\ alarm[made[u].alarm].timer \in {NoTimer} \cup lost
        BY <1>1, <2>1 DEF MakersKnow
      <3>2. CASE made[u].alarm # a_
        BY <1>1, <1>8, <1>9, <3>1, <3>2 DEF TimersExist, Exists
      <3>3. CASE made[u].alarm = a_
        <4>1. made[t].gone
          BY <1>1, <1>4, <2>1, <3>3 DEF MakersKnow, a_
        <4>. QED
          BY <1>5, <1>8, <1>9, <3>1, <3>3, <4>1
      <3>. QED
        BY <3>2, <3>3
    <2>2. \A v, w_ \in Clients : made'[v].alarm = made'[w_].alarm /\ made'[v].alarm # NoAlarm
                                /\ ~made'[v].gone /\ ~made'[w_].gone => v = w_
      BY <1>1, <1>6, <1>10 DEF MakersKnow
    <2>. QED
      BY <1>1, <1>3, <1>6, <1>7, <2>1, <2>2 DEF MakersKnow
  <1>15. TimersKept'
    <2>. SUFFICES ASSUME NEW k \in osTimers
                  PROVE  W!Kept(k)'
      BY <1>3 DEF TimersKept
    <2>1. W!Kept(k) /\ k.id # NoTimer
      BY <1>1, LibraryAssumption DEF TimersKept, WinShape
    <2>2. CASE \E b \in Range(alarms) : b # a_ /\ alarm[b].timer = k.id
      <3>1. PICK b \in Range(alarms) : b # a_ /\ alarm[b].timer = k.id
        BY <2>2
      <3>2. b \in Addresses
        BY <1>1 DEF WinShape, Range
      <3>. QED
        BY <1>3, <1>8, <3>1, <3>2, WinLists DEF W!Kept, W!Listed
    <2>3. CASE a_ \in Range(alarms) /\ alarm[a_].timer = k.id
      BY <1>4, <1>9, <2>1, <2>3 DEF W!Kept
    <2>4. CASE \E u \in Clients : u # t /\ made[u].timer = k.id
      BY <1>6, <2>4 DEF W!Kept
    <2>5. CASE id = k.id
      BY <1>3, <1>4, <1>8, <1>9, <2>5, WinLists DEF W!Kept, W!Listed
    <2>6. CASE k.id \in lost \/ \E w \in wrappers : w.timer = k.id
      BY <1>3, <1>9, <2>6 DEF W!Kept
    <2>. QED
      BY <2>1, <2>2, <2>3, <2>4, <2>5, <2>6, WinLists DEF W!Kept, W!Listed, id
  <1>. QED
    BY <1>11, <1>12, <1>13, <1>14, <1>15 DEF WinInv

LEMMA CreateFailsHolds ==
  ASSUME WinInv, NEW t \in Clients, W!CreateFails(t)
  PROVE  WinInv'
  <1>. USE DEF W!CreateFails
  <1>. DEFINE a_ == made[t].alarm
  <1>1. WinShape /\ TimersExist /\ TimersApart /\ MakersKnow /\ TimersKept
    BY DEF WinInv
  <1>2. step[t] = "make" /\ step' = [step EXCEPT ![t] = "in"]
    BY DEF W!Moves
  <1>3. osTimers' = osTimers /\ wrappers' = wrappers
    OBVIOUS
  <1>4. /\ a_ \in Addresses /\ a_ # NoAlarm
        /\ ~made[t].gone => a_ \in Range(alarms) /\ alarm[a_].timer \in {NoTimer} \cup lost
    BY <1>1, <1>2, LibraryAssumption DEF MakersKnow
  <1>5. made[t].timer = NoTimer
    BY <1>1, <1>2 DEF TimersExist
  <1>6. alarms' \in Seq(Addresses) /\ IsInjective(alarms') /\ Range(alarms') = Range(alarms) \ {a_}
    <2>1. alarms' = Without(alarms, a_) /\ alarms \in Seq(Addresses) /\ IsInjective(alarms)
      BY <1>1, WinLists DEF WinShape
    <2>. HIDE DEF W!CreateFails, a_
    <2>2. CASE Contains(alarms, a_)
      <3>1. /\ alarms' \in Seq(Addresses) /\ IsInjective(alarms')
            /\ \A u : Contains(alarms', u) <=> u # a_ /\ Contains(alarms, u)
        BY <2>1, <2>2, WithoutRemoves
      <3>2. \A u : (Contains(alarms', u) <=> u \in Range(alarms')) /\ (Contains(alarms, u) <=> u \in Range(alarms))
        BY <2>1, <3>1 DEF Contains, Range
      <3>. QED
        BY <3>1, <3>2
    <2>3. CASE ~Contains(alarms, a_)
      BY <2>1, <2>3 DEF Without, Contains, Range
    <2>. QED
      BY <2>2, <2>3
  <1>7. alarm' = [alarm EXCEPT ![a_] = W!Blank]
    OBVIOUS
  <1>8. /\ made' \in [Clients -> [alarm : Addresses \cup {NoAlarm}, timer : WinIds, repeat : BOOLEAN,
                                  gone : BOOLEAN]]
        /\ made'[t] = W!NotMade
        /\ \A u \in Clients \ {t} : /\ made'[u].alarm = made[u].alarm /\ made'[u].timer = made[u].timer
                                    /\ made'[u].gone <=> made[u].gone \/ made[u].alarm = a_
                                    /\ made[u].alarm # a_ => made'[u] = made[u]
    <2>1. ASSUME NEW u \in Clients, u # t
          PROVE  /\ made'[u] \in [alarm : Addresses \cup {NoAlarm}, timer : WinIds, repeat : BOOLEAN,
                                  gone : BOOLEAN]
                 /\ made'[u].alarm = made[u].alarm /\ made'[u].timer = made[u].timer
                 /\ made'[u].gone <=> made[u].gone \/ made[u].alarm = a_
                 /\ made[u].alarm # a_ => made'[u] = made[u]
      <3>. DEFINE g == made[u].gone \/ made[u].alarm = a_
      <3>1. /\ made[u] \in [alarm : Addresses \cup {NoAlarm}, timer : WinIds, repeat : BOOLEAN,
                            gone : BOOLEAN]
            /\ made'[u] = [made[u] EXCEPT !.gone = g]
        BY <1>1, <2>1 DEF WinShape
      <3>2. g \in BOOLEAN /\ (made[u].alarm # a_ => g = made[u].gone)
        BY <3>1
      <3>. HIDE DEF g, W!CreateFails, a_
      <3>3. /\ made'[u] \in [alarm : Addresses \cup {NoAlarm}, timer : WinIds, repeat : BOOLEAN,
                             gone : BOOLEAN]
            /\ made'[u].alarm = made[u].alarm /\ made'[u].timer = made[u].timer
            /\ made'[u].gone = g
            /\ g = made[u].gone => made'[u] = made[u]
        BY <3>1, <3>2
      <3>. QED
        BY <3>2, <3>3 DEF g
    <2>2. W!NotMade \in [alarm : Addresses \cup {NoAlarm}, timer : WinIds, repeat : BOOLEAN, gone : BOOLEAN]
      BY DEF W!NotMade, WinIds
    <2>3. made' = [u \in Clients |-> made'[u]] /\ made'[t] = W!NotMade
      OBVIOUS
    <2>. HIDE DEF W!CreateFails, a_
    <2>. QED
      BY <2>1, <2>2, <2>3
  <1>9. /\ ~made[t].gone => lost' = lost
        /\ \A k \in osTimers : k.id \in lost => k.id \in lost'
        /\ \A k \in osTimers : made[t].gone /\ k.id = alarm[a_].timer => k.id \in lost'
    BY DEF W!Lost
  <1>. HIDE DEF a_, W!CreateFails
  <1>10. W!NotMade.timer = NoTimer /\ W!NotMade.alarm = NoAlarm
    BY DEF W!NotMade
  <1>11. \A b \in Addresses : alarm'[b].timer = IF b = a_ THEN NoTimer ELSE alarm[b].timer
    BY <1>1, <1>7 DEF WinShape, W!Blank
  <1>12. \A u \in Clients : step'[u] = IF u = t THEN "in" ELSE step[u]
    BY <1>1, <1>2 DEF WinShape
  <1>13. WinShape'
    <2>1. W!Blank \in [repeat : BOOLEAN, timer : WinIds, handle : Clients \cup {W!Blank.handle}]
      BY DEF W!Blank, WinIds
    <2>. QED
      BY <1>1, <1>2, <1>3, <1>6, <1>7, <1>8, <2>1 DEF WinShape
  <1>14. \A u \in Clients : made'[u].timer = made[u].timer
    BY <1>5, <1>8, <1>10
  <1>15. TimersExist'
    BY <1>1, <1>2, <1>3, <1>6, <1>11, <1>12, <1>14 DEF TimersExist, Exists
  <1>16. TimersApart'
    BY <1>1, <1>3, <1>11, <1>14 DEF TimersApart
  <1>17. MakersKnow'
    <2>1. ASSUME NEW u \in Clients, u # t, step[u] \in {"make", "store"}
          PROVE  /\ made'[u].alarm \in Addresses
                 /\ ~made'[u].gone => /\ made'[u].alarm \in Range(alarms')
                                      /\ alarm'[made'[u].alarm].timer \in {NoTimer} \cup lost'
      BY <1>1, <1>6, <1>8, <1>9, <1>11, <2>1 DEF MakersKnow, TimersExist, Exists
    <2>2. ASSUME NEW u \in Clients, u # t, step[u] \notin {"make", "store"}
          PROVE  made'[u] = W!NotMade
      <3>1. made[u] = W!NotMade
        BY <1>1, <2>2 DEF MakersKnow
      <3>. QED
        BY <1>4, <1>8, <1>10, <2>2, <3>1
    <2>3. \A v, w_ \in Clients : made'[v].alarm = made'[w_].alarm /\ made'[v].alarm # NoAlarm
                                /\ ~made'[v].gone /\ ~made'[w_].gone => v = w_
      BY <1>1, <1>8, <1>10 DEF MakersKnow
    <2>. QED
      BY <1>8, <1>12, <2>1, <2>2, <2>3 DEF MakersKnow
  <1>18. TimersKept'
    <2>. SUFFICES ASSUME NEW k \in osTimers
                  PROVE  W!Kept(k)'
      BY <1>3 DEF TimersKept
    <2>1. W!Kept(k) /\ k.id # NoTimer
      BY <1>1, LibraryAssumption DEF TimersKept, WinShape
    <2>2. CASE \E b \in Range(alarms) : b # a_ /\ alarm[b].timer = k.id
      <3>1. PICK b \in Range(alarms) : b # a_ /\ alarm[b].timer = k.id
        BY <2>2
      <3>2. b \in Addresses
        BY <1>1 DEF WinShape, Range
      <3>3. b \in Range(alarms')
        BY <1>6, <3>1
      <3>. QED
        BY <1>11, <3>1, <3>2, <3>3, WinLists DEF W!Kept, W!Listed
    <2>3. CASE alarm[a_].timer = k.id
      BY <1>4, <1>9, <2>1, <2>3 DEF W!Kept
    <2>4. CASE \E u \in Clients : made[u].timer = k.id
      BY <1>14, <2>4 DEF W!Kept
    <2>5. CASE k.id \in lost \/ \E w \in wrappers : w.timer = k.id
      BY <1>3, <1>9, <2>5 DEF W!Kept
    <2>. QED
      BY <2>1, <2>2, <2>3, <2>4, <2>5, WinLists DEF W!Kept, W!Listed
  <1>. QED
    BY <1>13, <1>15, <1>16, <1>17, <1>18 DEF WinInv

LEMMA FireHolds ==
  ASSUME WinInv, W!Fire
  PROVE  WinInv'
  <1>1. WinShape /\ TimersExist /\ TimersApart /\ MakersKnow /\ TimersKept
    BY DEF WinInv
  <1>2. PICK k_ \in osTimers :
          /\ wrappers' = wrappers \cup {[of |-> k_.id, alarm |-> k_.alarm, timer |-> NoTimer, at |-> "find"]}
          /\ osTimers' = (osTimers \ {k_}) \cup {[k_ EXCEPT !.fired = k_.once]}
    BY DEF W!Fire
  <1>3. /\ alarms' = alarms /\ alarm' = alarm /\ lost' = lost /\ made' = made /\ step' = step
    BY DEF W!Fire
  <1>. DEFINE new == [of |-> k_.id, alarm |-> k_.alarm, timer |-> NoTimer, at |-> "find"]
              fired == [k_ EXCEPT !.fired = k_.once]
  <1>4. /\ new.timer = NoTimer /\ fired.id = k_.id
        /\ new \in [of : TimerIds, alarm : Addresses, timer : WinIds, at : {"find", "call"}]
        /\ fired \in [id : TimerIds, alarm : Addresses, once : BOOLEAN, fired : BOOLEAN]
    BY <1>1 DEF WinShape, WinIds
  <1>5. wrappers' = wrappers \cup {new} /\ osTimers' = (osTimers \ {k_}) \cup {fired}
    BY <1>2
  <1>. HIDE DEF new, fired
  <1>6. \A i_ : (\E k \in osTimers : k.id = i_) => \E k \in osTimers' : k.id = i_
    BY <1>4, <1>5
  <1>7. WinShape'
    BY <1>1, <1>3, <1>4, <1>5 DEF WinShape
  <1>8. TimersExist'
    BY <1>1, <1>3, <1>4, <1>5, <1>6 DEF TimersExist, Exists
  <1>9. TimersApart'
    <2>1. \A k, l \in osTimers' : k.id = l.id => k = l
      BY <1>1, <1>4, <1>5 DEF TimersApart
    <2>. QED
      BY <1>1, <1>3, <1>4, <1>5, <2>1 DEF TimersApart
  <1>10. MakersKnow'
    BY <1>1, <1>3 DEF MakersKnow
  <1>11. TimersKept'
    <2>. SUFFICES ASSUME NEW k \in osTimers'
                  PROVE  W!Kept(k)'
      BY DEF TimersKept
    <2>1. PICK l \in osTimers : l.id = k.id
      BY <1>4, <1>5
    <2>2. W!Kept(l)
      BY <1>1 DEF TimersKept
    <2>. QED
      BY <1>3, <1>5, <2>1, <2>2 DEF W!Kept, W!Listed
  <1>. QED
    BY <1>7, <1>8, <1>9, <1>10, <1>11 DEF WinInv

LEMMA FindHolds ==
  ASSUME WinInv, W!Find
  PROVE  WinInv'
  <1>1. WinShape /\ TimersExist /\ TimersApart /\ MakersKnow /\ TimersKept
    BY DEF WinInv
  <1>2. PICK v \in wrappers :
          LET a == v.alarm  once == a \in W!Listed /\ ~alarm[a].repeat IN
          /\ v.at = "find"
          /\ W!Unlinked(IF once THEN {a} ELSE {})
          /\ wrappers' = (wrappers \ {v}) \cup
                         {[v EXCEPT !.at = "call", !.timer = IF once THEN W!Taken(a) ELSE NoTimer]}
    BY DEF W!Find
  <1>3. osTimers' = osTimers /\ lost' = lost /\ step' = step
    BY DEF W!Find
  <1>. DEFINE a_ == v.alarm
              once_ == a_ \in Range(alarms) /\ ~alarm[a_].repeat
              gone == IF once_ THEN {a_} ELSE {}
              id == IF once_ THEN alarm[a_].timer ELSE NoTimer
              new == [v EXCEPT !.at = "call", !.timer = id]
  <1>4. v.at = "find" /\ W!Unlinked(gone) /\ wrappers' = (wrappers \ {v}) \cup {new}
    BY <1>2, WinLists DEF W!Listed, W!Taken
  <1>5. v \in [of : TimerIds, alarm : Addresses, timer : WinIds, at : {"find", "call"}] /\ a_ \in Addresses
    BY <1>1 DEF WinShape
  <1>6. /\ id \in WinIds /\ gone \subseteq Range(alarms) /\ gone \subseteq Addresses
        /\ gone # {} => gone = {a_} /\ id = alarm[a_].timer
        /\ gone = {} => id = NoTimer
    <2>1. alarm[a_].timer \in WinIds /\ NoTimer \in WinIds
      BY <1>1, <1>5 DEF WinShape, WinIds
    <2>. HIDE DEF a_
    <2>. QED
      BY <1>5, <2>1 DEF a_
  <1>. HIDE DEF once_, gone, id
  <1>7. new.timer = id /\ new.at = "call" /\ new \in [of : TimerIds, alarm : Addresses, timer : WinIds, at : {"find", "call"}]
    BY <1>5, <1>6
  <1>. HIDE DEF new, a_
  <1>8. /\ alarms' \in Seq(Addresses) /\ IsInjective(alarms') /\ Range(alarms') = Range(alarms) \ gone
        /\ alarm' = [a \in Addresses |-> IF a \in gone THEN W!Blank ELSE alarm[a]]
    BY <1>1, <1>4, UnlinkActs
  <1>9. /\ made' \in [Clients -> [alarm : Addresses \cup {NoAlarm}, timer : WinIds, repeat : BOOLEAN,
                                  gone : BOOLEAN]]
        /\ \A t \in Clients : /\ made'[t].alarm = made[t].alarm /\ made'[t].timer = made[t].timer
                              /\ made'[t].gone <=> made[t].gone \/ made[t].alarm \in gone
                              /\ made[t].alarm \notin gone => made'[t] = made[t]
    BY <1>1, <1>4, UnlinkMade
  <1>10. \A a \in Addresses : alarm'[a].timer = IF a \in gone THEN NoTimer ELSE alarm[a].timer
    BY <1>8 DEF W!Blank
  <1>11. v.timer = NoTimer
    BY <1>1, <1>4 DEF TimersExist
  <1>12. WinShape'
    <2>1. alarm' \in [Addresses -> [repeat : BOOLEAN, timer : WinIds, handle : Clients \cup {W!Blank.handle}]]
      BY <1>1, <1>8 DEF WinShape, W!Blank, WinIds
    <2>. QED
      BY <1>1, <1>3, <1>4, <1>7, <1>8, <1>9, <2>1 DEF WinShape
  <1>13. TimersExist'
    <2>1. id # NoTimer => \E k \in osTimers : k.id = id
      BY <1>1, <1>5, <1>6 DEF TimersExist, Exists
    <2>. QED
      BY <1>1, <1>3, <1>4, <1>7, <1>8, <1>9, <1>10, <2>1 DEF TimersExist, Exists
  <1>14. TimersApart'
    <2>1. \A w \in wrappers : w.timer = id => id = NoTimer
      BY <1>1, <1>5, <1>6 DEF TimersApart
    <2>2. \A t \in Clients : made[t].timer = id => id = NoTimer
      BY <1>1, <1>5, <1>6 DEF TimersApart
    <2>3. \A b \in Addresses : alarm'[b].timer = id => id = NoTimer
      BY <1>1, <1>5, <1>6, <1>10 DEF TimersApart
    <2>4. \A w \in wrappers' : w = new \/ w \in wrappers
      BY <1>4
    <2>. QED
      BY <1>1, <1>3, <1>7, <1>9, <1>10, <2>1, <2>2, <2>3, <2>4 DEF TimersApart
  <1>15. MakersKnow'
    <2>1. ASSUME NEW t \in Clients, step[t] \in {"make", "store"}
          PROVE  /\ made'[t].alarm \in Addresses
                 /\ ~made'[t].gone => /\ made'[t].alarm \in Range(alarms')
                                      /\ alarm'[made'[t].alarm].timer \in {NoTimer} \cup lost'
      BY <1>1, <1>3, <1>8, <1>9, <1>10, <2>1 DEF MakersKnow
    <2>2. ASSUME NEW t \in Clients, step[t] \notin {"make", "store"}
          PROVE  made'[t] = W!NotMade
      <3>1. made[t] = W!NotMade
        BY <1>1, <2>2 DEF MakersKnow
      <3>2. made[t].alarm \notin gone
        BY <1>6, <3>1, LibraryAssumption DEF W!NotMade
      <3>. QED
        BY <1>9, <3>1, <3>2
    <2>. QED
      BY <1>1, <1>3, <1>9, <2>1, <2>2 DEF MakersKnow
  <1>16. TimersKept'
    <2>. SUFFICES ASSUME NEW k \in osTimers
                  PROVE  W!Kept(k)'
      BY <1>3 DEF TimersKept
    <2>1. W!Kept(k) /\ k.id # NoTimer
      BY <1>1, LibraryAssumption DEF TimersKept, WinShape
    <2>2. ASSUME NEW b \in Range(alarms), alarm[b].timer = k.id
          PROVE  W!Kept(k)'
      <3>1. b \in Addresses
        BY <1>1 DEF WinShape, Range
      <3>2. CASE b \in gone
        BY <1>4, <1>6, <1>7, <2>2, <3>2 DEF W!Kept
      <3>3. CASE b \notin gone
        BY <1>8, <1>10, <2>2, <3>1, <3>3, WinLists DEF W!Kept, W!Listed
      <3>. QED
        BY <3>2, <3>3
    <2>3. ASSUME NEW w \in wrappers, w.timer = k.id
          PROVE  W!Kept(k)'
      BY <1>4, <1>11, <2>1, <2>3 DEF W!Kept
    <2>. QED
      BY <1>3, <1>9, <2>1, <2>2, <2>3, WinLists DEF W!Kept, W!Listed
  <1>. QED
    BY <1>12, <1>13, <1>14, <1>15, <1>16 DEF WinInv

LEMMA CallHolds ==
  ASSUME WinInv, W!Call
  PROVE  WinInv'
  <1>1. WinShape /\ TimersExist /\ TimersApart /\ MakersKnow /\ TimersKept
    BY DEF WinInv
  <1>2. PICK v \in wrappers : /\ osTimers' = {k \in osTimers : k.id \notin {v.timer}}
                              /\ wrappers' = wrappers \ {v}
    BY DEF W!Call, W!DeleteTimers
  <1>3. /\ alarms' = alarms /\ alarm' = alarm /\ lost' = lost /\ made' = made /\ step' = step
    BY DEF W!Call
  <1>4. \A k : k \in osTimers' <=> k \in osTimers /\ k.id # v.timer
    BY <1>2
  <1>5. /\ \A a_ \in Addresses : alarm[a_].timer # NoTimer => alarm[a_].timer # v.timer
        /\ \A t \in Clients : made[t].timer # NoTimer => made[t].timer # v.timer
        /\ \A w \in wrappers' : w.timer # NoTimer => w.timer # v.timer
    BY <1>1, <1>2 DEF TimersApart
  <1>6. WinShape'
    BY <1>1, <1>2, <1>3 DEF WinShape
  <1>7. TimersExist'
    BY <1>1, <1>2, <1>3, <1>4, <1>5 DEF TimersExist, Exists
  <1>8. TimersApart'
    BY <1>1, <1>2, <1>3, <1>4 DEF TimersApart
  <1>9. MakersKnow'
    BY <1>1, <1>3 DEF MakersKnow
  <1>10. TimersKept'
    <2>. SUFFICES ASSUME NEW k \in osTimers'
                  PROVE  W!Kept(k)'
      BY DEF TimersKept
    <2>1. W!Kept(k) /\ k.id # v.timer
      BY <1>1, <1>4 DEF TimersKept
    <2>. QED
      BY <1>2, <1>3, <2>1 DEF W!Kept, W!Listed
  <1>. QED
    BY <1>6, <1>7, <1>8, <1>9, <1>10 DEF WinInv

LEMMA WinStepHolds ==
  ASSUME WinInv, W!WinNext
  PROVE  WinInv'
  <1>1. step \in [Clients -> {"out", "in", "count", "last", "make", "store"}]
    BY DEF WinInv, WinShape
  <1>2. ASSUME NEW t \in Clients, W!Open(t) \/ W!CountOut(t)
        PROVE  WinInv'
    <2>1. MakersStay
      BY <1>1, <1>2 DEF W!Open, W!CountOut, W!Moves, MakersStay
    <2>2. UNCHANGED <<alarms, alarm, osTimers, lost, wrappers, made>>
      BY <1>2 DEF W!Open, W!CountOut
    <2>. QED
      BY <2>1, <2>2, StayHolds
  <1>3. ASSUME NEW t \in Clients, W!Shutdown(t) \/ W!CloseLast(t) \/ W!Destroy(t)
        PROVE  WinInv'
    <2>1. MakersStay
      BY <1>1, <1>3 DEF W!Shutdown, W!CloseLast, W!Destroy, W!Moves, MakersStay
    <2>2. UNCHANGED <<lost, wrappers>> /\ \E some : W!removeAlarm(some)
      BY <1>3 DEF W!Shutdown, W!CloseLast, W!Destroy
    <2>. QED
      BY <2>1, <2>2, RemoveHolds
  <1>4. ASSUME NEW t \in Clients, W!Client(t)
        PROVE  WinInv'
    BY <1>2, <1>3, <1>4, InsertHolds, CreateTimerHolds, StoreHolds, CreateFailsHolds DEF W!Client
  <1>. QED
    BY <1>4, FireHolds, FindHolds, CallHolds DEF W!WinNext

LEMMA WinNextHolds ==
  ASSUME WinInv, [Next]_vars
  PROVE  WinInv'
  <1>1. W!WinNext \/ UNCHANGED winAlarms
    BY OnePartMoves
  <1>2. CASE UNCHANGED winAlarms
    <2>1. MakersStay
      BY <1>2 DEF winAlarms, MakersStay, WinInv, WinShape
    <2>. QED
      BY <1>2, <2>1, StayHolds DEF winAlarms
  <1>. QED
    BY <1>1, <1>2, WinStepHolds

\* No timer of the system is forgotten, whoever makes, finds or destroys the
\* alarm, and no listed alarm has a timer that is gone.
THEOREM WinAlarmsAreSound == Spec => []WinAlarmsSound
  <1>1. Init => WinInv
    BY WinInitHolds DEF Init
  <1>. QED
    BY <1>1, WinNextHolds, WinInvSuffices, PTL DEF Spec
-----------------------------------------------------------------------------
(* What a thread carries: a slot has the name it was given.                *)

SlotsInv ==
  /\ userRegistration \in [X!SlotIds -> Labels \cup {NoLabel}]
  /\ first \in [Labels -> X!SlotIds \cup {MaxData}]
  /\ userData \in [Owners \cup Groups -> [X!SlotIds -> Data \cup {NoData}]]
  /\ X!SlotsSound

LEMMA SlotsInitHolds == X!DataInit => SlotsInv
  <1>. SUFFICES ASSUME X!DataInit
                PROVE  SlotsInv
    OBVIOUS
  <1>1. \A n \in Labels : X!Registered(n) = {}
    BY LibraryAssumption DEF X!DataInit, X!Registered
  <1>. QED
    BY <1>1 DEF X!DataInit, SlotsInv, X!SlotsSound

LEMMA RegisterHolds ==
  ASSUME SlotsInv, NEW n \in Labels, X!RegisterData(n)
  PROVE  SlotsInv'
  <1>. USE LibraryAssumption DEF SlotsInv
  <1>1. PICK s \in X!SlotFor(n) :
          /\ userRegistration' = [userRegistration EXCEPT ![s] = n]
          /\ first' = [first EXCEPT ![n] = IF @ = MaxData THEN s ELSE @]
    BY DEF X!RegisterData
  <1>2. userData' = userData
    BY DEF X!RegisterData
  <1>3. s \in X!SlotIds /\ MaxData \notin X!SlotIds
    BY DEF X!SlotFor, X!Registered, X!SlotIds
  <1>4. /\ \A r \in X!SlotIds : userRegistration'[r] = IF r = s THEN n ELSE userRegistration[r]
        /\ \A m \in Labels : first'[m] = IF m = n /\ first[n] = MaxData THEN s ELSE first[m]
    BY <1>1, <1>3
  <1>5. userRegistration' \in [X!SlotIds -> Labels \cup {NoLabel}] /\ first' \in [Labels -> X!SlotIds \cup {MaxData}]
    BY <1>1, <1>3
  <1>6. CASE first[n] # MaxData
    <2>1. X!Registered(n) = {first[n]}
      BY <1>6 DEF X!SlotsSound
    <2>2. s = first[n] /\ userRegistration[s] = n
      BY <2>1 DEF X!SlotFor, X!Registered
    <2>3. userRegistration' = userRegistration /\ first' = first
      BY <1>1, <1>3, <1>6, <2>2
    <2>. QED
      BY <1>2, <2>3 DEF X!SlotsSound, X!Registered
  <1>7. CASE first[n] = MaxData
    <2>1. X!Registered(n) = {}
      BY <1>7 DEF X!SlotsSound
    <2>2. userRegistration[s] = NoLabel
      BY <2>1 DEF X!SlotFor, X!Registered
    <2>3. ASSUME NEW m \in Labels
          PROVE  X!Registered(m)' = IF first'[m] = MaxData THEN {} ELSE {first'[m]}
      <3>1. CASE m # n
        <4>1. X!Registered(m)' = X!Registered(m)
          BY <1>3, <1>4, <2>2, <3>1 DEF X!Registered
        <4>. QED
          BY <1>4, <3>1, <4>1 DEF X!SlotsSound
      <3>2. CASE m = n
        <4>1. \A r \in X!SlotIds : userRegistration[r] # n
          BY <2>1 DEF X!Registered
        <4>2. X!Registered(n)' = {s}
          BY <1>3, <1>4, <4>1 DEF X!Registered
        <4>. QED
          BY <1>3, <1>4, <1>7, <3>2, <4>2
      <3>. QED
        BY <3>1, <3>2
    <2>4. \A o \in Owners \cup Groups, r \in X!SlotIds :
            userData'[o][r] # NoData => userRegistration'[r] # NoLabel
      BY <1>2, <1>4 DEF X!SlotsSound
    <2>. QED
      BY <1>2, <1>5, <2>3, <2>4 DEF X!SlotsSound
  <1>. QED
    BY <1>6, <1>7

LEMMA SetDataHolds ==
  ASSUME SlotsInv, NEW o \in Owners \cup Groups, NEW s \in X!SlotIds, NEW d \in Data, X!Store(o, s, d)
  PROVE  SlotsInv'
  <1>. USE DEF SlotsInv
  <1>1. /\ userRegistration[s] # NoLabel /\ userData' = [userData EXCEPT ![o][s] = d]
        /\ userRegistration' = userRegistration /\ first' = first
    BY DEF X!Store, X!ValidateSlot
  <1>2. /\ userData' \in [Owners \cup Groups -> [X!SlotIds -> Data \cup {NoData}]]
        /\ \A u \in Owners \cup Groups, r \in X!SlotIds :
             userData'[u][r] = IF u = o /\ r = s THEN d ELSE userData[u][r]
    BY <1>1
  <1>3. \A n \in Labels : X!Registered(n)' = X!Registered(n)
    BY <1>1 DEF X!Registered
  <1>. QED
    BY <1>1, <1>2, <1>3 DEF X!SlotsSound

LEMMA SlotsNextHolds ==
  ASSUME SlotsInv, [Next]_vars
  PROVE  SlotsInv'
  <1>1. UNCHANGED <<userRegistration, userData, first>> => SlotsInv'
    BY DEF SlotsInv, X!SlotsSound, X!Registered
  <1>2. X!SlotsNext => SlotsInv'
    BY RegisterHolds, SetDataHolds DEF X!SlotsNext, X!SetData, X!GroupSetData
  <1>3. X!CancelsNext => UNCHANGED <<userRegistration, userData, first>>
    BY DEF X!CancelsNext, X!CancelInit, X!CancelDestroy, X!BeginCancel, X!CancelNext, X!SlotsUnchanged
  <1>4. X!SlotsNext \/ X!CancelsNext \/ UNCHANGED data
    BY OnePartMoves
  <1>. QED
    BY <1>1, <1>2, <1>3, <1>4 DEF data

\* The cancel points: a walk has looked at the points behind it, and the
\* innermost point of a thread comes first of those of the thread.

PointsShape ==
  /\ cancelList \in Seq(Points) /\ IsInjective(cancelList)
  /\ stack \in [Owners -> Seq(Points)] /\ \A t \in Owners : IsInjective(stack[t])
  /\ point \in [Points -> [thread : Owners \cup {NoOwner}, cancelled : BOOLEAN,
                           context : Contexts \cup {NoContext}]]
  /\ due \in [Points -> Contexts \cup {NoContext}]

StacksListed ==
  /\ \A t, u \in Owners : \A p \in Points : Contains(stack[t], p) /\ Contains(stack[u], p) => t = u
  /\ \A p \in Points : Contains(cancelList, p) <=> \E t \in Owners : Contains(stack[t], p)
  /\ \A t \in Owners : \A p \in Points : Contains(stack[t], p) => point[p].thread = t
  /\ \A t \in Owners : \A p, q \in Points : Before(stack[t], p, q) => Before(cancelList, p, q)

DueKept ==
  /\ \A p \in Points : ~Contains(cancelList, p) => due[p] = NoContext
  /\ \A p \in Points : Contains(cancelList, p) /\ point[p].cancelled => due[p] # NoContext

AtRest ==
  /\ walk = X!Idle
  /\ \A p \in Points : Contains(cancelList, p) => point[p].context = due[p]

UnderWay ==
  /\ walk \in [thread : Owners \cup {NoOwner}, context : Contexts, todo : Seq(Points), half : BOOLEAN]
  /\ walk.todo # <<>> /\ Len(walk.todo) <= Len(cancelList)
  /\ \A i \in DOMAIN walk.todo : walk.todo[i] = cancelList[i + Len(cancelList) - Len(walk.todo)]
  /\ \A p \in X!Meant(walk.thread) : due[p] = walk.context
  /\ \A p \in Points : Contains(cancelList, p) =>
       point[p].context = due[p] \/ (p \in X!Meant(walk.thread) /\ Contains(walk.todo, p))
  /\ walk.thread # NoOwner => \A p \in X!Meant(walk.thread) : Contains(walk.todo, p)
  /\ walk.half => Head(walk.todo) \in X!Meant(walk.thread)

PointsInv == PointsShape /\ StacksListed /\ DueKept /\ (AtRest \/ UnderWay)

\* The lists of this part are those of the lemmas.
LEMMA DataLists ==
  /\ \A f : X!Range(f) = Range(f)
  /\ \A f : X!IsInjective(f) <=> IsInjective(f)
  /\ \A s, x : X!Contains(s, x) <=> Contains(s, x)
  /\ \A s, x : X!Without(s, x) = Without(s, x)
  <1>1. \A s, n : X!RemoveAt(s, n) = RemoveAt(s, n)
    BY DEF X!RemoveAt, RemoveAt
  <1>2. \A s, x : X!Without(s, x) = Without(s, x)
    BY <1>1 DEF X!Without, Without
  <1>3. \A f : (X!Range(f) = Range(f)) /\ (X!IsInjective(f) <=> IsInjective(f))
    BY DEF X!Range, Range, X!IsInjective, IsInjective
  <1>4. \A s, x : X!Contains(s, x) <=> Contains(s, x)
    BY DEF X!Contains, Contains
  <1>. QED
    BY <1>2, <1>3, <1>4

LEMMA OnList ==
  ASSUME NEW set, NEW s \in Seq(set)
  PROVE  \A x : x \in Range(s) <=> Contains(s, x)
  BY DEF Range, Contains

LEMMA PointsInitHolds == X!DataInit => PointsInv
  <1>. SUFFICES ASSUME X!DataInit
                PROVE  PointsInv
    OBVIOUS
  <1>. USE DEF X!DataInit, Contains
  <1>1. PointsShape
    BY DEF PointsShape, IsInjective, X!NoPoint
  <1>2. StacksListed
    BY DEF StacksListed, Before
  <1>3. DueKept /\ AtRest
    BY DEF DueKept, AtRest
  <1>. QED
    BY <1>1, <1>2, <1>3 DEF PointsInv

LEMMA PointsInvSuffices == SlotsInv /\ PointsInv => ThreadDataSound
  <1>. SUFFICES ASSUME SlotsInv, PointsInv
                PROVE  ThreadDataSound
    OBVIOUS
  <1>1. PointsShape /\ StacksListed /\ DueKept
    BY DEF PointsInv
  <1>2. \A p : p \in Range(cancelList) <=> Contains(cancelList, p)
    BY <1>1, OnList DEF PointsShape
  <1>3. \A p : Contains(cancelList, p) => p \in Points
    BY <1>1 DEF PointsShape, Contains
  <1>4. \A t \in Owners : \A p : (p \in Range(stack[t]) <=> Contains(stack[t], p)) /\ (Contains(stack[t], p) => p \in Points)
    BY <1>1 DEF PointsShape, Contains, Range
  <1>5. Range(cancelList) = UNION {Range(stack[t]) : t \in Owners}
    BY <1>1, <1>2, <1>3, <1>4 DEF StacksListed
  <1>6. X!Unlocked => AtRest
    BY LibraryAssumption DEF PointsInv, X!Unlocked, UnderWay, X!Idle
  <1>7. X!PointsSound
    BY <1>1, <1>2, <1>3, <1>5, <1>6, DataLists DEF X!PointsSound, PointsShape, DueKept, AtRest
  <1>. QED
    BY <1>7 DEF SlotsInv, ThreadDataSound, X!ThreadDataSound

\* Whom a call is for: points that are listed, and of one thread the first of its.
LEMMA MeantListed ==
  ASSUME PointsShape, StacksListed
  PROVE  /\ \A p : p \in X!Meant(NoOwner) <=> Contains(cancelList, p)
         /\ \A t \in Owners : \A p \in X!Meant(t) : Contains(stack[t], p)
         /\ \A t \in Owners : \A p : Contains(stack[t], p) => p \in Points /\ Contains(cancelList, p)
         /\ \A t \in Owners : \A p : Contains(stack[t], p) /\ p \notin X!Meant(t)
              => \E q \in X!Meant(t) : Before(stack[t], q, p)
  <1>1. \A p : Contains(cancelList, p) => p \in Points
    BY DEF PointsShape, Contains
  <1>2. ASSUME NEW t \in Owners
        PROVE  stack[t] \in Seq(Points)
    BY DEF PointsShape
  <1>3. \A t \in Owners : \A p : (p \in Range(stack[t]) <=> Contains(stack[t], p)) /\ (Contains(stack[t], p) => p \in Points)
    BY <1>2 DEF Contains, Range
  <1>4. \A t \in Owners : \A p : Contains(stack[t], p) => p \in Points /\ Contains(cancelList, p)
    BY <1>3 DEF StacksListed
  <1>5. \A p : p \in X!Meant(NoOwner) <=> \E t \in Owners : Contains(stack[t], p)
    <2>1. X!Meant(NoOwner) = UNION {Range(stack[u]) : u \in Owners}
      BY DataLists DEF X!Meant
    <2>. QED
      BY <1>3, <2>1
  <1>6. \A p : p \in X!Meant(NoOwner) <=> Contains(cancelList, p)
    BY <1>1, <1>4, <1>5 DEF StacksListed
  <1>7. ASSUME NEW t \in Owners
        PROVE  /\ \A p \in X!Meant(t) : Contains(stack[t], p)
               /\ \A p : Contains(stack[t], p) /\ p \notin X!Meant(t) => \E q \in X!Meant(t) : Before(stack[t], q, p)
    <2>1. X!Meant(t) = IF stack[t] = <<>> THEN {} ELSE {Head(stack[t])}
      BY LibraryAssumption DEF X!Meant
    <2>2. CASE stack[t] = <<>>
      BY <2>1, <2>2 DEF Contains
    <2>3. CASE stack[t] # <<>>
      <3>1. X!Meant(t) = {stack[t][1]} /\ 1 \in 1 .. Len(stack[t])
        BY <1>2, <2>1, <2>3
      <3>2. ASSUME NEW i \in 1 .. Len(stack[t]), stack[t][i] # stack[t][1]
            PROVE  Before(stack[t], stack[t][1], stack[t][i])
        <4>1. 1 < i
          BY <1>2, <3>2
        <4>. QED
          BY <3>1, <4>1 DEF Before
      <3>. QED
        BY <3>1, <3>2 DEF Contains
    <2>. QED
      BY <2>2, <2>3
  <1>. QED
    BY <1>4, <1>6, <1>7

LEMMA CancelInitHolds ==
  ASSUME PointsInv, NEW t \in Owners, NEW p_ \in Points, X!CancelInit(t, p_)
  PROVE  PointsInv'
  <1>1. PointsShape /\ StacksListed /\ DueKept
    BY DEF PointsInv
  <1>2. AtRest
    BY LibraryAssumption DEF PointsInv, X!CancelInit, X!Unlocked, UnderWay, X!Idle
  <1>3. /\ \A u \in Owners : ~Contains(stack[u], p_)
        /\ point' = [point EXCEPT ![p_] = [thread |-> t, cancelled |-> FALSE, context |-> NoContext]]
        /\ cancelList' = <<p_>> \o cancelList /\ stack' = [stack EXCEPT ![t] = <<p_>> \o @]
        /\ walk' = walk /\ due' = due
    BY DataLists DEF X!CancelInit, X!Linked
  <1>4. ~Contains(cancelList, p_)
    BY <1>1, <1>3 DEF StacksListed
  <1>5. cancelList \in Seq(Points) /\ IsInjective(cancelList)
    BY <1>1 DEF PointsShape
  <1>6. /\ cancelList' \in Seq(Points) /\ IsInjective(cancelList')
        /\ \A q : Contains(cancelList', q) <=> q = p_ \/ Contains(cancelList, q)
    BY <1>3, <1>4, <1>5, FrontAdds
  <1>7. \A q, r : Before(cancelList', q, r) <=> (q = p_ /\ Contains(cancelList, r)) \/ Before(cancelList, q, r)
    BY <1>3, <1>5, FrontBefore
  <1>8. stack[t] \in Seq(Points) /\ IsInjective(stack[t]) /\ stack'[t] = <<p_>> \o stack[t]
    BY <1>1, <1>3 DEF PointsShape
  <1>9. /\ stack'[t] \in Seq(Points) /\ IsInjective(stack'[t])
        /\ \A q : Contains(stack'[t], q) <=> q = p_ \/ Contains(stack[t], q)
    BY <1>3, <1>8, FrontAdds
  <1>10. \A q, r : Before(stack'[t], q, r) <=> (q = p_ /\ Contains(stack[t], r)) \/ Before(stack[t], q, r)
    BY <1>8, FrontBefore
  <1>11. \A u \in Owners \ {t} : stack'[u] = stack[u]
    BY <1>1, <1>3 DEF PointsShape
  <1>12. \A q \in Points : /\ q # p_ => point'[q] = point[q]
                           /\ point'[p_].thread = t /\ point'[p_].cancelled = FALSE
                           /\ point'[p_].context = NoContext
    BY <1>1, <1>3 DEF PointsShape
  <1>13. PointsShape'
    <2>1. stack' \in [Owners -> Seq(Points)] /\ \A u \in Owners : IsInjective(stack'[u])
      BY <1>1, <1>3, <1>9, <1>11 DEF PointsShape
    <2>2. point' \in [Points -> [thread : Owners \cup {NoOwner}, cancelled : BOOLEAN,
                                 context : Contexts \cup {NoContext}]]
      BY <1>1, <1>3 DEF PointsShape
    <2>. QED
      BY <1>1, <1>3, <1>6, <2>1, <2>2 DEF PointsShape
  <1>14. StacksListed'
    <2>1. \A u, v \in Owners : \A q \in Points : Contains(stack'[u], q) /\ Contains(stack'[v], q) => u = v
      BY <1>1, <1>3, <1>9, <1>11 DEF StacksListed
    <2>2. \A q \in Points : Contains(cancelList', q) <=> \E u \in Owners : Contains(stack'[u], q)
      BY <1>1, <1>6, <1>9, <1>11 DEF StacksListed
    <2>3. \A u \in Owners : \A q \in Points : Contains(stack'[u], q) => point'[q].thread = u
      BY <1>1, <1>3, <1>9, <1>11, <1>12 DEF StacksListed
    <2>4. \A u \in Owners : \A q, r \in Points : Before(stack'[u], q, r) => Before(cancelList', q, r)
      BY <1>1, <1>7, <1>10, <1>11 DEF StacksListed
    <2>. QED
      BY <2>1, <2>2, <2>3, <2>4 DEF StacksListed
  <1>15. DueKept'
    BY <1>1, <1>3, <1>6, <1>12 DEF DueKept
  <1>16. AtRest'
    BY <1>1, <1>2, <1>3, <1>4, <1>6, <1>12 DEF AtRest, DueKept
  <1>. QED
    BY <1>13, <1>14, <1>15, <1>16 DEF PointsInv

LEMMA CancelDestroyHolds ==
  ASSUME PointsInv, NEW t \in Owners, NEW p_ \in Points, X!CancelDestroy(t, p_)
  PROVE  PointsInv'
  <1>1. PointsShape /\ StacksListed /\ DueKept
    BY DEF PointsInv
  <1>2. AtRest
    BY LibraryAssumption DEF PointsInv, X!CancelDestroy, X!Unlocked, UnderWay, X!Idle
  <1>3. /\ Contains(stack[t], p_)
        /\ cancelList' = Without(cancelList, p_) /\ stack' = [stack EXCEPT ![t] = Without(@, p_)]
        /\ point' = [point EXCEPT ![p_].thread = NoOwner, ![p_].context = NoContext]
        /\ due' = [due EXCEPT ![p_] = NoContext] /\ walk' = walk
    BY DataLists DEF X!CancelDestroy
  <1>4. Contains(cancelList, p_) /\ \A u \in Owners \ {t} : ~Contains(stack[u], p_)
    BY <1>1, <1>3 DEF StacksListed
  <1>5. cancelList \in Seq(Points) /\ IsInjective(cancelList)
    BY <1>1 DEF PointsShape
  <1>6. /\ cancelList' \in Seq(Points) /\ IsInjective(cancelList')
        /\ \A q : Contains(cancelList', q) <=> q # p_ /\ Contains(cancelList, q)
    BY <1>3, <1>4, <1>5, WithoutRemoves
  <1>7. \A q, r : Before(cancelList', q, r) <=> q # p_ /\ r # p_ /\ Before(cancelList, q, r)
    BY <1>3, <1>4, <1>5, WithoutBefore
  <1>8. stack[t] \in Seq(Points) /\ IsInjective(stack[t]) /\ stack'[t] = Without(stack[t], p_)
    BY <1>1, <1>3 DEF PointsShape
  <1>9. /\ stack'[t] \in Seq(Points) /\ IsInjective(stack'[t])
        /\ \A q : Contains(stack'[t], q) <=> q # p_ /\ Contains(stack[t], q)
    BY <1>3, <1>8, WithoutRemoves
  <1>10. \A q, r : Before(stack'[t], q, r) <=> q # p_ /\ r # p_ /\ Before(stack[t], q, r)
    BY <1>3, <1>8, WithoutBefore
  <1>11. \A u \in Owners \ {t} : stack'[u] = stack[u]
    BY <1>1, <1>3 DEF PointsShape
  <1>12. \A q \in Points \ {p_} : point'[q] = point[q] /\ due'[q] = due[q]
    BY <1>1, <1>3 DEF PointsShape
  <1>13. due'[p_] = NoContext
    BY <1>1, <1>3 DEF PointsShape
  <1>14. PointsShape'
    <2>1. stack' \in [Owners -> Seq(Points)] /\ \A u \in Owners : IsInjective(stack'[u])
      BY <1>1, <1>3, <1>9, <1>11 DEF PointsShape
    <2>2. point' \in [Points -> [thread : Owners \cup {NoOwner}, cancelled : BOOLEAN,
                                 context : Contexts \cup {NoContext}]]
      BY <1>1, <1>3 DEF PointsShape
    <2>3. due' \in [Points -> Contexts \cup {NoContext}]
      BY <1>1, <1>3 DEF PointsShape
    <2>. QED
      BY <1>6, <2>1, <2>2, <2>3 DEF PointsShape
  <1>15. StacksListed'
    <2>1. \A u, v \in Owners : \A q \in Points : Contains(stack'[u], q) /\ Contains(stack'[v], q) => u = v
      BY <1>1, <1>9, <1>11 DEF StacksListed
    <2>2. \A q \in Points : Contains(cancelList', q) <=> \E u \in Owners : Contains(stack'[u], q)
      BY <1>1, <1>4, <1>6, <1>9, <1>11 DEF StacksListed
    <2>3. \A u \in Owners : \A q \in Points : Contains(stack'[u], q) => point'[q].thread = u
      BY <1>1, <1>4, <1>9, <1>11, <1>12 DEF StacksListed
    <2>4. ASSUME NEW u \in Owners, NEW q \in Points, NEW r \in Points, Before(stack'[u], q, r)
          PROVE  Before(cancelList', q, r)
      <3>1. Contains(stack'[u], q) /\ Contains(stack'[u], r)
        BY <2>4 DEF Before, Contains
      <3>2. Before(stack[u], q, r)
        BY <1>10, <1>11, <2>4
      <3>3. q # p_ /\ r # p_
        BY <1>4, <1>9, <1>11, <3>1
      <3>. QED
        BY <1>1, <1>7, <3>2, <3>3 DEF StacksListed
    <2>. QED
      BY <2>1, <2>2, <2>3, <2>4 DEF StacksListed
  <1>16. DueKept'
    BY <1>1, <1>6, <1>12, <1>13 DEF DueKept
  <1>17. AtRest'
    BY <1>2, <1>3, <1>6, <1>12 DEF AtRest
  <1>. QED
    BY <1>14, <1>15, <1>16, <1>17 DEF PointsInv

LEMMA BeginCancelHolds ==
  ASSUME PointsInv, NEW t \in Owners \cup {NoOwner}, NEW c \in Contexts, X!BeginCancel(t, c)
  PROVE  PointsInv'
  <1>1. PointsShape /\ StacksListed /\ DueKept
    BY DEF PointsInv
  <1>2. AtRest
    BY LibraryAssumption DEF PointsInv, X!BeginCancel, X!Unlocked, UnderWay, X!Idle
  <1>3. /\ cancelList # <<>> /\ cancelList' = cancelList /\ point' = point /\ stack' = stack
        /\ walk' = [thread |-> t, context |-> c, todo |-> cancelList, half |-> FALSE]
        /\ due' = [p \in Points |-> IF p \in X!Meant(t) THEN c ELSE due[p]]
    BY DEF X!BeginCancel
  <1>4. X!Meant(t)' = X!Meant(t)
    BY <1>3 DEF X!Meant
  <1>5. \A p \in X!Meant(t) : p \in Points /\ Contains(cancelList, p)
    <2>1. \A p : Contains(cancelList, p) => p \in Points
      BY <1>1 DEF PointsShape, Contains
    <2>2. CASE t \in Owners
      BY <1>1, <2>2, MeantListed
    <2>3. CASE t = NoOwner
      BY <1>1, <2>1, <2>3, MeantListed
    <2>. QED
      BY <2>2, <2>3
  <1>6. c # NoContext
    BY LibraryAssumption
  <1>7. PointsShape'
    BY <1>1, <1>3 DEF PointsShape
  <1>8. StacksListed'
    BY <1>1, <1>3 DEF StacksListed
  <1>9. DueKept'
    BY <1>1, <1>3, <1>5, <1>6 DEF DueKept
  <1>10. UnderWay'
    <2>1. cancelList \in Seq(Points) /\ Len(cancelList) \in Nat
      BY <1>1 DEF PointsShape
    <2>2. walk' \in [thread : Owners \cup {NoOwner}, context : Contexts, todo : Seq(Points), half : BOOLEAN]
      BY <1>3, <2>1
    <2>3. /\ walk'.thread = t /\ walk'.context = c /\ walk'.todo = cancelList /\ walk'.half = FALSE
      BY <1>3
    <2>4. \A i \in DOMAIN cancelList : i + Len(cancelList) - Len(cancelList) = i
      BY <2>1
    <2>5. /\ \A p \in X!Meant(walk.thread)' : due'[p] = walk'.context
          /\ walk'.thread # NoOwner => \A p \in X!Meant(walk.thread)' : Contains(walk'.todo, p)
      BY <1>3, <1>4, <1>5, <2>3 DEF X!Meant
    <2>6. ASSUME NEW p \in Points, Contains(cancelList', p)
          PROVE  point'[p].context = due'[p] \/ (p \in X!Meant(walk.thread)' /\ Contains(walk'.todo, p))
      <3>1. p \in X!Meant(walk.thread)' <=> p \in X!Meant(t)
        BY <1>3, <2>3 DEF X!Meant
      <3>. QED
        BY <1>2, <1>3, <2>3, <2>6, <3>1 DEF AtRest
    <2>7. /\ walk'.todo # <<>> /\ Len(walk'.todo) <= Len(cancelList')
          /\ \A i \in DOMAIN walk'.todo : walk'.todo[i] = cancelList'[i + Len(cancelList') - Len(walk'.todo)]
      BY <1>3, <2>1, <2>3, <2>4
    <2>. QED
      BY <2>2, <2>3, <2>5, <2>6, <2>7 DEF UnderWay
  <1>. QED
    BY <1>7, <1>8, <1>9, <1>10 DEF PointsInv

\* The point a walk comes to is on the list, and what is left is behind it there.
LEMMA NextOfWalk ==
  ASSUME PointsShape, UnderWay
  PROVE  /\ walk.todo \in Seq(Points) /\ Head(walk.todo) \in Points
         /\ Contains(cancelList, Head(walk.todo)) /\ Contains(walk.todo, Head(walk.todo))
         /\ \A p : Contains(walk.todo, p) /\ p # Head(walk.todo) => Contains(Tail(walk.todo), p)
         /\ \A p : Contains(walk.todo, p) => ~Before(cancelList, p, Head(walk.todo))
         /\ \A i \in DOMAIN Tail(walk.todo) :
              Tail(walk.todo)[i] = cancelList[i + Len(cancelList) - Len(Tail(walk.todo))]
         /\ Len(Tail(walk.todo)) = Len(walk.todo) - 1
         /\ ~Contains(Tail(walk.todo), Head(walk.todo))
  <1>. DEFINE s == walk.todo
              n == Len(s)
              l == Len(cancelList)
  <1>1. /\ s \in Seq(Points) /\ s # <<>> /\ n <= l
        /\ \A i \in 1 .. n : s[i] = cancelList[i + l - n]
    BY DEF UnderWay
  <1>2. cancelList \in Seq(Points) /\ IsInjective(cancelList) /\ l \in Nat
    BY DEF PointsShape
  <1>. HIDE DEF s
  <1>3. /\ n \in Nat \ {0} /\ Head(s) = s[1] /\ s[1] \in Points
        /\ Tail(s) \in Seq(Points) /\ Len(Tail(s)) = n - 1
        /\ \A i \in 1 .. n - 1 : Tail(s)[i] = s[i + 1]
    BY <1>1
  <1>. HIDE DEF n, l
  <1>4. \A i, j \in 1 .. l : cancelList[i] = cancelList[j] => i = j
    BY <1>2 DEF IsInjective, l
  <1>5. \A i \in 1 .. n : i + l - n \in 1 .. l
    BY <1>1, <1>2, <1>3
  <1>6. Contains(cancelList, Head(s)) /\ Contains(s, Head(s))
    <2>1. 1 \in 1 .. n
      BY <1>3
    <2>. QED
      BY <1>1, <1>3, <1>5, <2>1 DEF Contains, l, n
  <1>7. ASSUME NEW i \in 1 .. n, s[i] # Head(s)
        PROVE  Contains(Tail(s), s[i])
    <2>1. i # 1
      BY <1>3, <1>7
    <2>2. i - 1 \in 1 .. n - 1 /\ Tail(s)[i - 1] = s[i]
      BY <1>3, <2>1
    <2>. QED
      BY <1>3, <2>2 DEF Contains
  <1>8. ASSUME NEW i \in 1 .. n
        PROVE  ~Before(cancelList, s[i], Head(s))
    <2>. SUFFICES ASSUME NEW j \in 1 .. l, NEW k \in 1 .. l, j < k,
                         cancelList[j] = s[i], cancelList[k] = s[1]
                  PROVE  FALSE
      BY <1>3 DEF Before, l
    <2>1. 1 \in 1 .. n
      BY <1>3
    <2>2. j = i + l - n /\ k = 1 + l - n
      BY <1>1, <1>4, <1>5, <2>1
    <2>. QED
      BY <1>2, <1>3, <2>2
  <1>9. \A i \in 1 .. n - 1 : Tail(s)[i] = cancelList[i + l - (n - 1)]
    <2>. SUFFICES ASSUME NEW i \in 1 .. n - 1
                  PROVE  Tail(s)[i] = cancelList[i + l - (n - 1)]
      OBVIOUS
    <2>1. i + 1 \in 1 .. n /\ (i + 1) + l - n = i + l - (n - 1)
      BY <1>2, <1>3
    <2>. QED
      BY <1>1, <1>3, <2>1
  <1>10. ~Contains(Tail(s), Head(s))
    <2>. SUFFICES ASSUME NEW i \in 1 .. n - 1, Tail(s)[i] = s[1]
                  PROVE  FALSE
      BY <1>3 DEF Contains
    <2>1. i + 1 \in 1 .. n /\ 1 \in 1 .. n /\ s[i + 1] = s[1]
      BY <1>3
    <2>2. (i + 1) + l - n = 1 + l - n
      BY <1>1, <1>4, <1>5, <2>1
    <2>. QED
      BY <1>2, <1>3, <2>2
  <1>11. /\ \A p : Contains(s, p) /\ p # Head(s) => Contains(Tail(s), p)
         /\ \A p : Contains(s, p) => ~Before(cancelList, p, Head(s))
    BY <1>7, <1>8 DEF Contains, n
  <1>12. \A i \in DOMAIN Tail(s) : Tail(s)[i] = cancelList[i + l - Len(Tail(s))]
    <2>1. DOMAIN Tail(s) = 1 .. n - 1 /\ Len(Tail(s)) = n - 1
      BY <1>3
    <2>. QED
      BY <1>9, <2>1
  <1>13. Len(Tail(s)) = Len(s) - 1 /\ Head(s) \in Points /\ s \in Seq(Points)
    BY <1>1, <1>3 DEF n
  <1>. QED
    BY <1>6, <1>10, <1>11, <1>12, <1>13 DEF s, l

\* A point that a walk does not pass is one it is for.
LEMMA HeadMeant ==
  ASSUME PointsShape, StacksListed, UnderWay,
         walk.thread \in {NoOwner, point[Head(walk.todo)].thread}
  PROVE  Head(walk.todo) \in X!Meant(walk.thread)
  <1>. DEFINE h == Head(walk.todo)
              t == walk.thread
  <1>1. h \in Points /\ Contains(cancelList, h) /\ t \in Owners \cup {NoOwner}
    BY NextOfWalk DEF UnderWay
  <1>2. CASE t = NoOwner
    BY <1>1, <1>2, MeantListed
  <1>3. CASE t # NoOwner
    <2>1. t \in Owners /\ point[h].thread = t
      BY <1>1, <1>3
    <2>2. PICK u \in Owners : Contains(stack[u], h)
      BY <1>1 DEF StacksListed
    <2>3. u = t
      BY <1>1, <2>1, <2>2 DEF StacksListed
    <2>. SUFFICES ASSUME h \notin X!Meant(t)
                  PROVE  FALSE
      OBVIOUS
    <2>4. PICK q \in X!Meant(t) : Before(stack[t], q, h)
      BY <2>1, <2>2, <2>3, MeantListed
    <2>5. q \in Points /\ Contains(walk.todo, q)
      BY <1>3, <2>1, <2>4, MeantListed DEF UnderWay
    <2>6. Before(cancelList, q, h)
      BY <1>1, <2>1, <2>4, <2>5 DEF StacksListed
    <2>. QED
      BY <2>5, <2>6, NextOfWalk
  <1>. QED
    BY <1>2, <1>3

LEMMA CancelNextHolds ==
  ASSUME PointsInv, X!CancelNext
  PROVE  PointsInv'
  <1>1. PointsShape /\ StacksListed /\ DueKept
    BY DEF PointsInv
  <1>2. UnderWay
    BY DEF PointsInv, X!CancelNext, X!Unlocked, AtRest
  <1>. DEFINE h == Head(walk.todo)
              passes == walk.thread \notin {NoOwner, point[h].thread}
              ends == Len(walk.todo) = 1 \/ (walk.thread # NoOwner /\ ~passes)
  <1>3. /\ IF ~passes /\ ~walk.half
           THEN walk' = [walk EXCEPT !.half = TRUE] /\ point' = [point EXCEPT ![h].cancelled = TRUE]
           ELSE /\ walk' = IF ends THEN X!Idle ELSE [walk EXCEPT !.half = FALSE, !.todo = Tail(@)]
                /\ point' = IF passes THEN point ELSE [point EXCEPT ![h].context = walk.context]
        /\ cancelList' = cancelList /\ stack' = stack /\ due' = due
    BY DEF X!CancelNext
  <1>4. \A t : X!Meant(t)' = X!Meant(t)
    BY <1>3 DEF X!Meant
  <1>5. /\ walk.todo \in Seq(Points) /\ h \in Points
        /\ Contains(cancelList, h) /\ Contains(walk.todo, h)
        /\ \A p : Contains(walk.todo, p) /\ p # h => Contains(Tail(walk.todo), p)
        /\ \A i \in DOMAIN Tail(walk.todo) :
             Tail(walk.todo)[i] = cancelList[i + Len(cancelList) - Len(Tail(walk.todo))]
        /\ Len(Tail(walk.todo)) = Len(walk.todo) - 1
    BY <1>1, <1>2, NextOfWalk
  <1>6. ~passes => h \in X!Meant(walk.thread)
    BY <1>1, <1>2, HeadMeant
  <1>7. passes => h \notin X!Meant(walk.thread) /\ walk.thread # NoOwner
    <2>. SUFFICES ASSUME passes, h \in X!Meant(walk.thread)
                  PROVE  FALSE
      OBVIOUS
    <2>1. walk.thread \in Owners
      BY <1>2 DEF UnderWay
    <2>2. Contains(stack[walk.thread], h)
      BY <1>1, <2>1, MeantListed
    <2>. QED
      BY <1>1, <1>5, <2>1, <2>2 DEF StacksListed
  <1>8. /\ walk.context \in Contexts /\ walk.context # NoContext /\ walk.half \in BOOLEAN
        /\ walk.thread \in Owners \cup {NoOwner}
        /\ walk \in [thread : Owners \cup {NoOwner}, context : Contexts, todo : Seq(Points), half : BOOLEAN]
    BY <1>2, LibraryAssumption DEF UnderWay
  <1>9. h \in X!Meant(walk.thread) => due[h] = walk.context
    BY <1>2 DEF UnderWay
  <1>. DEFINE Types == [thread : Owners \cup {NoOwner}, cancelled : BOOLEAN, context : Contexts \cup {NoContext}]
  <1>14. /\ point' \in [Points -> Types]
         /\ \A p \in Points : point'[p].thread = point[p].thread /\ (p # h => point'[p] = point[p])
    <2>1. point \in [Points -> Types]
      BY <1>1 DEF PointsShape
    <2>2. h \in Points
      BY <1>5
    <2>3. \/ point' = point
          \/ point' = [point EXCEPT ![h].cancelled = TRUE]
          \/ point' = [point EXCEPT ![h].context = walk.context]
      BY <1>3
    <2>. HIDE DEF h
    <2>4. CASE point' = point
      BY <2>1, <2>4
    <2>5. CASE point' = [point EXCEPT ![h].cancelled = TRUE]
      BY <2>1, <2>2, <2>5
    <2>6. CASE point' = [point EXCEPT ![h].context = walk.context]
      BY <1>8, <2>1, <2>2, <2>6
    <2>. QED
      BY <2>3, <2>4, <2>5, <2>6
  <1>10. StacksListed'
    <2>1. \A p \in Points : point'[p].thread = point[p].thread
      BY <1>14
    <2>. QED
      BY <1>1, <1>3, <2>1 DEF StacksListed
  <1>11. PointsShape'
    <2>. QED
      BY <1>1, <1>3, <1>14 DEF PointsShape
  <1>12. CASE ~passes /\ ~walk.half
    <2>1. /\ walk' = [walk EXCEPT !.half = TRUE]
          /\ \A p \in Points : /\ point'[p].context = point[p].context
                               /\ p # h => point'[p] = point[p]
      <3>1. walk' = [walk EXCEPT !.half = TRUE] /\ point' = [point EXCEPT ![h].cancelled = TRUE]
        BY <1>3, <1>12
      <3>2. point \in [Points -> Types] /\ h \in Points
        BY <1>1, <1>5 DEF PointsShape
      <3>. HIDE DEF h
      <3>. QED
        BY <3>1, <3>2
    <2>2. /\ walk'.thread = walk.thread /\ walk'.todo = walk.todo /\ walk'.context = walk.context
          /\ walk' \in [thread : Owners \cup {NoOwner}, context : Contexts, todo : Seq(Points), half : BOOLEAN]
      BY <1>8, <2>1
    <2>3. DueKept'
      BY <1>1, <1>3, <1>6, <1>8, <1>9, <1>12, <2>1 DEF DueKept
    <2>4. X!Meant(walk.thread)' = X!Meant(walk.thread)
      BY <1>3, <2>2 DEF X!Meant
    <2>5. UnderWay'
      BY <1>2, <1>3, <1>6, <1>12, <2>1, <2>2, <2>4 DEF UnderWay
    <2>. QED
      BY <1>10, <1>11, <2>3, <2>5 DEF PointsInv
  <1>13. CASE passes \/ walk.half
    <2>1. /\ walk' = IF ends THEN X!Idle ELSE [walk EXCEPT !.half = FALSE, !.todo = Tail(@)]
          /\ point' = IF passes THEN point ELSE [point EXCEPT ![h].context = walk.context]
      BY <1>3, <1>13
    <2>2. \A p \in Points : /\ p # h => point'[p] = point[p]
                            /\ point'[p].cancelled = point[p].cancelled
                            /\ passes => point'[p] = point[p]
      BY <1>1, <2>1 DEF PointsShape
    <2>3. ~passes => point'[h].context = due[h]
      BY <1>1, <1>5, <1>6, <1>9, <2>1 DEF PointsShape
    <2>4. DueKept'
      BY <1>1, <1>3, <2>2 DEF DueKept
    <2>5. ASSUME NEW p \in Points, Contains(cancelList, p)
          PROVE  point'[p].context = due[p] \/ (p \in X!Meant(walk.thread) /\ Contains(Tail(walk.todo), p))
      <3>1. CASE p = h
        <4>1. passes => point[h].context = due[h]
          BY <1>2, <1>5, <1>7 DEF UnderWay
        <4>. QED
          BY <1>5, <2>2, <2>3, <3>1, <4>1
      <3>2. CASE p # h
        BY <1>2, <1>5, <2>2, <2>5, <3>2 DEF UnderWay
      <3>. QED
        BY <3>1, <3>2
    <2>6. CASE ends
      <3>1. ASSUME NEW p \in Points, Contains(cancelList, p)
            PROVE  point'[p].context = due[p]
        <4>1. CASE Len(walk.todo) = 1
          <5>1. ~Contains(Tail(walk.todo), p)
            BY <1>5, <4>1 DEF Contains
          <5>. QED
            BY <2>5, <3>1, <5>1
        <4>2. CASE walk.thread # NoOwner /\ ~passes
          <5>1. CASE p \in X!Meant(walk.thread)
            <6>1. p = h
              BY <1>6, <4>2, <5>1 DEF X!Meant
            <6>. QED
              BY <2>3, <4>2, <6>1
          <5>2. CASE p \notin X!Meant(walk.thread)
            BY <2>5, <3>1, <5>2
          <5>. QED
            BY <5>1, <5>2
        <4>. QED
          BY <2>6, <4>1, <4>2
      <3>2. AtRest'
        BY <1>3, <2>1, <2>6, <3>1 DEF AtRest, X!Idle
      <3>. QED
        BY <1>10, <1>11, <2>4, <3>2 DEF PointsInv
    <2>7. CASE ~ends
      <3>1. walk' = [walk EXCEPT !.half = FALSE, !.todo = Tail(@)]
        BY <2>1, <2>7
      <3>2. walk.todo # <<>> /\ Tail(walk.todo) \in Seq(Points) /\ Len(walk.todo) \in Nat
            /\ Tail(walk.todo) # <<>> /\ Len(walk.todo) <= Len(cancelList)
        <4>1. walk.todo \in Seq(Points) /\ walk.todo # <<>> /\ Len(walk.todo) <= Len(cancelList) /\ Len(walk.todo) # 1
          BY <1>2, <1>5, <2>7 DEF UnderWay
        <4>2. Len(walk.todo) \in Nat
          BY <4>1
        <4>. QED
          BY <4>1, <4>2, MoreFollow
      <3>3. /\ walk'.thread = walk.thread /\ walk'.todo = Tail(walk.todo) /\ walk'.context = walk.context
            /\ walk'.half = FALSE
            /\ walk' \in [thread : Owners \cup {NoOwner}, context : Contexts, todo : Seq(Points), half : BOOLEAN]
        BY <1>8, <3>1, <3>2
      <3>4. X!Meant(walk.thread)' = X!Meant(walk.thread)
        BY <1>3, <3>3 DEF X!Meant
      <3>5. walk.thread # NoOwner => \A p \in X!Meant(walk.thread) : Contains(Tail(walk.todo), p)
        <4>1. walk.thread # NoOwner => passes
          BY <2>7
        <4>. QED
          BY <1>2, <1>5, <1>7, <4>1 DEF UnderWay
      <3>6. /\ walk'.todo # <<>> /\ Len(walk'.todo) <= Len(cancelList')
            /\ \A i \in DOMAIN walk'.todo : walk'.todo[i] = cancelList'[i + Len(cancelList') - Len(walk'.todo)]
        <4>1. Tail(walk.todo) # <<>> /\ Len(Tail(walk.todo)) <= Len(cancelList)
          <5>1. Len(cancelList) \in Nat
            BY <1>1 DEF PointsShape
          <5>2. Len(Tail(walk.todo)) = Len(walk.todo) - 1
            BY <1>5
          <5>. QED
            BY <3>2, <5>1, <5>2
        <4>. QED
          BY <1>3, <1>5, <3>3, <4>1
      <3>7. /\ \A p \in X!Meant(walk.thread) : due[p] = walk.context
        BY <1>2 DEF UnderWay
      <3>8. UnderWay'
        BY <1>3, <2>5, <3>3, <3>4, <3>5, <3>6, <3>7 DEF UnderWay
      <3>. QED
        BY <1>10, <1>11, <2>4, <3>8 DEF PointsInv
    <2>. QED
      BY <2>6, <2>7
  <1>. QED
    BY <1>8, <1>12, <1>13

LEMMA PointsNextHolds ==
  ASSUME PointsInv, [Next]_vars
  PROVE  PointsInv'
  <1>1. UNCHANGED <<cancelList, point, stack, walk, due>> => PointsInv'
    <2>. SUFFICES ASSUME UNCHANGED <<cancelList, point, stack, walk, due>>
                  PROVE  PointsInv'
      OBVIOUS
    <2>1. PointsShape' /\ StacksListed' /\ DueKept'
      BY DEF PointsInv, PointsShape, StacksListed, DueKept
    <2>2. AtRest => AtRest'
      BY DEF AtRest, X!Idle
    <2>3. UnderWay => UnderWay'
      BY DEF UnderWay, X!Meant
    <2>. QED
      BY <2>1, <2>2, <2>3 DEF PointsInv
  <1>2. X!CancelsNext => PointsInv'
    BY CancelInitHolds, CancelDestroyHolds, BeginCancelHolds, CancelNextHolds DEF X!CancelsNext
  <1>3. X!SlotsNext => UNCHANGED <<cancelList, point, stack, walk, due>>
    BY DEF X!SlotsNext, X!RegisterData, X!SetData, X!GroupSetData, X!Store, X!CancelUnchanged
  <1>4. X!SlotsNext \/ X!CancelsNext \/ UNCHANGED data
    BY OnePartMoves
  <1>. QED
    BY <1>1, <1>2, <1>3, <1>4 DEF data

\* A registered name keeps its slot, and a call to cancel marks the points it is
\* for and no others, with its context, however many points, threads and names.
THEOREM ThreadDataIsSound == Spec => []ThreadDataSound
  <1>1. Init => SlotsInv /\ PointsInv
    BY SlotsInitHolds, PointsInitHolds DEF Init
  <1>. QED
    BY <1>1, SlotsNextHolds, PointsNextHolds, PointsInvSuffices, PTL DEF Spec
-----------------------------------------------------------------------------
(* Directories: a listing has found what stayed, or is still to read it.   *)

Reading == place \in {"reading", "stat"}

DirShape ==
  /\ kind \in D!Kinds /\ place \in {"closed", "reading", "stat", "listed"}
  /\ stayed \subseteq present /\ present \subseteq Names /\ unread \subseteq Names
  /\ chain \in Seq(Names)

EntriesNew ==
  /\ Reading => heap \cap unread = {}
  /\ place = "stat" => entry \in Names /\ entry \notin unread \cup heap
  /\ Range(chain) \subseteq heap \cap Matching /\ IsInjective(chain)

StayedFound ==
  D!ByPattern =>
    /\ Reading => /\ ~starved /\ heap = Range(chain)
                  /\ stayed \cap Matching \subseteq heap \cup unread \cup {n \in {entry} : place = "stat"}
    /\ place = "listed" /\ ~starved /\ shown = D!Nothing => stayed \cap Matching \subseteq Range(chain)
    /\ shown.data = shown.name
    /\ kind = "matchWindows" => /\ place = "closed" => heap = {}
                                /\ place = "listed" => heap \subseteq Range(base)

DirInv == DirShape /\ EntriesNew /\ StayedFound /\ D!ShownSound

\* The lists of this part are those of the lemmas.
LEMMA DirLists ==
  /\ \A f : D!Range(f) = Range(f)
  /\ \A f : D!IsInjective(f) <=> IsInjective(f)
  BY DEF D!Range, Range, D!IsInjective, IsInjective

LEMMA DirInitHolds == D!DirInit => DirInv
  <1>. SUFFICES ASSUME D!DirInit
                PROVE  DirInv
    OBVIOUS
  <1>. USE DEF D!DirInit
  <1>1. DirShape /\ EntriesNew
    BY DEF DirShape, EntriesNew, Reading, Range, IsInjective
  <1>2. StayedFound /\ D!ShownSound
    BY DEF StayedFound, Reading, D!ShownSound, D!Nothing
  <1>. QED
    BY <1>1, <1>2 DEF DirInv

LEMMA DirInvSuffices == DirInv => ListingsSound
  <1>. SUFFICES ASSUME DirInv
                PROVE  ListingsSound
    OBVIOUS
  <1>1. D!MatchSound
    BY DirLists DEF DirInv, EntriesNew, StayedFound, D!MatchSound
  <1>. QED
    BY <1>1 DEF DirInv, ListingsSound, D!DirSound

\* Files come and go.
LEMMA DiskHolds ==
  ASSUME DirInv, NEW n \in Names, D!Create(n) \/ D!Vanish(n)
  PROVE  DirInv'
  <1>1. /\ kind' = kind /\ place' = place /\ entry' = entry /\ shown' = shown
        /\ chain' = chain /\ base' = base /\ heap' = heap /\ starved' = starved
    BY DEF D!Create, D!Vanish, D!ListUnchanged
  <1>2. /\ DirShape'
        /\ stayed' \subseteq stayed
        /\ \A m : m \in unread' => m \in unread \/ (m \notin heap /\ m # entry) \/ place = "closed"
        /\ \A m \in stayed' : m \in unread => m \in unread'
    BY DEF D!Create, D!Vanish, DirInv, DirShape, D!ListUnchanged
  <1>3. EntriesNew'
    BY <1>1, <1>2 DEF DirInv, EntriesNew, Reading
  <1>4. StayedFound' /\ D!ShownSound'
    BY <1>1, <1>2 DEF DirInv, StayedFound, Reading, D!ByPattern, D!ShownSound, D!Nothing
  <1>. QED
    BY <1>2, <1>3, <1>4 DEF DirInv

LEMMA OpenHolds ==
  ASSUME DirInv, D!Open
  PROVE  DirInv'
  <1>. USE DEF D!Open
  <1>1. chain' = chain /\ Range(chain) = {} /\ heap' = {} /\ base' = base
    BY DEF DirInv, EntriesNew
  <1>2. DirShape'
    BY DEF DirInv, DirShape
  <1>3. EntriesNew'
    BY <1>1 DEF DirInv, EntriesNew, Reading
  <1>4. StayedFound'
    BY <1>1 DEF DirInv, StayedFound, Reading, D!ByPattern, D!Nothing
  <1>5. D!ShownSound'
    BY DEF D!ShownSound, D!Nothing
  <1>. QED
    BY <1>2, <1>3, <1>4, <1>5 DEF DirInv

LEMMA ReadHolds ==
  ASSUME DirInv, D!ReadEntry \/ D!Skip
  PROVE  DirInv'
  <1>1. /\ kind' = kind /\ present' = present /\ stayed' = stayed /\ chain' = chain /\ base' = base
        /\ heap' = heap /\ starved' = starved /\ shown' = shown
    BY DEF D!ReadEntry, D!Skip, D!DiskUnchanged, D!ListUnchanged
  <1>2. D!ShownSound'
    BY <1>1 DEF DirInv, D!ShownSound
  <1>3. CASE D!ReadEntry
    <2>1. PICK n \in unread : unread' = unread \ {n} /\ entry' = n
      BY <1>3 DEF D!ReadEntry
    <2>2. place = "reading" /\ place' = "stat"
      BY <1>3 DEF D!ReadEntry, D!Moves
    <2>3. DirShape'
      BY <1>1, <2>1, <2>2 DEF DirInv, DirShape
    <2>4. EntriesNew'
      BY <1>1, <2>1, <2>2 DEF DirInv, DirShape, EntriesNew, Reading
    <2>5. StayedFound'
      BY <1>1, <2>1, <2>2 DEF DirInv, StayedFound, Reading, D!ByPattern, D!Nothing
    <2>. QED
      BY <1>2, <2>3, <2>4, <2>5 DEF DirInv
  <1>4. CASE D!Skip
    <2>1. /\ place = "stat" /\ place' = "reading" /\ unread' = unread
          /\ entry \notin Matching \/ entry \notin present
      BY <1>4 DEF D!Skip, D!Moves
    <2>2. DirShape' /\ EntriesNew'
      BY <1>1, <2>1 DEF DirInv, DirShape, EntriesNew, Reading
    <2>3. StayedFound'
      BY <1>1, <2>1 DEF DirInv, DirShape, StayedFound, Reading, D!ByPattern, D!Nothing
    <2>. QED
      BY <1>2, <2>2, <2>3 DEF DirInv
  <1>. QED
    BY <1>3, <1>4

LEMMA LinkHolds ==
  ASSUME DirInv, D!Link
  PROVE  DirInv'
  <1>1. /\ kind' = kind /\ present' = present /\ stayed' = stayed /\ unread' = unread
        /\ entry' = entry /\ base' = base /\ starved' = starved /\ shown' = shown
        /\ place = "stat" /\ place' = "reading" /\ entry \in Matching
        /\ chain' = <<entry>> \o chain /\ heap' = heap \cup {entry}
    BY DEF D!Link, D!Moves, D!Linked, D!DiskUnchanged
  <1>2. entry \in Names /\ entry \notin unread \cup heap /\ chain \in Seq(Names) /\ IsInjective(chain)
    BY <1>1 DEF DirInv, DirShape, EntriesNew
  <1>3. ~Contains(chain, entry)
    BY <1>2, OnList DEF DirInv, EntriesNew
  <1>4. /\ chain' \in Seq(Names) /\ IsInjective(chain')
        /\ \A u : Contains(chain', u) <=> u = entry \/ Contains(chain, u)
    BY <1>1, <1>2, <1>3, FrontAdds
  <1>5. Range(chain') = Range(chain) \cup {entry}
    BY <1>2, <1>4, OnList
  <1>6. DirShape'
    BY <1>1, <1>4 DEF DirInv, DirShape
  <1>7. EntriesNew'
    BY <1>1, <1>2, <1>4, <1>5 DEF DirInv, EntriesNew, Reading
  <1>8. StayedFound'
    BY <1>1, <1>5 DEF DirInv, StayedFound, Reading, D!ByPattern, D!Nothing
  <1>9. D!ShownSound'
    BY <1>1 DEF DirInv, D!ShownSound
  <1>. QED
    BY <1>6, <1>7, <1>8, <1>9 DEF DirInv

\* The listing by pattern ends, is handed out, and closed.
LEMMA ListedHolds ==
  ASSUME DirInv, D!Starve \/ D!Finish \/ D!ReadDirMatch \/ D!CloseDirMatch
  PROVE  DirInv'
  <1>1. /\ kind' = kind /\ present' = present /\ stayed' = stayed /\ unread' = unread /\ entry' = entry
    BY DEF D!Starve, D!Finish, D!ReadDirMatch, D!CloseDirMatch, D!DiskUnchanged
  <1>2. Range(<<>>) = {} /\ IsInjective(<<>>) /\ <<>> \in Seq(Names)
    BY DEF Range, IsInjective
  <1>3. CASE D!Starve
    <2>1. /\ place = "stat" /\ starved' = TRUE /\ base' = base /\ shown' = shown
          /\ \/ kind = "matchUnix" /\ place' = "listed" /\ chain' = chain /\ heap' = heap
             \/ kind # "matchUnix" /\ place' = "closed" /\ chain' = <<>> /\ heap' = {}
      BY <1>3 DEF D!Starve, D!Moves
    <2>2. DirShape' /\ EntriesNew' /\ D!ShownSound'
      BY <1>1, <1>2, <2>1 DEF DirInv, DirShape, EntriesNew, Reading, D!ShownSound
    <2>3. StayedFound'
      BY <1>1, <2>1 DEF DirInv, StayedFound, Reading, D!ByPattern
    <2>. QED
      BY <2>2, <2>3 DEF DirInv
  <1>4. CASE D!Finish
    <2>1. /\ place = "reading" /\ place' = "listed" /\ D!ByPattern /\ unread \cap stayed = {}
          /\ base' = IF kind = "matchWindows" THEN chain ELSE <<>>
          /\ chain' = chain /\ heap' = heap /\ starved' = starved /\ shown' = shown
      BY <1>4 DEF D!Finish, D!Moves, D!Ended
    <2>2. DirShape' /\ EntriesNew' /\ D!ShownSound'
      BY <1>1, <2>1 DEF DirInv, DirShape, EntriesNew, Reading, D!ShownSound
    <2>3. StayedFound'
      BY <1>1, <2>1 DEF DirInv, StayedFound, Reading, D!ByPattern, D!Nothing
    <2>. QED
      BY <2>2, <2>3 DEF DirInv
  <1>5. CASE D!ReadDirMatch
    <2>1. /\ place = "listed" /\ place' = place /\ chain # <<>> /\ chain' = Tail(chain)
          /\ shown' = [name |-> Head(chain), data |-> Head(chain)]
          /\ base' = base /\ heap' = heap /\ starved' = starved
      BY <1>5 DEF D!ReadDirMatch
    <2>2. /\ chain' \in Seq(Names) /\ Head(chain) \in Names /\ IsInjective(chain')
          /\ Range(chain') \subseteq Range(chain)
      BY <2>1, TailLeaves DEF DirInv, DirShape, EntriesNew
    <2>3. DirShape' /\ EntriesNew' /\ D!ShownSound'
      BY <1>1, <2>1, <2>2 DEF DirInv, DirShape, EntriesNew, Reading, D!ShownSound
    <2>4. StayedFound'
      BY <1>1, <2>1, <2>2, LibraryAssumption DEF DirInv, StayedFound, Reading, D!ByPattern, D!Nothing
    <2>. QED
      BY <2>3, <2>4 DEF DirInv
  <1>6. CASE D!CloseDirMatch
    <2>1. /\ place = "listed" /\ place' = "closed" /\ heap' = heap \ Range(base)
          /\ chain' = <<>> /\ shown' = D!Nothing
      BY <1>6, DirLists DEF D!CloseDirMatch, D!Moves, D!Freed
    <2>2. DirShape' /\ EntriesNew'
      BY <1>1, <1>2, <2>1 DEF DirInv, DirShape, EntriesNew, Reading
    <2>3. StayedFound' /\ D!ShownSound'
      BY <1>1, <2>1 DEF DirInv, StayedFound, Reading, D!ByPattern, D!Nothing, D!ShownSound
    <2>. QED
      BY <2>2, <2>3 DEF DirInv
  <1>. QED
    BY <1>3, <1>4, <1>5, <1>6

LEMMA ShowHolds ==
  ASSUME DirInv, D!Show \/ D!CloseDir
  PROVE  DirInv'
  <1>1. /\ kind' = kind /\ present' = present /\ stayed' = stayed /\ unread' = unread /\ entry' = entry
        /\ chain' = chain /\ base' = base /\ heap' = heap /\ starved' = starved /\ ~D!ByPattern
        /\ place # "closed" /\ place' \in {"reading", "closed"}
        /\ place' = "reading" => place = "stat"
    BY DEF D!Show, D!CloseDir, D!Moves, D!DiskUnchanged, D!ListUnchanged
  <1>2. DirShape' /\ EntriesNew'
    BY <1>1 DEF DirInv, DirShape, EntriesNew, Reading
  <1>3. StayedFound'
    BY <1>1 DEF StayedFound, D!ByPattern
  <1>4. CASE D!Show
    <2>1. \/ shown' = shown
          \/ shown' = [name |-> entry, data |-> D!ShownData]
      BY <1>4 DEF D!Show
    <2>2. entry \in stayed => D!ShownData = entry
      BY DEF DirInv, DirShape, D!ShownData
    <2>3. D!ShownSound'
      BY <1>1, <2>1, <2>2 DEF DirInv, D!ShownSound
    <2>. QED
      BY <1>2, <1>3, <2>3 DEF DirInv
  <1>5. CASE D!CloseDir
    BY <1>2, <1>3, <1>5 DEF DirInv, D!CloseDir, D!ShownSound, D!Nothing
  <1>. QED
    BY <1>4, <1>5

LEMMA DirNextHolds ==
  ASSUME DirInv, [Next]_vars
  PROVE  DirInv'
  <1>1. UNCHANGED directory => DirInv'
    BY DEF directory, DirInv, DirShape, EntriesNew, StayedFound, Reading, D!ShownSound, D!ByPattern,
       D!Nothing
  <1>2. D!DirNext => DirInv'
    BY DiskHolds, OpenHolds, ReadHolds, LinkHolds, ListedHolds, ShowHolds DEF D!DirNext
  <1>. QED
    BY <1>1, <1>2, OnePartMoves

\* A listing by pattern has every matching file that stayed, once, whatever
\* comes and goes meanwhile, and on Windows its close frees it; a file that is
\* still there is shown with its own data.
THEOREM ListingsAreSound == Spec => []ListingsSound
  <1>1. Init => DirInv
    BY DirInitHolds DEF Init
  <1>. QED
    BY <1>1, DirNextHolds, DirInvSuffices, PTL DEF Spec
-----------------------------------------------------------------------------
(* The memory library: how many have it open, and who may have.            *)

Places == {"closed", "init", "await", "add", "open", "signal", "insert", "close",
           "last", "abandon", "stop", "gone"}

Within == {t \in L!Callers : at[t] \in {"open", "signal", "insert"}}
Counted == {t \in L!Callers : at[t] \in {"add", "open", "signal", "insert", "close"}}

FileNames == Files \cup {CHOOSE f \in Files : TRUE}

LibShape ==
  /\ at \in [L!Callers -> Places] /\ initState \in Nat
  /\ file \in [L!Callers -> FileNames] /\ stringHash \in Seq(FileNames)
  /\ DOMAIN named = L!Callers

\* Main opens first, and closes last; who has closed is no consumer, and who
\* has not counted itself out is counted.
MainFirst ==
  /\ at[Main] = "closed" => initState = 0 /\ \A o \in Others : at[o] = "closed"
  /\ at[Main] # "closed" => initState > 0
  /\ at[Main] \in {"closed", "init"} => state # "Initialized" /\ \A o \in Others : at[o] \in {"closed", "await"}
  /\ \A o \in Others : at[o] \notin {"init", "last", "abandon", "stop", "gone"}
  /\ \A o \in Others : at[o] = "close" => at[Main] \in {"open", "signal", "insert"}
  /\ at[Main] \in {"close", "last", "abandon", "stop", "gone"} => \A o \in Others : at[o] \in {"closed", "open"}
  /\ at[Main] = "last" => \A o \in Others : at[o] = "closed"

UsesCounted ==
  /\ consumers = Within
  /\ IsFiniteSet(Counted)
  /\ at[Main] \notin {"closed", "init", "last", "abandon", "stop", "gone"} => useCount = Cardinality(Counted)

LibInv == LibShape /\ MainFirst /\ UsesCounted /\ L!ChainSound

LEMMA LibInitHolds == L!LibInit => LibInv
  <1>. SUFFICES ASSUME L!LibInit
                PROVE  LibInv
    OBVIOUS
  <1>. USE LibraryAssumption DEF L!LibInit
  <1>1. Counted = {} /\ Within = {} /\ Main \in L!Callers /\ Others \subseteq L!Callers
    BY DEF Counted, Within, L!Callers
  <1>2. LibShape
    BY DEF LibShape, Places, FileNames
  <1>3. MainFirst
    BY <1>1 DEF MainFirst
  <1>4. UsesCounted
    BY <1>1, FS_EmptySet DEF UsesCounted
  <1>5. L!ChainSound
    BY DEF L!ChainSound
  <1>. QED
    BY <1>2, <1>3, <1>4, <1>5 DEF LibInv

\* Only main may be about to unload, with nobody else there.
LEMMA LibInvSuffices == LibInv => L!LibrarySound
  <1>. SUFFICES ASSUME LibInv
                PROVE  L!LibrarySound
    OBVIOUS
  <1>. USE LibraryAssumption
  <1>1. ASSUME NEW t \in L!Callers, at[t] = "last"
        PROVE  consumers = {}
    <2>1. t = Main
      BY <1>1 DEF LibInv, MainFirst, L!Callers
    <2>2. \A u \in L!Callers : at[u] \notin {"open", "signal", "insert"}
      BY <1>1, <2>1 DEF LibInv, MainFirst, L!Callers
    <2>. QED
      BY <2>2 DEF LibInv, UsesCounted, Within
  <1>. QED
    BY <1>1 DEF LibInv, L!LibrarySound, L!LastOutSound

\* A step of one caller, and what it does to the two sets.
LEMMA CallerMoves ==
  ASSUME LibShape, NEW t \in L!Callers, NEW to \in Places, at' = [at EXCEPT ![t] = to]
  PROVE  /\ at' \in [L!Callers -> Places]
         /\ \A u \in L!Callers : at'[u] = IF u = t THEN to ELSE at[u]
         /\ to \in {"open", "signal", "insert"} => Within' = Within \cup {t}
         /\ to \notin {"open", "signal", "insert"} => Within' = Within \ {t}
         /\ to \in {"add", "open", "signal", "insert", "close"} => Counted' = Counted \cup {t}
         /\ to \notin {"add", "open", "signal", "insert", "close"} => Counted' = Counted \ {t}
  <1>1. \A u \in L!Callers : at'[u] = IF u = t THEN to ELSE at[u]
    BY DEF LibShape
  <1>. QED
    BY <1>1 DEF LibShape, Within, Counted

\* Where a caller is says whether it is in the two sets.
LEMMA CallerIsAt ==
  ASSUME NEW t \in L!Callers
  PROVE  /\ at[t] \in {"open", "signal", "insert"} => Within \cup {t} = Within
         /\ at[t] \notin {"open", "signal", "insert"} => Within \ {t} = Within /\ t \notin Within
         /\ at[t] \in {"add", "open", "signal", "insert", "close"} => Counted \cup {t} = Counted
         /\ at[t] \notin {"add", "open", "signal", "insert", "close"} => Counted \ {t} = Counted /\ t \notin Counted
  BY DEF Within, Counted

\* The step from one place to another, and what it does to the two sets.
Went(t, from, to) ==
  /\ at' \in [L!Callers -> Places]
  /\ \A u \in L!Callers : at'[u] = IF u = t THEN to ELSE at[u]
  /\ Within' = IF to \in {"open", "signal", "insert"}
               THEN IF from \in {"open", "signal", "insert"} THEN Within ELSE Within \cup {t}
               ELSE IF from \in {"open", "signal", "insert"} THEN Within \ {t} ELSE Within
  /\ Counted' = IF to \in {"add", "open", "signal", "insert", "close"}
                THEN IF from \in {"add", "open", "signal", "insert", "close"} THEN Counted ELSE Counted \cup {t}
                ELSE IF from \in {"add", "open", "signal", "insert", "close"} THEN Counted \ {t} ELSE Counted

LEMMA CallerGoes ==
  ASSUME LibShape, NEW t \in L!Callers, NEW to, to \in Places, NEW from, at[t] = from,
         at' = [at EXCEPT ![t] = to]
  PROVE  Went(t, from, to)
  <1>1. at' \in [L!Callers -> Places] /\ \A u \in L!Callers : at'[u] = IF u = t THEN to ELSE at[u]
    BY CallerMoves
  <1>2. Within' = IF to \in {"open", "signal", "insert"} THEN Within \cup {t} ELSE Within \ {t}
    BY CallerMoves
  <1>3. Counted' = IF to \in {"add", "open", "signal", "insert", "close"} THEN Counted \cup {t} ELSE Counted \ {t}
    BY CallerMoves
  <1>. HIDE DEF Within, Counted
  <1>. QED
    BY <1>1, <1>2, <1>3, CallerIsAt DEF Went

\* The strings of files, which only grow.
LEMMA ChainHolds ==
  ASSUME LibShape, L!ChainSound, L!LibNext
  PROVE  /\ L!ChainSound' /\ DOMAIN named' = L!Callers
         /\ stringHash' \in Seq(FileNames) /\ file' \in [L!Callers -> FileNames]
  <1>1. CASE L!LookupUnchanged
    BY <1>1 DEF L!LookupUnchanged, LibShape, L!ChainSound
  <1>2. ASSUME NEW t \in L!Callers, L!Walk(t)
        PROVE  /\ L!ChainSound' /\ DOMAIN named' = L!Callers
               /\ stringHash' \in Seq(FileNames) /\ file' \in [L!Callers -> FileNames]
    <2>1. stringHash' = stringHash
      BY <1>2 DEF L!Walk
    <2>2. PICK f \in Files :
            IF f \in L!Range(stringHash) THEN L!Given(t, f) /\ UNCHANGED <<at, file, seen>>
            ELSE named' = named /\ file' = [file EXCEPT ![t] = f]
      BY <1>2 DEF L!Walk
    <2>3. file' \in [L!Callers -> FileNames] /\ f \in FileNames
      BY <2>2 DEF LibShape, FileNames
    <2>4. L!ChainSound' /\ DOMAIN named' = L!Callers
      BY <2>1, <2>2 DEF LibShape, L!ChainSound, L!Given
    <2>. QED
      BY <2>1, <2>3, <2>4 DEF LibShape
  <1>3. ASSUME NEW t \in L!Callers, L!Insert(t)
        PROVE  /\ L!ChainSound' /\ DOMAIN named' = L!Callers
               /\ stringHash' \in Seq(FileNames) /\ file' \in [L!Callers -> FileNames]
    <2>. DEFINE f == file[t]
    <2>1. /\ stringHash' = <<f>> \o stringHash /\ file' = file
          /\ named' = [named EXCEPT ![t] = @ \cup {f}]
      BY <1>3 DEF L!Insert, L!Pushed, L!Given
    <2>2. f \in FileNames /\ stringHash \in Seq(FileNames)
      BY DEF LibShape
    <2>. HIDE DEF f
    <2>3. stringHash' \in Seq(FileNames) /\ Len(stringHash') = Len(stringHash) + 1
          /\ \A i \in 1 .. Len(stringHash) + 1 : stringHash'[i] = IF i = 1 THEN f ELSE stringHash[i - 1]
      BY <2>1, <2>2
    <2>4. f \in L!Range(stringHash') /\ L!Range(stringHash) \subseteq L!Range(stringHash')
      <3>1. 1 \in DOMAIN stringHash' /\ stringHash'[1] = f
        BY <2>2, <2>3
      <3>2. ASSUME NEW i \in DOMAIN stringHash
            PROVE  i + 1 \in DOMAIN stringHash' /\ stringHash'[i + 1] = stringHash[i]
        BY <2>2, <2>3
      <3>. QED
        BY <3>1, <3>2 DEF L!Range
    <2>5. L!ChainSound' /\ DOMAIN named' = L!Callers
      BY <2>1, <2>4 DEF LibShape, L!ChainSound
    <2>. QED
      BY <2>1, <2>3, <2>5 DEF LibShape
  <1>4. \/ L!LookupUnchanged
        \/ \E t \in L!Callers : L!Walk(t) \/ L!Insert(t)
    BY DEF L!LibNext, L!MemoryWorker, L!Open, L!Close, L!Lookup, L!WorkSchedule, L!OpenBegins,
       L!Initialize, L!CountUse, L!AddConsumer, L!RemoveConsumer, L!CountOut, L!StopWorker, L!Unload
  <1>. QED
    BY <1>1, <1>2, <1>3, <1>4

LEMMA OpenStepHolds ==
  ASSUME LibShape, MainFirst, UsesCounted, NEW t \in L!Callers, L!Open(t)
  PROVE  MainFirst' /\ UsesCounted' /\ at' \in [L!Callers -> Places] /\ initState' \in Nat
  <1>. USE LibraryAssumption
  <1>1. (t = Main \/ t \in Others) /\ Main \in L!Callers /\ Others \subseteq L!Callers
    BY DEF L!Callers
  <1>2. CASE L!OpenBegins(t)
    <2>. DEFINE to == IF initState = 0 THEN "init" ELSE "await"
    <2>1. /\ at[t] = "closed" /\ at' = [at EXCEPT ![t] = to] /\ initState' = initState + 1
          /\ state' = state /\ useCount' = useCount /\ consumers' = consumers
          /\ t # Main => at[Main] \in {"init", "await", "add", "open"}
      BY <1>2 DEF L!OpenBegins, L!Moves
    <2>2. to \in Places /\ (initState = 0 => to = "init") /\ (initState # 0 => to = "await") /\ initState \in Nat
      BY DEF LibShape, Places
    <2>. HIDE DEF to
    <2>3. /\ at' \in [L!Callers -> Places]
          /\ \A u \in L!Callers : at'[u] = IF u = t THEN to ELSE at[u]
          /\ Within' = Within \ {t} /\ Counted' = Counted \ {t} /\ t \notin Counted /\ t \notin Within
      <3>1. to \notin {"add", "open", "signal", "insert", "close"}
        BY <2>2
      <3>2. t \notin Counted /\ t \notin Within
        BY <2>1, CallerIsAt
      <3>3. Went(t, "closed", to)
        BY <2>1, <2>2, CallerGoes
      <3>. QED
        BY <3>1, <3>2, <3>3 DEF Went
    <2>4. MainFirst'
      BY <1>1, <2>1, <2>2, <2>3 DEF MainFirst, L!Callers
    <2>5. Counted' = Counted /\ Within' = Within
      BY <2>3
    <2>6. UsesCounted'
      BY <1>1, <2>1, <2>2, <2>3, <2>5 DEF UsesCounted, MainFirst, L!Callers
    <2>. QED
      BY <2>1, <2>2, <2>3, <2>4, <2>6
  <1>3. CASE L!Initialize(t)
    <2>1. /\ at[t] = "init" /\ at' = [at EXCEPT ![t] = "await"] /\ initState' = initState
          /\ state' = "Initialized" /\ useCount' = 0 /\ consumers' = {}
      BY <1>3 DEF L!Initialize, L!Moves
    <2>2. t = Main
      BY <1>1, <2>1 DEF MainFirst
    <2>3. /\ at' \in [L!Callers -> Places]
          /\ \A u \in L!Callers : at'[u] = IF u = t THEN "await" ELSE at[u]
      <3>1. "await" \in Places
        BY DEF Places
      <3>2. Went(t, "init", "await")
        BY <2>1, <3>1, CallerGoes
      <3>. QED
        BY <3>2 DEF Went
    <2>4. \A u \in L!Callers : at'[u] \in {"closed", "await"}
      BY <2>1, <2>2, <2>3 DEF MainFirst, L!Callers
    <2>5. Counted' = {} /\ Within' = {}
      BY <2>4 DEF Counted, Within
    <2>6. MainFirst'
      BY <2>1, <2>2, <2>3, <2>4 DEF MainFirst, L!Callers
    <2>7. UsesCounted'
      BY <2>1, <2>5, FS_EmptySet DEF UsesCounted
    <2>. QED
      BY <2>1, <2>3, <2>6, <2>7 DEF LibShape
  <1>4. CASE L!CountUse(t)
    <2>1. /\ at[t] = "await" /\ at' = [at EXCEPT ![t] = "add"] /\ initState' = initState
          /\ state = "Initialized" /\ state' = state /\ useCount' = useCount + 1 /\ consumers' = consumers
      BY <1>4 DEF L!CountUse, L!Moves
    <2>2. /\ at' \in [L!Callers -> Places]
          /\ \A u \in L!Callers : at'[u] = IF u = t THEN "add" ELSE at[u]
          /\ Within' = Within /\ Counted' = Counted \cup {t} /\ t \notin Counted
      <3>1. "add" \in Places
        BY DEF Places
      <3>2. Went(t, "await", "add")
        BY <2>1, <3>1, CallerGoes
      <3>3. t \notin Counted
        BY <2>1, CallerIsAt
      <3>. QED
        BY <3>2, <3>3 DEF Went
    <2>3. MainFirst'
      BY <1>1, <2>1, <2>2 DEF MainFirst, L!Callers
    <2>4. /\ IsFiniteSet(Counted')
          /\ Cardinality(Counted') = Cardinality(Counted) + 1
      BY <2>2, FS_AddElement DEF UsesCounted
    <2>5. at[Main] \notin {"closed", "init", "last", "abandon", "stop", "gone"}
      BY <1>1, <2>1 DEF MainFirst
    <2>6. UsesCounted'
      BY <2>1, <2>2, <2>4, <2>5 DEF UsesCounted
    <2>. QED
      BY <2>1, <2>2, <2>3, <2>6 DEF LibShape
  <1>5. CASE L!AddConsumer(t)
    <2>1. /\ at[t] = "add" /\ at' = [at EXCEPT ![t] = "open"] /\ initState' = initState
          /\ state' = state /\ useCount' = useCount /\ consumers' = consumers \cup {t}
      BY <1>5 DEF L!AddConsumer, L!Moves
    <2>2. /\ at' \in [L!Callers -> Places]
          /\ \A u \in L!Callers : at'[u] = IF u = t THEN "open" ELSE at[u]
          /\ Within' = Within \cup {t} /\ Counted' = Counted
      <3>1. "open" \in Places
        BY DEF Places
      <3>2. Went(t, "add", "open")
        BY <2>1, <3>1, CallerGoes
      <3>. QED
        BY <3>2 DEF Went
    <2>3. MainFirst'
      BY <1>1, <2>1, <2>2 DEF MainFirst, L!Callers
    <2>4. at'[Main] \notin {"closed", "init", "last", "abandon", "stop", "gone"} =>
            at[Main] \notin {"closed", "init", "last", "abandon", "stop", "gone"}
      BY <1>1, <2>1, <2>2 DEF L!Callers
    <2>5. UsesCounted'
      BY <2>1, <2>2, <2>4 DEF UsesCounted
    <2>. QED
      BY <2>1, <2>2, <2>3, <2>5 DEF LibShape
  <1>. QED
    BY <1>2, <1>3, <1>4, <1>5 DEF L!Open

LEMMA CloseStepHolds ==
  ASSUME LibShape, MainFirst, UsesCounted, NEW t \in L!Callers, L!Close(t)
  PROVE  MainFirst' /\ UsesCounted' /\ at' \in [L!Callers -> Places] /\ initState' = initState
  <1>. USE LibraryAssumption
  <1>1. (t = Main \/ t \in Others) /\ Main \in L!Callers /\ Others \subseteq L!Callers
    BY DEF L!Callers
  <1>2. CASE L!RemoveConsumer(t)
    <2>1. /\ at[t] = "open" /\ at' = [at EXCEPT ![t] = "close"] /\ initState' = initState
          /\ state' = state /\ useCount' = useCount /\ consumers' = consumers \ {t}
          /\ IF t = Main THEN \A o \in Others : at[o] \in {"closed", "open"} ELSE at[Main] = "open"
      BY <1>2 DEF L!RemoveConsumer, L!Moves, L!MainOpen
    <2>2. /\ at' \in [L!Callers -> Places]
          /\ \A u \in L!Callers : at'[u] = IF u = t THEN "close" ELSE at[u]
          /\ Within' = Within \ {t} /\ Counted' = Counted
      <3>1. "close" \in Places
        BY DEF Places
      <3>2. Went(t, "open", "close")
        BY <2>1, <3>1, CallerGoes
      <3>. QED
        BY <3>2 DEF Went
    <2>3. MainFirst'
      BY <1>1, <2>1, <2>2 DEF MainFirst, L!Callers
    <2>4. UsesCounted'
      BY <1>1, <2>1, <2>2 DEF UsesCounted, L!Callers
    <2>. QED
      BY <2>1, <2>2, <2>3, <2>4
  <1>3. CASE L!CountOut(t)
    <2>. DEFINE early == t = Main /\ useCount # 1
                left == IF early THEN useCount ELSE useCount - 1
                to == IF early THEN "abandon" ELSE IF left = 0 THEN "last" ELSE "closed"
    <2>1. /\ at[t] = "close" /\ at' = [at EXCEPT ![t] = to] /\ initState' = initState
          /\ state' = state /\ useCount' = left /\ consumers' = consumers
      BY <1>3 DEF L!CountOut, L!Moves
    <2>2. to \in Places /\ to \in {"abandon", "last", "closed"}
      BY DEF Places
    <2>3. at[Main] \in {"open", "signal", "insert", "close"} /\ useCount = Cardinality(Counted)
      BY <1>1, <2>1 DEF MainFirst, UsesCounted
    <2>4. t \in Counted /\ Main \in Counted /\ IsFiniteSet(Counted)
      BY <1>1, <2>1, <2>3 DEF Counted, UsesCounted, L!Callers
    <2>5. Cardinality(Counted) \in Nat /\ Cardinality(Counted \ {t}) = Cardinality(Counted) - 1
          /\ IsFiniteSet(Counted \ {t})
      BY <2>4, FS_CardinalityType, FS_RemoveElement
    <2>6. CASE t = Main /\ useCount # 1
      <3>1. to = "abandon"
        BY <2>6
      <3>. HIDE DEF early, left, to
      <3>2. /\ at' \in [L!Callers -> Places]
            /\ \A u \in L!Callers : at'[u] = IF u = t THEN "abandon" ELSE at[u]
            /\ Within' = Within /\ Counted' = Counted \ {t}
        <4>1. Went(t, "close", "abandon")
          BY <2>1, <2>2, <3>1, CallerGoes
        <4>. QED
          BY <4>1 DEF Went
      <3>3. MainFirst'
        BY <2>1, <2>6, <3>2 DEF MainFirst, L!Callers
      <3>4. UsesCounted'
        BY <2>1, <2>5, <2>6, <3>2 DEF UsesCounted, L!Callers
      <3>. QED
        BY <2>1, <3>2, <3>3, <3>4
    <2>7. CASE t = Main /\ useCount = 1
      <3>1. to = "last"
        BY <2>7
      <3>. HIDE DEF early, left, to
      <3>2. /\ at' \in [L!Callers -> Places]
            /\ \A u \in L!Callers : at'[u] = IF u = t THEN "last" ELSE at[u]
            /\ Within' = Within /\ Counted' = Counted \ {t}
        <4>1. Went(t, "close", "last")
          BY <2>1, <2>2, <3>1, CallerGoes
        <4>. QED
          BY <4>1 DEF Went
      <3>3. Counted \ {t} = {}
        BY <2>3, <2>5, <2>7, FS_EmptySet
      <3>4. \A o \in Others : at[o] = "closed"
        BY <2>1, <2>7, <3>3 DEF MainFirst, Counted, L!Callers
      <3>5. MainFirst'
        BY <2>1, <2>7, <3>2, <3>4 DEF MainFirst, L!Callers
      <3>6. UsesCounted'
        BY <2>1, <2>5, <2>7, <3>2 DEF UsesCounted, L!Callers
      <3>. QED
        BY <2>1, <3>2, <3>5, <3>6
    <2>8. CASE t # Main
      <3>1. Cardinality(Counted \ {t}) # 0
        <4>1. Main \in Counted \ {t}
          BY <2>4, <2>8
        <4>. QED
          BY <2>5, <4>1, FS_EmptySet
      <3>2. to = "closed" /\ left = Cardinality(Counted \ {t})
        BY <2>3, <2>5, <2>8, <3>1
      <3>. HIDE DEF early, left, to
      <3>3. /\ at' \in [L!Callers -> Places]
            /\ \A u \in L!Callers : at'[u] = IF u = t THEN "closed" ELSE at[u]
            /\ Within' = Within /\ Counted' = Counted \ {t}
        <4>1. Went(t, "close", "closed")
          BY <2>1, <2>2, <3>2, CallerGoes
        <4>. QED
          BY <4>1 DEF Went
      <3>4. MainFirst'
        BY <1>1, <2>1, <2>8, <3>3 DEF MainFirst, L!Callers
      <3>5. UsesCounted'
        BY <2>1, <2>5, <3>2, <3>3 DEF UsesCounted
      <3>. QED
        BY <2>1, <3>3, <3>4, <3>5
    <2>. QED
      BY <2>6, <2>7, <2>8
  <1>4. CASE L!StopWorker(t) \/ L!Unload(t)
    <2>1. PICK to \in {"stop", "gone"} :
            /\ at[t] \in {"last", "abandon", "stop"} /\ at' = [at EXCEPT ![t] = to]
            /\ initState' = initState /\ useCount' = useCount /\ consumers' = consumers
      BY <1>4 DEF L!StopWorker, L!Unload, L!Moves
    <2>2. t = Main
      BY <1>1, <2>1 DEF MainFirst
    <2>3. /\ at' \in [L!Callers -> Places]
          /\ \A u \in L!Callers : at'[u] = IF u = t THEN to ELSE at[u]
          /\ Within' = Within /\ Counted' = Counted
      <3>1. to \in Places /\ to \notin {"add", "open", "signal", "insert", "close"}
        BY <2>1 DEF Places
      <3>2. Within \ {t} = Within /\ Counted \ {t} = Counted
        BY <2>1, CallerIsAt
      <3>3. at' = [at EXCEPT ![t] = to]
        BY <2>1
      <3>. QED
        BY <3>1, <3>2, <3>3, CallerMoves
    <2>4. MainFirst'
      BY <2>1, <2>2, <2>3 DEF MainFirst, L!Callers
    <2>5. UsesCounted'
      BY <2>1, <2>2, <2>3 DEF UsesCounted, L!Callers
    <2>. QED
      BY <2>1, <2>3, <2>4, <2>5
  <1>. QED
    BY <1>2, <1>3, <1>4 DEF L!Close

\* Calls of a consumer.
LEMMA CallsHold ==
  ASSUME LibShape, MainFirst, UsesCounted, NEW t \in L!Callers, L!WorkSchedule(t) \/ L!Lookup(t)
  PROVE  MainFirst' /\ UsesCounted' /\ at' \in [L!Callers -> Places] /\ initState' = initState
  <1>. USE LibraryAssumption
  <1>1. (t = Main \/ t \in Others) /\ Main \in L!Callers /\ Others \subseteq L!Callers
    BY DEF L!Callers
  <1>2. /\ initState' = initState /\ state' = state /\ useCount' = useCount /\ consumers' = consumers
    BY DEF L!WorkSchedule, L!Lookup, L!Walk, L!Insert
  <1>3. \/ at' = at
        \/ /\ at[t] \in {"open", "signal", "insert"}
           /\ \E to \in {"open", "signal", "insert"} : at' = [at EXCEPT ![t] = to]
           /\ at[t] = "open" => at[Main] = "open"
    BY DEF L!WorkSchedule, L!Tell, L!Lookup, L!Walk, L!Insert, L!Moves, L!MayCall, L!MainOpen
  <1>4. CASE at' = at
    BY <1>2, <1>4 DEF MainFirst, UsesCounted, Within, Counted, LibShape
  <1>5. CASE at' # at
    <2>1. PICK to \in {"open", "signal", "insert"} : at' = [at EXCEPT ![t] = to]
      BY <1>3, <1>5
    <2>2. /\ at' \in [L!Callers -> Places]
          /\ \A u \in L!Callers : at'[u] = IF u = t THEN to ELSE at[u]
          /\ Within' = Within /\ Counted' = Counted
      <3>1. to \in Places
        BY <2>1 DEF Places
      <3>2. at[t] \in {"open", "signal", "insert"}
        BY <1>3, <1>5
      <3>3. Went(t, at[t], to)
        BY <2>1, <3>1, CallerGoes
      <3>. QED
        BY <2>1, <3>2, <3>3 DEF Went
    <2>3. MainFirst'
      BY <1>1, <1>2, <1>3, <1>5, <2>1, <2>2 DEF MainFirst, L!Callers
    <2>4. UsesCounted'
      BY <1>1, <1>2, <1>3, <1>5, <2>1, <2>2 DEF UsesCounted, L!Callers
    <2>. QED
      BY <1>2, <2>2, <2>3, <2>4
  <1>. QED
    BY <1>4, <1>5

LEMMA LibNextHolds ==
  ASSUME LibInv, [Next]_vars
  PROVE  LibInv'
  <1>1. UNCHANGED library => LibInv'
    BY DEF library, LibInv, LibShape, MainFirst, UsesCounted, Within, Counted, L!ChainSound
  <1>2. L!LibNext => MainFirst' /\ UsesCounted' /\ at' \in [L!Callers -> Places] /\ initState' \in Nat
    <2>1. L!MemoryWorker => MainFirst' /\ UsesCounted' /\ at' = at /\ initState' = initState
      BY DEF L!MemoryWorker, LibInv, MainFirst, UsesCounted, Within, Counted
    <2>. QED
      BY <2>1, OpenStepHolds, CloseStepHolds, CallsHold DEF L!LibNext, LibInv, LibShape
  <1>3. L!LibNext => LibInv'
    BY <1>2, ChainHolds DEF LibInv, LibShape
  <1>. QED
    BY <1>1, <1>3, OnePartMoves

\* Whoever counts the last use out finds no consumer, for any number of callers,
\* and no file loses its string (slab.c:1445-1611, 605-633).
THEOREM LibraryIsSound == Spec => []L!LibrarySound
  <1>1. Init => LibInv
    BY LibInitHolds DEF Init
  <1>. QED
    BY <1>1, LibInvSuffices, LibNextHolds, PTL DEF Spec
-----------------------------------------------------------------------------
(* The marks of nodes: what each node in use is marked with, by what is    *)
(* left of the owner's call. All others are on their lists.                *)

Steps == {"size", "trail", "moved", "moved trail", "free", "mark", "push"}
Resizing == {"size", "trail", "moved", "moved trail"}

NodeOf(p_) ==
  [list: BOOLEAN, size: 0..Capacity[p_], sig: {"free", "red", "watch"}, key: Keys \cup {0},
   cell: [1..(Capacity[p_] + 1) -> {"data", "free", "red"}]]

DoingShape ==
  \/ doing = N!Rest
  \/ \E at_ \in Resizing, p_ \in N!MarkPools : \E n_ \in 0..Capacity[p_] :
       doing = [at |-> at_, of |-> p_, size |-> n_]
  \/ \E at_ \in {"free", "mark", "push"}, p_ \in N!MarkPools : doing = [at |-> at_, of |-> p_]

MarksShape ==
  /\ node = [p_ \in N!MarkPools |-> node[p_]]
  /\ \A p_ \in N!MarkPools : node[p_] \in NodeOf(p_)
  /\ holding \in N!MarkPools \cup {NoNode} /\ locked \in Keys \cup {0}
  /\ DoingShape

Listed(r_) == r_.list /\ r_.sig = "free" /\ r_.key = 0 /\ N!Trail(r_) = "free"

\* The node the owner has.
HeldIs ==
  /\ holding = NoNode => locked = 0
  /\ holding # NoNode =>
       /\ ~node[holding].list /\ node[holding].sig \in {"red", "watch"}
       /\ node[holding].key = locked
       /\ holding = spoilt \/ doing.of = holding \/ N!Trail(node[holding]) = "red"
  /\ spoilt # NoNode => spoilt = holding /\ doing = N!Rest /\ N!Trail(node[spoilt]) = "data"

\* The node its call is about, where that is another one.
OtherIs ==
  /\ doing.at = "size" => holding = NoNode
  /\ doing.at = "trail" => holding \in {NoNode, doing.of}
  /\ doing.at \in {"moved", "moved trail"} => holding # NoNode /\ node[holding].sig = "red"
  /\ doing.at = "free" => holding # NoNode /\ N!Trail(node[doing.of]) = "red"
  /\ doing.at \in Steps /\ doing.at # "trail" => doing.of # holding
  /\ doing.at \in Steps /\ doing.of # holding =>
       /\ ~node[doing.of].list /\ node[doing.of].key = 0
       /\ IF doing.at = "push" THEN node[doing.of].sig = "free" /\ N!Trail(node[doing.of]) = "free"
          ELSE node[doing.of].sig = "red"

OthersListed == \A p_ \in N!MarkPools : p_ # holding /\ p_ # doing.of => Listed(node[p_])

Marks == MarksShape /\ HeldIs /\ OtherIs /\ OthersListed

MarksInv == N!MarksSound /\ (report = N!Quiet => Marks)

LEMMA PoolsAreIndices ==
  /\ N!MarkPools = 1..Len(Capacity) /\ NoNode \notin N!MarkPools
  /\ \A p_ \in N!MarkPools : Capacity[p_] \in Nat
  /\ N!MarkSizes = 0..Capacity[Len(Capacity)] /\ Len(Capacity) \in N!MarkPools
  <1>1. N!MarkPools = 1..Len(Capacity) /\ Len(Capacity) \in Nat \ {0}
    BY LibraryAssumption DEF N!MarkPools
  <1>2. N!Cardinality(N!MarkPools) = Cardinality(1..Len(Capacity))
    BY <1>1 DEF N!Cardinality, Cardinality
  <1>3. Cardinality(1..Len(Capacity)) = Len(Capacity)
    BY <1>1, FS_Interval
  <1>. QED
    BY <1>1, <1>2, <1>3, LibraryAssumption DEF N!MarkSizes, N!MarkPools

\* A size that some pool has room for is served by one that has.
LEMMA ServesHasRoom ==
  ASSUME NEW n_ \in N!MarkSizes
  PROVE  N!Serves(n_) \in N!MarkPools /\ n_ <= Capacity[N!Serves(n_)]
  <1>. DEFINE fits == {p_ \in N!MarkPools : n_ <= Capacity[p_]}
  <1>1. fits \in SUBSET Nat /\ fits # {}
    BY PoolsAreIndices
  <1>2. PICK m_ \in fits : \A q_ \in fits : m_ <= q_
    BY <1>1, Least
  <1>3. \E p_ \in N!MarkPools : n_ <= Capacity[p_] /\ \A q_ \in N!MarkPools : n_ <= Capacity[q_] => p_ <= q_
    BY <1>2
  <1>. QED
    BY <1>3 DEF N!Serves

\* A new mark, size, signature, key or list leaves the rest of a node as it is.
LEMMA MarkedIs ==
  ASSUME NEW p_ \in N!MarkPools, NEW r_ \in NodeOf(p_), NEW m_ \in {"data", "free", "red"}
  PROVE  /\ N!Marked(r_, m_) \in NodeOf(p_) /\ N!Trail(N!Marked(r_, m_)) = m_
         /\ N!Marked(r_, m_).list = r_.list /\ N!Marked(r_, m_).size = r_.size
         /\ N!Marked(r_, m_).sig = r_.sig /\ N!Marked(r_, m_).key = r_.key
  <1>. DEFINE c_ == [r_.cell EXCEPT ![r_.size + 1] = m_]
  <1>1. r_.size + 1 \in 1..(Capacity[p_] + 1) /\ r_.cell \in [1..(Capacity[p_] + 1) -> {"data", "free", "red"}]
    BY PoolsAreIndices DEF NodeOf
  <1>2. c_ \in [1..(Capacity[p_] + 1) -> {"data", "free", "red"}] /\ c_[r_.size + 1] = m_
    BY <1>1
  <1>3. N!Marked(r_, m_) = [r_ EXCEPT !.cell = c_]
    BY DEF N!Marked
  <1>. HIDE DEF c_
  <1>. QED
    BY <1>2, <1>3 DEF NodeOf, N!Trail

LEMMA SizedIs ==
  ASSUME NEW p_ \in N!MarkPools, NEW r_ \in NodeOf(p_), NEW n_ \in 0..Capacity[p_]
  PROVE  LET c_ == [r_ EXCEPT !.size = n_] IN
         c_ \in NodeOf(p_) /\ c_.list = r_.list /\ c_.sig = r_.sig /\ c_.key = r_.key
  BY PoolsAreIndices DEF NodeOf

LEMMA SignedIs ==
  ASSUME NEW p_ \in N!MarkPools, NEW r_ \in NodeOf(p_), NEW g_ \in {"free", "red", "watch"}
  PROVE  LET c_ == [r_ EXCEPT !.sig = g_] IN
         /\ c_ \in NodeOf(p_) /\ c_.list = r_.list /\ c_.size = r_.size /\ c_.key = r_.key
         /\ c_.sig = g_ /\ N!Trail(c_) = N!Trail(r_)
  BY PoolsAreIndices DEF NodeOf, N!Trail

LEMMA KeyedIs ==
  ASSUME NEW p_ \in N!MarkPools, NEW r_ \in NodeOf(p_), NEW k_ \in Keys \cup {0}
  PROVE  LET c_ == [r_ EXCEPT !.key = k_] IN
         /\ c_ \in NodeOf(p_) /\ c_.list = r_.list /\ c_.size = r_.size /\ c_.sig = r_.sig
         /\ c_.key = k_ /\ N!Trail(c_) = N!Trail(r_)
  BY PoolsAreIndices DEF NodeOf, N!Trail

LEMMA ListedIs ==
  ASSUME NEW p_ \in N!MarkPools, NEW r_ \in NodeOf(p_), NEW l_ \in BOOLEAN
  PROVE  LET c_ == [r_ EXCEPT !.list = l_] IN
         /\ c_ \in NodeOf(p_) /\ c_.size = r_.size /\ c_.sig = r_.sig /\ c_.key = r_.key
         /\ c_.list = l_ /\ N!Trail(c_) = N!Trail(r_)
  BY PoolsAreIndices DEF NodeOf, N!Trail

LEMMA OneNodeChanges ==
  ASSUME MarksShape, NEW p_ \in N!MarkPools, NEW r_ \in NodeOf(p_), N!Change(p_, r_)
  PROVE  /\ node' = [q_ \in N!MarkPools |-> node'[q_]]
         /\ \A q_ \in N!MarkPools : node'[q_] = (IF q_ = p_ THEN r_ ELSE node[q_]) /\ node'[q_] \in NodeOf(q_)
  BY DEF MarksShape, N!Change

\* A call of the owner that fails does so for a reason of the owner's.
LEMMA FailsSoundly ==
  ASSUME MarksInv, report = N!Quiet, NEW what_, N!Fails(what_),
         \/ holding = spoilt \/ node[holding].sig = "watch"
         \/ what_ = "empty" /\ node[holding].size = 0
  PROVE  MarksInv'
  <1>1. /\ report' = [what |-> what_, by |-> "owner"] /\ report' # N!Quiet
        /\ UNCHANGED <<node, holding, doing, locked, spoilt>>
    BY DEF N!Fails, N!Quiet
  <1>. QED
    BY <1>1 DEF MarksInv, Marks, HeldIs, N!MarksSound, N!Idle

\* As long as nothing was reported, the marks are all there is to keep.
LEMMA MarksAreKept ==
  ASSUME report = N!Quiet, report' = report, Marks'
  PROVE  MarksInv'
  <1>1. spoilt' # NoNode => N!Trail(node'[spoilt']) = "data" /\ spoilt' = holding'
    BY DEF Marks, HeldIs, N!Trail
  <1>2. N!Idle' => doing' = N!Rest
    <2>1. doing' # N!Rest => doing'.at # "rest"
      <3>1. DoingShape'
        BY DEF Marks, MarksShape
      <3>2. ASSUME NEW at_ \in Resizing, NEW p_, NEW n_, doing' = [at |-> at_, of |-> p_, size |-> n_]
            PROVE  doing'.at # "rest"
        BY <3>2 DEF Resizing
      <3>3. ASSUME NEW at_ \in {"free", "mark", "push"}, NEW p_, doing' = [at |-> at_, of |-> p_]
            PROVE  doing'.at # "rest"
        BY <3>3
      <3>. QED
        BY <3>1, <3>2, <3>3 DEF DoingShape, N!Rest
    <2>. QED
      BY <2>1 DEF N!Idle
  <1>3. ASSUME N!Idle', NEW p_ \in N!MarkPools
        PROVE  IF p_ = holding' THEN node'[p_].key = locked'
               ELSE node'[p_].list /\ node'[p_].key = 0 /\ N!FaultFree(node'[p_]) = "none"
    BY <1>2, <1>3, PoolsAreIndices DEF Marks, HeldIs, OthersListed, Listed, N!Rest, N!FaultFree
  <1>. QED
    BY <1>1, <1>3 DEF MarksInv, N!MarksSound, N!Quiet

\* One node changes, and the call goes on.
LEMMA ShapeIsKept ==
  ASSUME MarksShape, NEW p_ \in N!MarkPools, NEW r_ \in NodeOf(p_), N!Change(p_, r_),
         holding' \in N!MarkPools \cup {NoNode}, locked' \in Keys \cup {0},
         DoingShape'
  PROVE  MarksShape'
  <1>1. /\ node' = [q_ \in N!MarkPools |-> node'[q_]]
        /\ \A q_ \in N!MarkPools : node'[q_] \in NodeOf(q_)
    BY OneNodeChanges
  <1>. QED
    BY <1>1 DEF MarksShape

LEMMA TakeHolds ==
  ASSUME MarksInv, report = N!Quiet, doing = N!Rest, NEW n_ \in N!MarkSizes, NEW at_ \in {"size", "moved"},
         N!Take(n_, at_), at_ = "size" => holding = NoNode,
         at_ = "moved" => /\ holding # NoNode /\ node[holding].sig = "red" /\ holding # spoilt
                          /\ ~(n_ <= Capacity[holding])
  PROVE  MarksInv'
  <1>. DEFINE p_ == N!Serves(n_)
             a_ == [node[p_] EXCEPT !.sig = "red"]
             b_ == [a_ EXCEPT !.list = FALSE]
             r_ == N!Marked(b_, "red")
  <1>. USE DEF MarksInv, Marks
  <1>1. /\ p_ \in N!MarkPools /\ p_ # holding /\ n_ \in 0..Capacity[p_] /\ p_ # NoNode
        /\ node[p_] \in NodeOf(p_)
    BY ServesHasRoom, PoolsAreIndices DEF MarksShape
  <1>2. Listed(node[p_])
    BY <1>1 DEF OthersListed, N!Rest
  <1>3. /\ N!Change(p_, r_) /\ doing' = [at |-> at_, of |-> p_, size |-> n_]
        /\ UNCHANGED <<holding, locked, spoilt, report>>
    BY <1>2 DEF N!Take, N!FaultFree, Listed
  <1>4. a_ \in NodeOf(p_) /\ a_.key = 0 /\ a_.sig = "red"
    BY <1>1, <1>2, SignedIs DEF Listed
  <1>. HIDE DEF a_
  <1>5. b_ \in NodeOf(p_) /\ b_.key = 0 /\ b_.sig = "red" /\ ~b_.list
    BY <1>1, <1>4, ListedIs
  <1>. HIDE DEF b_
  <1>6. r_ \in NodeOf(p_) /\ r_.key = 0 /\ r_.sig = "red" /\ ~r_.list /\ N!Trail(r_) = "red"
    BY <1>1, <1>5, MarkedIs
  <1>. HIDE DEF r_, p_
  <1>7. \A q_ \in N!MarkPools : node'[q_] = IF q_ = p_ THEN r_ ELSE node[q_]
    BY <1>1, <1>3, <1>6, OneNodeChanges
  <1>8. MarksShape'
    <2>1. DoingShape'
      BY <1>1, <1>3 DEF DoingShape, Resizing
    <2>. QED
      BY <1>1, <1>3, <1>6, <2>1, ShapeIsKept DEF MarksShape
  <1>9. holding # NoNode => node'[holding] = node[holding]
    BY <1>1, <1>7 DEF MarksShape
  <1>10. HeldIs'
    BY <1>1, <1>3, <1>9 DEF HeldIs, N!Rest
  <1>11. OtherIs'
    <2>1. doing'.at = at_ /\ doing'.of = p_ /\ node'[p_] = r_ /\ holding' = holding
      BY <1>1, <1>3, <1>7
    <2>2. ~node'[p_].list /\ node'[p_].key = 0 /\ node'[p_].sig = "red"
      BY <1>6, <2>1
    <2>. QED
      BY <1>1, <1>9, <2>1, <2>2 DEF OtherIs, Steps
  <1>12. OthersListed'
    <2>1. ASSUME NEW q_ \in N!MarkPools, q_ # holding', q_ # doing'.of
          PROVE  node'[q_] = node[q_] /\ Listed(node[q_])
      <3>1. q_ # p_ /\ q_ # holding /\ q_ # doing.of
        BY <1>1, <1>3, <2>1, PoolsAreIndices DEF N!Rest
      <3>. QED
        BY <1>7, <3>1 DEF OthersListed
    <2>. QED
      BY <2>1 DEF OthersListed, Listed, N!Trail
  <1>. QED
    BY <1>3, <1>8, <1>10, <1>11, <1>12, MarksAreKept
\* What is known of a call by what is left of it.
LEMMA DoingIs ==
  ASSUME DoingShape
  PROVE  /\ doing.at = "rest" => doing = N!Rest
         /\ doing.at \in Resizing =>
              /\ doing.of \in N!MarkPools /\ doing.size \in 0..Capacity[doing.of]
              /\ doing = [at |-> doing.at, of |-> doing.of, size |-> doing.size]
         /\ doing.at \in {"free", "mark", "push"} =>
              doing.of \in N!MarkPools /\ doing = [at |-> doing.at, of |-> doing.of]
         /\ doing.at \in Steps => doing # N!Rest
  <1>1. CASE doing = N!Rest
    BY <1>1 DEF N!Rest, Resizing, Steps
  <1>2. ASSUME NEW at_ \in Resizing, NEW p_ \in N!MarkPools, NEW n_ \in 0..Capacity[p_],
               doing = [at |-> at_, of |-> p_, size |-> n_]
        PROVE  /\ doing.at \in Resizing /\ doing # N!Rest
               /\ doing.of \in N!MarkPools /\ doing.size \in 0..Capacity[doing.of]
               /\ doing = [at |-> doing.at, of |-> doing.of, size |-> doing.size]
    BY <1>2 DEF Resizing, N!Rest
  <1>3. ASSUME NEW at_ \in {"free", "mark", "push"}, NEW p_ \in N!MarkPools, doing = [at |-> at_, of |-> p_]
        PROVE  /\ doing.at \in {"free", "mark", "push"} /\ doing # N!Rest
               /\ doing.of \in N!MarkPools /\ doing = [at |-> doing.at, of |-> doing.of]
    BY <1>3 DEF N!Rest
  <1>4. \A at_ \in Resizing : at_ \notin {"rest", "free", "mark", "push"}
    BY DEF Resizing
  <1>. QED
    BY <1>1, <1>2, <1>3, <1>4 DEF DoingShape

\* A step that changes one node, which is in use afterwards or on its list.
LEMMA NodeStepHolds ==
  ASSUME MarksInv, report = N!Quiet, report' = report,
         NEW p_ \in N!MarkPools, NEW r_ \in NodeOf(p_), N!Change(p_, r_),
         holding' \in N!MarkPools \cup {NoNode}, locked' \in Keys \cup {0}, DoingShape',
         p_ = holding' \/ p_ = doing'.of \/ Listed(r_),
         \A q_ \in N!MarkPools : q_ # p_ /\ q_ # holding' /\ q_ # doing'.of => q_ # holding /\ q_ # doing.of,
         HeldIs', OtherIs'
  PROVE  MarksInv'
  <1>. USE DEF MarksInv, Marks
  <1>1. MarksShape'
    BY ShapeIsKept
  <1>2. ASSUME NEW q_ \in N!MarkPools, q_ # holding', q_ # doing'.of
        PROVE  Listed(node'[q_])
    <2>1. node'[q_] = IF q_ = p_ THEN r_ ELSE node[q_]
      BY OneNodeChanges
    <2>. QED
      BY <1>2, <2>1 DEF OthersListed
  <1>3. OthersListed'
    BY <1>2 DEF OthersListed, Listed, N!Trail
  <1>. QED
    BY <1>1, <1>3, MarksAreKept

LEMMA SetSizeHolds ==
  ASSUME MarksInv, N!SetSize
  PROVE  MarksInv'
  <1>. DEFINE p_ == doing.of
              a_ == N!Marked(node[p_], "data")
              r_ == [a_ EXCEPT !.size = doing.size]
              at_ == IF doing.at = "size" THEN "trail" ELSE "moved trail"
  <1>. USE DEF MarksInv, Marks
  <1>1. /\ report = N!Quiet /\ doing.at \in {"size", "moved"} /\ N!Change(p_, r_)
        /\ doing' = [doing EXCEPT !.at = at_] /\ UNCHANGED <<holding, locked, spoilt, report>>
    BY DEF N!SetSize
  <1>2. /\ p_ \in N!MarkPools /\ doing.size \in 0..Capacity[p_] /\ node[p_] \in NodeOf(p_) /\ spoilt = NoNode
        /\ doing' = [at |-> at_, of |-> p_, size |-> doing.size] /\ p_ # holding
    BY <1>1, DoingIs DEF MarksShape, Resizing, Steps, HeldIs, OtherIs
  <1>3. ~node[p_].list /\ node[p_].key = 0 /\ node[p_].sig = "red"
    BY <1>1, <1>2 DEF OtherIs, Steps
  <1>4. a_ \in NodeOf(p_) /\ ~a_.list /\ a_.key = 0 /\ a_.sig = "red"
    BY <1>2, <1>3, MarkedIs
  <1>. HIDE DEF a_
  <1>5. r_ \in NodeOf(p_) /\ ~r_.list /\ r_.key = 0 /\ r_.sig = "red"
    BY <1>2, <1>4, SizedIs
  <1>6. at_ \in {"trail", "moved trail"} /\ (at_ = "trail" <=> doing.at = "size")
    BY <1>1
  <1>. HIDE DEF r_, at_
  <1>7. \A q_ \in N!MarkPools : node'[q_] = IF q_ = p_ THEN r_ ELSE node[q_]
    BY <1>1, <1>2, <1>5, OneNodeChanges
  <1>8. holding # NoNode => node'[holding] = node[holding]
    BY <1>1, <1>2, <1>7 DEF MarksShape
  <1>9. HeldIs'
    BY <1>1, <1>2, <1>8 DEF HeldIs
  <1>10. OtherIs'
    BY <1>1, <1>2, <1>5, <1>6, <1>7, <1>8 DEF OtherIs, Steps
  <1>11. DoingShape'
    BY <1>2, <1>6 DEF DoingShape, Resizing
  <1>. QED
    BY <1>1, <1>2, <1>5, <1>9, <1>10, <1>11, NodeStepHolds DEF MarksShape

LEMMA SetTrailHolds ==
  ASSUME MarksInv, N!SetTrail
  PROVE  MarksInv'
  <1>. DEFINE p_ == doing.of
              r_ == N!Marked(node[p_], "red")
  <1>. USE DEF MarksInv, Marks
  <1>1. /\ report = N!Quiet /\ doing.at = "trail" /\ N!Change(p_, r_)
        /\ doing' = N!Rest /\ holding' = p_ /\ UNCHANGED <<locked, spoilt, report>>
    BY DEF N!SetTrail
  <1>2. /\ p_ \in N!MarkPools /\ p_ # NoNode /\ node[p_] \in NodeOf(p_) /\ spoilt = NoNode
        /\ holding \in {NoNode, p_}
    BY <1>1, DoingIs, PoolsAreIndices DEF MarksShape, Resizing, Steps, HeldIs, OtherIs
  <1>3. ~node[p_].list /\ node[p_].key = locked /\ node[p_].sig \in {"red", "watch"}
    BY <1>1, <1>2 DEF OtherIs, HeldIs, Steps
  <1>4. /\ r_ \in NodeOf(p_) /\ ~r_.list /\ r_.key = locked /\ r_.sig \in {"red", "watch"}
        /\ N!Trail(r_) = "red"
    BY <1>2, <1>3, MarkedIs
  <1>. HIDE DEF r_
  <1>5. node'[p_] = r_
    BY <1>1, <1>2, <1>4, OneNodeChanges
  <1>6. HeldIs'
    BY <1>1, <1>2, <1>4, <1>5 DEF HeldIs
  <1>7. OtherIs'
    BY <1>1 DEF OtherIs, Steps, N!Rest
  <1>8. DoingShape'
    BY <1>1 DEF DoingShape, N!Rest
  <1>9. \A q_ \in N!MarkPools : q_ # p_ /\ q_ # holding' => q_ # holding /\ q_ # doing.of
    BY <1>2, PoolsAreIndices
  <1>. QED
    BY <1>1, <1>2, <1>4, <1>6, <1>7, <1>8, <1>9, NodeStepHolds DEF MarksShape

\* The node the owner has gets another size, or another trail, in place.
LEMMA InPlaceHolds ==
  ASSUME MarksInv, N!Holds, NEW n_ \in 0..Capacity[holding],
         N!Change(holding, [N!Marked(node[holding], "data") EXCEPT !.size = n_]),
         doing' = [at |-> "trail", of |-> holding, size |-> n_],
         spoilt' = NoNode, UNCHANGED <<holding, locked, report>>
  PROVE  MarksInv'
  <1>. DEFINE a_ == N!Marked(node[holding], "data")
              r_ == [a_ EXCEPT !.size = n_]
  <1>. USE DEF MarksInv, Marks
  <1>1. /\ report = N!Quiet /\ holding # NoNode /\ holding \in N!MarkPools /\ doing = N!Rest
        /\ node[holding] \in NodeOf(holding)
    BY DoingIs DEF N!Holds, N!Idle, MarksShape
  <1>2. ~node[holding].list /\ node[holding].key = locked /\ node[holding].sig \in {"red", "watch"}
    BY <1>1 DEF HeldIs
  <1>3. a_ \in NodeOf(holding) /\ ~a_.list /\ a_.key = locked /\ a_.sig \in {"red", "watch"}
    BY <1>1, <1>2, MarkedIs
  <1>. HIDE DEF a_
  <1>4. r_ \in NodeOf(holding) /\ ~r_.list /\ r_.key = locked /\ r_.sig \in {"red", "watch"}
    BY <1>1, <1>3, SizedIs
  <1>5. N!Change(holding, r_)
    BY DEF a_
  <1>. HIDE DEF r_
  <1>6. node'[holding] = r_
    BY <1>1, <1>4, <1>5, OneNodeChanges
  <1>7. HeldIs'
    BY <1>1, <1>4, <1>6 DEF HeldIs
  <1>8. OtherIs'
    BY <1>1 DEF OtherIs, Steps
  <1>9. DoingShape'
    BY <1>1 DEF DoingShape, Resizing
  <1>10. \A q_ \in N!MarkPools : q_ # holding => q_ # doing.of
    BY <1>1, PoolsAreIndices DEF N!Rest
  <1>. QED
    BY <1>1, <1>4, <1>5, <1>7, <1>8, <1>9, <1>10, NodeStepHolds DEF MarksShape

\* What the owner's node is when a call begins.
LEMMA HeldNodeIs ==
  ASSUME MarksInv, N!Holds
  PROVE  /\ report = N!Quiet /\ doing = N!Rest /\ holding \in N!MarkPools /\ holding # NoNode
         /\ node[holding] \in NodeOf(holding) /\ ~node[holding].list /\ node[holding].key = locked
         /\ node[holding].sig \in {"red", "watch"}
         /\ holding # spoilt => spoilt = NoNode /\ N!Trail(node[holding]) = "red"
         /\ \A q_ \in N!MarkPools : q_ # holding => q_ # doing.of
  <1>. USE DEF MarksInv, Marks
  <1>1. /\ report = N!Quiet /\ holding # NoNode /\ holding \in N!MarkPools /\ doing = N!Rest
        /\ node[holding] \in NodeOf(holding)
    BY DoingIs DEF N!Holds, N!Idle, MarksShape
  <1>2. doing.of = NoNode
    BY <1>1 DEF N!Rest
  <1>. QED
    BY <1>1, <1>2, PoolsAreIndices DEF HeldIs

LEMMA ReallocHolds ==
  ASSUME MarksInv, NEW n_ \in N!MarkSizes, N!Realloc(n_)
  PROVE  MarksInv'
  <1>1. N!Holds /\ n_ \in Nat
    BY PoolsAreIndices DEF N!Realloc
  <1>2. CASE N!Fault(node[holding]) # "none"
    <2>1. N!Fails(N!Fault(node[holding]))
      BY <1>2 DEF N!Realloc
    <2>2. holding = spoilt \/ node[holding].sig = "watch"
      BY <1>1, <1>2, HeldNodeIs DEF N!Fault
    <2>. QED
      BY <1>1, <2>1, <2>2, HeldNodeIs, FailsSoundly
  <1>3. CASE N!Fault(node[holding]) = "none"
    <2>1. node[holding].sig = "red" /\ holding # spoilt /\ spoilt = NoNode
      BY <1>1, <1>3, HeldNodeIs DEF N!Fault, MarksInv, Marks, HeldIs
    <2>2. CASE n_ <= Capacity[holding]
      <3>1. n_ \in 0..Capacity[holding]
        BY <1>1, <2>2, HeldNodeIs, PoolsAreIndices
      <3>2. /\ N!Change(holding, [N!Marked(node[holding], "data") EXCEPT !.size = n_])
            /\ doing' = [at |-> "trail", of |-> holding, size |-> n_]
            /\ UNCHANGED <<holding, locked, spoilt, report>>
        BY <1>3, <2>2 DEF N!Realloc
      <3>. QED
        BY <1>1, <2>1, <3>1, <3>2, InPlaceHolds
    <2>3. CASE ~(n_ <= Capacity[holding])
      <3>1. N!Take(n_, "moved")
        BY <1>3, <2>3 DEF N!Realloc
      <3>. QED
        BY <1>1, <2>1, <2>3, <3>1, HeldNodeIs, TakeHolds
    <2>. QED
      BY <2>2, <2>3
  <1>. QED
    BY <1>2, <1>3

LEMMA SizeHolds ==
  ASSUME MarksInv, N!MMSize
  PROVE  MarksInv'
  <1>1. Capacity[holding] \in 0..Capacity[holding]
    BY HeldNodeIs, PoolsAreIndices DEF N!MMSize
  <1>. QED
    BY <1>1, InPlaceHolds DEF N!MMSize

LEMMA AllocHolds ==
  ASSUME MarksInv, NEW n_ \in N!MarkSizes, N!MMAlloc(n_)
  PROVE  MarksInv'
  <1>1. report = N!Quiet /\ doing = N!Rest /\ holding = NoNode /\ N!Take(n_, "size")
    BY DoingIs DEF N!MMAlloc, N!Idle, MarksInv, Marks, MarksShape
  <1>. QED
    BY <1>1, TakeHolds

\* The owner's calls that change a mark of its node and nothing else.
LEMMA HeldStepHolds ==
  ASSUME MarksInv, N!Holds, NEW r_ \in NodeOf(holding), N!Change(holding, r_),
         UNCHANGED <<holding, doing, report>>, locked' \in Keys \cup {0},
         ~r_.list, r_.key = locked', r_.sig \in {"red", "watch"},
         spoilt' = spoilt \/ spoilt' = holding,
         N!Trail(r_) = IF spoilt' = holding THEN "data" ELSE "red"
  PROVE  MarksInv'
  <1>. USE DEF MarksInv, Marks
  <1>1. node'[holding] = r_
    BY HeldNodeIs, OneNodeChanges
  <1>2. HeldIs'
    <2>1. /\ holding' = holding /\ holding # NoNode /\ doing' = N!Rest /\ node'[holding'] = r_
          /\ spoilt' = NoNode \/ spoilt' = holding
      BY <1>1, HeldNodeIs
    <2>. QED
      BY <2>1 DEF HeldIs, N!Rest
  <1>3. OtherIs'
    <2>1. doing'.at = "rest"
      BY HeldNodeIs DEF N!Rest
    <2>. QED
      BY <2>1 DEF OtherIs, Steps
  <1>4. DoingShape'
    BY HeldNodeIs DEF DoingShape, N!Rest
  <1>. QED
    BY <1>2, <1>3, <1>4, HeldNodeIs, NodeStepHolds

\* Its trail.
LEMMA HeldTrailIs ==
  ASSUME MarksInv, N!Holds
  PROVE  N!Trail(node[holding]) = IF spoilt = holding THEN "data" ELSE "red"
  <1>1. spoilt = holding => N!Trail(node[holding]) = "data"
    BY HeldNodeIs DEF MarksInv, Marks, HeldIs
  <1>. QED
    BY <1>1, HeldNodeIs

LEMMA MarksStay ==
  ASSUME MarksInv, UNCHANGED marks
  PROVE  MarksInv'
  <1>1. N!MarksSound'
    BY DEF marks, MarksInv, N!MarksSound, N!Idle, N!Quiet, N!Rest, N!Trail, N!FaultFree
  <1>2. MarksShape => MarksShape'
    BY DEF marks, MarksShape, DoingShape, N!Rest
  <1>3. HeldIs => HeldIs'
    BY DEF marks, HeldIs, N!Rest
  <1>4. OtherIs => OtherIs'
    BY DEF marks, OtherIs, N!Rest
  <1>5. OthersListed => OthersListed'
    BY DEF marks, OthersListed, Listed, N!Trail
  <1>. QED
    BY <1>1, <1>2, <1>3, <1>4, <1>5 DEF marks, MarksInv, Marks, N!Quiet

\* The assertion that MMLock, MMUnlock and MMAssert begin with fails for the
\* owner's reasons only.
LEMMA AssertFailsSoundly ==
  ASSUME MarksInv, N!Holds, N!AssertFault(node[holding]) # "none",
         N!Fails(N!AssertFault(node[holding]))
  PROVE  MarksInv'
  <1>1. node[holding].sig \in {"red", "watch"}
    BY HeldNodeIs
  <1>2. CASE node[holding].size = 0
    <2>1. N!AssertFault(node[holding]) = "empty"
      BY <1>1, <1>2 DEF N!AssertFault
    <2>. QED
      BY <1>2, <2>1, HeldNodeIs, FailsSoundly
  <1>3. CASE node[holding].size # 0
    <2>1. N!Trail(node[holding]) # "red"
      BY <1>1, <1>3 DEF N!AssertFault
    <2>2. holding = spoilt
      BY <2>1, HeldNodeIs
    <2>. QED
      BY <2>2, HeldNodeIs, FailsSoundly
  <1>. QED
    BY <1>2, <1>3

LEMMA MarkingHolds ==
  ASSUME MarksInv,
         \/ \E k_ \in Keys : N!MMLock(k_)
         \/ N!MMUnlock \/ N!MMWatch \/ N!MMUnwatch \/ N!MMAssert \/ N!Overwrite
  PROVE  MarksInv'
  <1>1. ASSUME NEW k_ \in Keys, N!MMLock(k_)
        PROVE  MarksInv'
    <2>. DEFINE r_ == [node[holding] EXCEPT !.key = k_]
    <2>1. N!Holds /\ node[holding].key = 0
      BY <1>1, HeldNodeIs DEF N!MMLock
    <2>4. CASE N!AssertFault(node[holding]) # "none"
      <3>1. N!Fails(N!AssertFault(node[holding]))
        BY <1>1, <2>4 DEF N!MMLock
      <3>. QED
        BY <2>1, <2>4, <3>1, AssertFailsSoundly
    <2>. SUFFICES ASSUME N!AssertFault(node[holding]) = "none" PROVE MarksInv'
      BY <2>4
    <2>2. N!Change(holding, r_) /\ locked' = k_ /\ UNCHANGED <<holding, doing, spoilt, report>>
      BY <1>1, <2>1 DEF N!MMLock
    <2>3. /\ r_ \in NodeOf(holding) /\ r_.list = node[holding].list /\ r_.sig = node[holding].sig
          /\ r_.key = k_ /\ N!Trail(r_) = N!Trail(node[holding])
      BY <2>1, HeldNodeIs, KeyedIs
    <2>. HIDE DEF r_
    <2>. QED
      BY <2>1, <2>2, <2>3, HeldNodeIs, HeldTrailIs, HeldStepHolds
  <1>2. ASSUME N!MMUnlock
        PROVE  MarksInv'
    <2>. DEFINE r_ == [node[holding] EXCEPT !.key = 0]
    <2>1. N!Holds /\ node[holding].key = locked
      BY <1>2, HeldNodeIs DEF N!MMUnlock
    <2>4. CASE N!AssertFault(node[holding]) # "none"
      <3>1. N!Fails(N!AssertFault(node[holding]))
        BY <1>2, <2>4 DEF N!MMUnlock
      <3>. QED
        BY <2>1, <2>4, <3>1, AssertFailsSoundly
    <2>. SUFFICES ASSUME N!AssertFault(node[holding]) = "none" PROVE MarksInv'
      BY <2>4
    <2>2. N!Change(holding, r_) /\ locked' = 0 /\ UNCHANGED <<holding, doing, spoilt, report>>
      BY <1>2, <2>1 DEF N!MMUnlock
    <2>3. /\ r_ \in NodeOf(holding) /\ r_.list = node[holding].list /\ r_.sig = node[holding].sig
          /\ r_.key = 0 /\ N!Trail(r_) = N!Trail(node[holding])
      BY <2>1, HeldNodeIs, KeyedIs
    <2>. HIDE DEF r_
    <2>. QED
      BY <2>1, <2>2, <2>3, HeldNodeIs, HeldTrailIs, HeldStepHolds
  <1>3. ASSUME NEW g_ \in {"red", "watch"}, N!Holds,
               N!Change(holding, [node[holding] EXCEPT !.sig = g_]),
               UNCHANGED <<holding, doing, locked, spoilt, report>>
        PROVE  MarksInv'
    <2>. DEFINE r_ == [node[holding] EXCEPT !.sig = g_]
    <2>1. /\ r_ \in NodeOf(holding) /\ r_.list = node[holding].list /\ r_.sig = g_
          /\ r_.key = locked /\ N!Trail(r_) = N!Trail(node[holding])
      <3>1. holding \in N!MarkPools /\ node[holding] \in NodeOf(holding) /\ node[holding].key = locked
        BY <1>3, HeldNodeIs
      <3>2. g_ \in {"free", "red", "watch"}
        BY <1>3
      <3>3. /\ r_ \in NodeOf(holding) /\ r_.list = node[holding].list /\ r_.key = node[holding].key
            /\ r_.sig = g_ /\ N!Trail(r_) = N!Trail(node[holding])
        BY <3>1, <3>2, PoolsAreIndices DEF NodeOf, N!Trail
      <3>. QED
        BY <3>1, <3>3
    <2>2. N!Change(holding, r_) /\ locked \in Keys \cup {0}
      BY <1>3, HeldNodeIs DEF MarksInv, Marks, MarksShape
    <2>. HIDE DEF r_
    <2>. QED
      BY <1>3, <2>1, <2>2, HeldNodeIs, HeldTrailIs, HeldStepHolds
  <1>4. ASSUME N!MMWatch
        PROVE  MarksInv'
    <2>1. CASE node[holding].sig # "red"
      BY <1>4, <2>1, HeldNodeIs, FailsSoundly DEF N!MMWatch
    <2>2. CASE node[holding].sig = "red"
      BY <1>3, <1>4, <2>2 DEF N!MMWatch
    <2>. QED
      BY <2>1, <2>2
  <1>5. N!MMUnwatch => MarksInv'
    BY <1>3 DEF N!MMUnwatch
  <1>6. ASSUME N!MMAssert
        PROVE  MarksInv'
    <2>1. N!Holds
      BY <1>6 DEF N!MMAssert
    <2>2. CASE N!AssertFault(node[holding]) # "none"
      <3>1. N!Fails(N!AssertFault(node[holding]))
        BY <1>6, <2>2 DEF N!MMAssert
      <3>. QED
        BY <2>1, <2>2, <3>1, AssertFailsSoundly
    <2>3. CASE N!AssertFault(node[holding]) = "none"
      <3>1. UNCHANGED marks
        BY <1>6, <2>3 DEF N!MMAssert, N!markVars, marks
      <3>. QED
        BY <3>1, MarksStay
    <2>. QED
      BY <2>2, <2>3
  <1>7. ASSUME N!Overwrite
        PROVE  MarksInv'
    <2>. DEFINE r_ == N!Marked(node[holding], "data")
    <2>1. N!Holds /\ N!Change(holding, r_) /\ spoilt' = holding /\ UNCHANGED <<holding, doing, locked, report>>
      BY <1>7 DEF N!Overwrite
    <2>2. /\ r_ \in NodeOf(holding) /\ r_.list = node[holding].list /\ r_.sig = node[holding].sig
          /\ r_.key = locked /\ N!Trail(r_) = "data"
      BY <2>1, HeldNodeIs, MarkedIs
    <2>3. locked \in Keys \cup {0}
      BY <2>1, HeldNodeIs DEF MarksInv, Marks, MarksShape
    <2>. HIDE DEF r_
    <2>. QED
      BY <2>1, <2>2, <2>3, HeldNodeIs, HeldStepHolds
  <1>. QED
    BY <1>1, <1>2, <1>4, <1>5, <1>6, <1>7

\* The block moves: the new node is held, the old one is to be freed.
LEMMA MoveHolds ==
  ASSUME MarksInv, N!Move
  PROVE  MarksInv'
  <1>. DEFINE p_ == doing.of
              a_ == N!Marked(node[p_], "red")
              r_ == [a_ EXCEPT !.key = node[holding].key]
              o_ == [node[holding] EXCEPT !.key = 0]
  <1>. USE DEF MarksInv, Marks
  <1>1. /\ report = N!Quiet /\ doing.at = "moved trail"
        /\ doing' = [at |-> "free", of |-> holding] /\ holding' = p_ /\ UNCHANGED <<locked, spoilt, report>>
    BY DEF N!Move
  <1>2. /\ p_ \in N!MarkPools /\ holding \in N!MarkPools /\ p_ # holding /\ p_ # NoNode
        /\ node[p_] \in NodeOf(p_) /\ node[holding] \in NodeOf(holding) /\ spoilt = NoNode
    BY <1>1, DoingIs, PoolsAreIndices DEF MarksShape, Resizing, Steps, HeldIs, OtherIs
  <1>3. /\ ~node[p_].list /\ node[p_].sig = "red"
        /\ ~node[holding].list /\ node[holding].sig = "red" /\ node[holding].key = locked
        /\ N!Trail(node[holding]) = "red"
    BY <1>1, <1>2 DEF OtherIs, HeldIs, Steps
  <1>4. /\ node' = [q_ \in N!MarkPools |-> node'[q_]]
        /\ \A q_ \in N!MarkPools : node'[q_] = IF q_ = holding THEN o_ ELSE IF q_ = p_ THEN r_ ELSE node[q_]
    BY <1>1, <1>2 DEF MarksShape, N!Move
  <1>5. a_ \in NodeOf(p_) /\ ~a_.list /\ a_.sig = "red" /\ N!Trail(a_) = "red"
    BY <1>2, <1>3, MarkedIs
  <1>. HIDE DEF a_
  <1>6. r_ \in NodeOf(p_) /\ ~r_.list /\ r_.sig = "red" /\ N!Trail(r_) = "red" /\ r_.key = locked
    <2>1. node[holding].key \in Keys \cup {0}
      BY <1>1, <1>3 DEF MarksShape
    <2>. QED
      BY <1>2, <1>3, <1>5, <2>1, KeyedIs
  <1>7. /\ o_ \in NodeOf(holding) /\ ~o_.list /\ o_.sig = "red" /\ N!Trail(o_) = "red" /\ o_.key = 0
    BY <1>2, <1>3, KeyedIs
  <1>. HIDE DEF r_, o_
  <1>8. node'[p_] = r_ /\ node'[holding] = o_
    BY <1>2, <1>4
  <1>9. MarksShape'
    <2>1. \A q_ \in N!MarkPools : node'[q_] \in NodeOf(q_)
      BY <1>1, <1>6, <1>7, <1>4 DEF MarksShape
    <2>2. DoingShape'
      BY <1>1, <1>2 DEF DoingShape
    <2>. QED
      BY <1>1, <1>2, <1>4, <2>1, <2>2 DEF MarksShape
  <1>10. HeldIs'
    BY <1>1, <1>2, <1>6, <1>8 DEF HeldIs
  <1>11. OtherIs'
    BY <1>1, <1>2, <1>7, <1>8 DEF OtherIs, Steps
  <1>12. OthersListed'
    <2>1. ASSUME NEW q_ \in N!MarkPools, q_ # holding', q_ # doing'.of
          PROVE  node'[q_] = node[q_] /\ Listed(node[q_])
      BY <1>1, <1>4, <2>1 DEF OthersListed
    <2>. QED
      BY <2>1 DEF OthersListed, Listed, N!Trail
  <1>. QED
    BY <1>1, <1>9, <1>10, <1>11, <1>12, MarksAreKept

\* A node is freed: it was the owner's, or the one its block has moved from.
LEMMA NodeFreeHolds ==
  ASSUME MarksInv, report = N!Quiet, NEW p_ \in N!MarkPools, NEW by_, N!NodeFree(p_, by_),
         node[p_] \in NodeOf(p_), ~node[p_].list, node[p_].key = 0,
         N!Fault(node[p_]) # "none" => p_ = holding /\ (holding = spoilt \/ node[holding].sig = "watch"),
         node[p_].sig = "red" => spoilt = NoNode \/ spoilt = p_,
         \/ p_ = holding /\ by_ = NoNode /\ doing = N!Rest /\ locked = 0
         \/ p_ = doing.of /\ by_ = holding /\ doing.at = "free"
  PROVE  MarksInv'
  <1>. USE DEF MarksInv, Marks
  <1>1. CASE N!Fault(node[p_]) # "none"
    <2>1. N!Fails(N!Fault(node[p_]))
      BY <1>1 DEF N!NodeFree
    <2>. QED
      BY <1>1, <2>1, FailsSoundly
  <1>2. CASE N!Fault(node[p_]) = "none"
    <2>. DEFINE r_ == N!Marked(node[p_], "data")
    <2>1. /\ N!Change(p_, r_) /\ doing' = [at |-> "mark", of |-> p_] /\ holding' = by_
          /\ UNCHANGED <<locked, spoilt, report>>
      BY <1>2 DEF N!NodeFree
    <2>2. node[p_].sig = "red" /\ N!Trail(node[p_]) = "red"
      BY <1>2 DEF N!Fault
    <2>3. r_ \in NodeOf(p_) /\ ~r_.list /\ r_.key = 0 /\ r_.sig = "red"
      BY <2>2, MarkedIs
    <2>. HIDE DEF r_
    <2>4. spoilt = NoNode /\ p_ # NoNode /\ by_ # p_ /\ by_ \in N!MarkPools \cup {NoNode}
      BY <2>2, PoolsAreIndices DEF HeldIs, OtherIs, Steps, MarksShape
    <2>5. \A q_ \in N!MarkPools : node'[q_] = IF q_ = p_ THEN r_ ELSE node[q_]
      BY <2>1, <2>3, OneNodeChanges
    <2>6. HeldIs'
      <3>1. by_ # NoNode => node'[by_] = node[by_] /\ by_ = holding /\ doing.of # holding
        BY <2>4, <2>5 DEF OtherIs, Steps
      <3>. QED
        BY <2>1, <2>4, <3>1 DEF HeldIs
    <2>7. OtherIs'
      BY <2>1, <2>3, <2>4, <2>5 DEF OtherIs, Steps
    <2>8. DoingShape'
      BY <2>1 DEF DoingShape
    <2>9. \A q_ \in N!MarkPools : q_ # p_ /\ q_ # holding' => q_ # holding /\ q_ # doing.of
      BY <2>1, PoolsAreIndices DEF N!Rest
    <2>. QED
      BY <2>1, <2>3, <2>4, <2>6, <2>7, <2>8, <2>9, NodeStepHolds DEF MarksShape
  <1>. QED
    BY <1>1, <1>2

LEMMA FreeHolds ==
  ASSUME MarksInv, N!MMFree \/ N!FreeOld
  PROVE  MarksInv'
  <1>1. CASE N!MMFree
    <2>1. N!Holds /\ locked = 0 /\ N!NodeFree(holding, NoNode)
      BY <1>1 DEF N!MMFree
    <2>2. N!Fault(node[holding]) # "none" => holding = spoilt \/ node[holding].sig = "watch"
      BY <2>1, HeldNodeIs DEF N!Fault
    <2>3. spoilt = NoNode \/ spoilt = holding
      BY <2>1, HeldNodeIs
    <2>. QED
      BY <2>1, <2>2, <2>3, HeldNodeIs, NodeFreeHolds
  <1>2. CASE N!FreeOld
    <2>. USE DEF MarksInv, Marks
    <2>1. report = N!Quiet /\ doing.at = "free" /\ N!NodeFree(doing.of, holding)
      BY <1>2 DEF N!FreeOld
    <2>2. doing.of \in N!MarkPools /\ node[doing.of] \in NodeOf(doing.of) /\ spoilt = NoNode
      BY <2>1, DoingIs DEF MarksShape, HeldIs, Steps
    <2>3. /\ ~node[doing.of].list /\ node[doing.of].key = 0
          /\ node[doing.of].sig = "red" /\ N!Trail(node[doing.of]) = "red"
      BY <2>1 DEF OtherIs, Steps
    <2>4. N!Fault(node[doing.of]) = "none"
      BY <2>3 DEF N!Fault
    <2>. QED
      BY <2>1, <2>2, <2>3, <2>4, NodeFreeHolds
  <1>. QED
    BY <1>1, <1>2

LEMMA PutBackHolds ==
  ASSUME MarksInv, N!MarkFree \/ N!Push
  PROVE  MarksInv'
  <1>. DEFINE p_ == doing.of
  <1>. USE DEF MarksInv, Marks
  <1>1. report = N!Quiet /\ doing.at \in {"mark", "push"}
    BY DEF N!MarkFree, N!Push
  <1>2. /\ p_ \in N!MarkPools /\ node[p_] \in NodeOf(p_) /\ spoilt = NoNode /\ p_ # holding
        /\ doing = [at |-> doing.at, of |-> p_]
    BY <1>1, DoingIs DEF MarksShape, HeldIs, OtherIs, Steps
  <1>3. /\ ~node[p_].list /\ node[p_].key = 0
        /\ doing.at = "push" => node[p_].sig = "free" /\ N!Trail(node[p_]) = "free"
    BY <1>1, <1>2 DEF OtherIs, Steps
  <1>4. CASE N!MarkFree
    <2>. DEFINE a_ == [node[p_] EXCEPT !.size = Capacity[p_]]
                b_ == [a_ EXCEPT !.sig = "free"]
                r_ == N!Marked(b_, "free")
    <2>1. /\ N!Change(p_, r_) /\ doing' = [at |-> "push", of |-> p_] /\ UNCHANGED <<holding, locked, spoilt, report>>
      BY <1>2, <1>4 DEF N!MarkFree
    <2>2. a_ \in NodeOf(p_) /\ ~a_.list /\ a_.key = 0
      BY <1>2, <1>3, SizedIs, PoolsAreIndices
    <2>. HIDE DEF a_
    <2>3. b_ \in NodeOf(p_) /\ ~b_.list /\ b_.key = 0 /\ b_.sig = "free"
      BY <1>2, <2>2, SignedIs
    <2>. HIDE DEF b_
    <2>4. r_ \in NodeOf(p_) /\ ~r_.list /\ r_.key = 0 /\ r_.sig = "free" /\ N!Trail(r_) = "free"
      BY <1>2, <2>3, MarkedIs
    <2>. HIDE DEF r_
    <2>5. \A q_ \in N!MarkPools : node'[q_] = IF q_ = p_ THEN r_ ELSE node[q_]
      BY <1>1, <1>2, <2>1, <2>4, OneNodeChanges
    <2>6. holding # NoNode => node'[holding] = node[holding]
      BY <1>1, <1>2, <2>5 DEF MarksShape
    <2>7. HeldIs'
      BY <1>1, <1>2, <2>1, <2>6 DEF HeldIs
    <2>8. OtherIs'
      BY <1>2, <2>1, <2>4, <2>5 DEF OtherIs, Steps
    <2>9. DoingShape'
      BY <1>2, <2>1 DEF DoingShape
    <2>. QED
      BY <1>1, <1>2, <2>1, <2>4, <2>7, <2>8, <2>9, NodeStepHolds DEF MarksShape
  <1>5. CASE N!Push
    <2>. DEFINE r_ == [node[p_] EXCEPT !.list = TRUE]
    <2>1. /\ N!Change(p_, r_) /\ doing' = N!Rest /\ UNCHANGED <<holding, locked, spoilt, report>>
          /\ doing.at = "push"
      BY <1>5 DEF N!Push
    <2>2. r_ \in NodeOf(p_) /\ Listed(r_)
      BY <1>2, <1>3, <2>1, ListedIs DEF Listed
    <2>. HIDE DEF r_
    <2>3. \A q_ \in N!MarkPools : node'[q_] = IF q_ = p_ THEN r_ ELSE node[q_]
      BY <1>1, <1>2, <2>1, <2>2, OneNodeChanges
    <2>4. holding # NoNode => node'[holding] = node[holding]
      BY <1>1, <1>2, <2>3 DEF MarksShape
    <2>5. HeldIs'
      BY <1>1, <1>2, <2>1, <2>4 DEF HeldIs
    <2>6. OtherIs'
      BY <2>1 DEF OtherIs, Steps, N!Rest
    <2>7. DoingShape'
      BY <2>1 DEF DoingShape, N!Rest
    <2>. QED
      BY <1>1, <1>2, <2>1, <2>2, <2>5, <2>6, <2>7, NodeStepHolds DEF MarksShape
  <1>. QED
    BY <1>4, <1>5

\* A validation fails only for what the owner has done, or is doing.
LEMMA ValidateHolds ==
  ASSUME MarksInv, NEW p_ \in N!MarkPools, N!Validate(p_)
  PROVE  MarksInv'
  <1>. DEFINE fault == IF node[p_].list THEN N!FaultFree(node[p_]) ELSE N!Fault(node[p_])
  <1>. USE DEF MarksInv, Marks
  <1>1. /\ report = N!Quiet /\ UNCHANGED <<node, holding, doing, locked, spoilt>>
        /\ report' = IF fault = "none" THEN N!Quiet ELSE [what |-> fault, by |-> "validate"]
    BY DEF N!Validate
  <1>2. CASE fault = "none"
    <2>1. UNCHANGED marks
      BY <1>1, <1>2 DEF marks
    <2>. QED
      BY <2>1, MarksStay
  <1>3. CASE fault # "none"
    <2>1. spoilt # NoNode \/ doing # N!Rest \/ node[holding].sig = "watch"
      <3>1. CASE p_ # holding /\ p_ # doing.of
        BY <1>1, <1>3, <3>1 DEF OthersListed, Listed, N!FaultFree
      <3>2. CASE p_ = holding
        BY <1>1, <1>3, <3>2, PoolsAreIndices DEF HeldIs, N!Fault, N!Rest
      <3>3. CASE p_ = doing.of
        BY <3>3, PoolsAreIndices DEF N!Rest
      <3>. QED
        BY <3>1, <3>2, <3>3
    <2>. HIDE DEF fault
    <2>2. report' # N!Quiet /\ report'.by = "validate"
      BY <1>1, <1>3 DEF N!Quiet
    <2>. QED
      BY <1>1, <2>1, <2>2 DEF N!MarksSound, N!Idle, N!Rest, HeldIs
  <1>. QED
    BY <1>2, <1>3

LEMMA MarksInitHold == N!MarksInit => MarksInv
  <1>. SUFFICES ASSUME N!MarksInit
                PROVE  MarksInv
    OBVIOUS
  <1>1. ASSUME NEW p_ \in N!MarkPools
        PROVE  node[p_] \in NodeOf(p_) /\ Listed(node[p_])
    <2>. DEFINE c_ == [i_ \in 1..(Capacity[p_] + 1) |-> "data"]
                r_ == [list |-> TRUE, size |-> Capacity[p_], sig |-> "free", key |-> 0, cell |-> c_]
    <2>1. node[p_] = N!Marked(r_, "free")
      BY DEF N!MarksInit
    <2>2. c_ \in [1..(Capacity[p_] + 1) -> {"data", "free", "red"}]
      OBVIOUS
    <2>. HIDE DEF c_
    <2>3. r_ \in NodeOf(p_) /\ r_.list /\ r_.sig = "free" /\ r_.key = 0
      BY <2>2, PoolsAreIndices DEF NodeOf
    <2>. HIDE DEF r_
    <2>. QED
      BY <2>1, <2>3, MarkedIs DEF Listed
  <1>2. MarksShape
    BY <1>1 DEF N!MarksInit, MarksShape, DoingShape
  <1>3. HeldIs /\ OtherIs /\ OthersListed
    BY <1>1 DEF N!MarksInit, HeldIs, OtherIs, OthersListed, Steps, N!Rest
  <1>4. N!MarksSound
    BY <1>1, PoolsAreIndices DEF N!MarksInit, N!MarksSound, N!Quiet, N!Rest, N!FaultFree, Listed
  <1>. QED
    BY <1>2, <1>3, <1>4 DEF MarksInv, Marks

LEMMA MarksNextHold ==
  ASSUME MarksInv, [Next]_vars
  PROVE  MarksInv'
  <1>1. N!MarksNext => MarksInv'
    BY AllocHolds, ReallocHolds, SetSizeHolds, SetTrailHolds, MoveHolds, SizeHolds, FreeHolds,
       PutBackHolds, MarkingHolds, ValidateHolds DEF N!MarksNext
  <1>. QED
    BY <1>1, OnePartMoves, MarksStay

\* An assertion on the marks of a node fails for no reason but the owner's, and
\* what it wrote behind its block is found (slab.c:149-217, 714-760, 918-985).
THEOREM MarksAreSound == Spec => []N!MarksSound
  <1>1. Init => MarksInv
    BY MarksInitHold DEF Init
  <1>2. MarksInv => N!MarksSound
    BY DEF MarksInv
  <1>. QED
    BY <1>1, <1>2, MarksNextHold, PTL DEF Spec
-----------------------------------------------------------------------------
(* Sizes and contents: a block is a node of its pool, and what each        *)
(* operation on a node keeps of it.                                        *)

LEMMA MinIs ==
  ASSUME NEW set \in SUBSET Int, NEW m_ \in set, \A y_ \in set : m_ <= y_
  PROVE  Min(set) = m_
  <1>1. \E x_ \in set : \A y_ \in set : x_ <= y_
    OBVIOUS
  <1>2. Min(set) \in set /\ \A y_ \in set : Min(set) <= y_
    BY <1>1 DEF Min
  <1>3. m_ \in Int /\ Min(set) \in Int /\ m_ <= Min(set) /\ Min(set) <= m_
    BY <1>2
  <1>. QED
    BY <1>3

LEMMA MinOfTwo ==
  ASSUME NEW a_ \in Nat, NEW b_ \in Nat
  PROVE  Min({a_, b_}) = IF a_ <= b_ THEN a_ ELSE b_
  <1>1. CASE a_ <= b_
    BY <1>1, MinIs
  <1>2. CASE ~(a_ <= b_)
    BY <1>2, MinIs
  <1>. QED
    BY <1>1, <1>2

\* The search ends at the first pool that can serve the size.
LEMMA PoolForIs ==
  ASSUME NEW n_ \in Nat
  PROVE  /\ PoolFor(n_) \in 1..Huge
         /\ PoolFor(n_) # Huge => n_ <= Sizes[PoolFor(n_)]
         /\ \A j_ \in Pools : j_ < PoolFor(n_) => n_ > Sizes[j_]
  <1>. DEFINE i_ == IF n_ > Sizes[8] THEN 8 ELSE 0
              j_ == i_ + (IF n_ > Sizes[i_ + 4] THEN 4 ELSE 0)
              k_ == j_ + (IF n_ > Sizes[j_ + 2] THEN 2 ELSE 0)
  <1>0. \A p_ \in Pools : Sizes[p_] \in Nat
    BY SizesAssumption
  <1>1. /\ i_ \in {0, 8} /\ (i_ > 0 => n_ > Sizes[i_])
        /\ i_ = 0 => n_ <= Sizes[8]
    BY <1>0 DEF Pools
  <1>. HIDE DEF i_
  <1>2. /\ j_ \in {0, 4, 8, 12} /\ (j_ > 0 => n_ > Sizes[j_])
        /\ j_ < 12 => n_ <= Sizes[j_ + 4]
    <2>1. CASE i_ = 0
      BY <1>0, <1>1, <2>1 DEF Pools
    <2>2. CASE i_ = 8
      BY <1>0, <1>1, <2>2 DEF Pools
    <2>. QED
      BY <1>1, <2>1, <2>2
  <1>. HIDE DEF j_
  <1>3. /\ k_ \in {0, 2, 4, 6, 8, 10, 12, 14} /\ (k_ > 0 => n_ > Sizes[k_])
        /\ k_ < 14 => n_ <= Sizes[k_ + 2]
    <2>1. j_ + 2 \in Pools /\ Sizes[j_ + 2] \in Nat
      BY <1>0, <1>2 DEF Pools
    <2>2. CASE n_ > Sizes[j_ + 2]
      BY <1>2, <2>1, <2>2
    <2>3. CASE ~(n_ > Sizes[j_ + 2])
      BY <1>2, <2>1, <2>3
    <2>. QED
      BY <2>2, <2>3
  <1>4. PoolFor(n_) = IF n_ <= Sizes[k_ + 1] THEN k_ + 1 ELSE IF n_ <= Sizes[k_ + 2] THEN k_ + 2 ELSE Huge
    BY DEF PoolFor, i_, j_
  <1>. HIDE DEF k_
  <1>5. k_ + 1 \in Pools /\ k_ + 2 \in Pools /\ k_ \in Nat /\ Sizes[k_ + 1] \in Nat /\ Sizes[k_ + 2] \in Nat
    BY <1>0, <1>3 DEF Pools
  <1>6. \A p_ \in Pools : p_ <= k_ => n_ > Sizes[p_]
    <2>1. ASSUME NEW p_ \in Pools, p_ <= k_
          PROVE  n_ > Sizes[p_]
      <3>1. k_ \in Pools /\ k_ > 0 /\ n_ > Sizes[k_]
        BY <1>3, <2>1 DEF Pools
      <3>2. Sizes[p_] <= Sizes[k_]
        BY <1>0, <2>1, <3>1, SizesAssumption DEF Pools
      <3>. QED
        BY <1>0, <3>1, <3>2
    <2>. QED
      BY <2>1
  <1>7. CASE n_ <= Sizes[k_ + 1]
    BY <1>4, <1>5, <1>6, <1>7 DEF Huge, Pools
  <1>8. CASE ~(n_ <= Sizes[k_ + 1]) /\ n_ <= Sizes[k_ + 2]
    <2>1. PoolFor(n_) = k_ + 2
      BY <1>4, <1>8
    <2>2. \A p_ \in Pools : p_ < k_ + 2 => p_ <= k_ \/ p_ = k_ + 1
      BY <1>5 DEF Pools
    <2>3. n_ > Sizes[k_ + 1]
      BY <1>5, <1>8
    <2>. QED
      BY <1>5, <1>6, <1>8, <2>1, <2>2, <2>3 DEF Huge, Pools
  <1>9. CASE ~(n_ <= Sizes[k_ + 1]) /\ ~(n_ <= Sizes[k_ + 2])
    <2>1. PoolFor(n_) = Huge /\ k_ = 14
      BY <1>3, <1>4, <1>9
    <2>2. \A p_ \in Pools : p_ <= k_ \/ p_ = k_ + 1 \/ p_ = k_ + 2
      BY <2>1 DEF Pools
    <2>3. n_ > Sizes[k_ + 1] /\ n_ > Sizes[k_ + 2]
      BY <1>5, <1>9
    <2>. QED
      BY <1>6, <2>1, <2>2, <2>3 DEF Huge
  <1>. QED
    BY <1>7, <1>8, <1>9

\* The search finds the smallest pool that can serve a size (slab.c:1693-1703),
\* whatever the sixteen sizes are.
THEOREM SearchFits == PoolFits
  <1>1. ASSUME NEW n_ \in 0..MaxSize
        PROVE  PoolFor(n_) = Min({i_ \in Pools : n_ <= Sizes[i_]} \cup {Huge})
    <2>. DEFINE fit == {i_ \in Pools : n_ <= Sizes[i_]} \cup {Huge}
    <2>1. n_ \in Nat /\ fit \in SUBSET Int
      BY SizesAssumption DEF Pools, Huge
    <2>2. PoolFor(n_) \in fit /\ \A y_ \in fit : PoolFor(n_) <= y_
      <3>1. \A p_ \in Pools : Sizes[p_] \in Nat
        BY SizesAssumption
      <3>. QED
        BY <2>1, <3>1, PoolForIs DEF Pools, Huge
    <2>. QED
      BY <2>1, <2>2, MinIs
  <1>. QED
    BY <1>1 DEF PoolFits

Byte == {"text", "zero", "junk"}

\* A node has all of its pool's size, and gives away no more.
NodeIs(b_) ==
  b_ \in Nodes /\ b_.size <= Len(b_.data) /\ (b_.pool # Huge => Len(b_.data) = Sizes[b_.pool])

NodeInv ==
  /\ block = NoBlock \/ NodeIs(block)
  /\ text \in Nat /\ clean \in BOOLEAN /\ string \in BOOLEAN
  /\ block = NoBlock => text = 0 /\ ~string

BlockInv == NodeInv /\ BlockSound

LEMMA NodesAre ==
  ASSUME NEW b_, NodeIs(b_)
  PROVE  /\ b_ = [pool |-> b_.pool, size |-> b_.size, data |-> b_.data] /\ b_ # NoBlock
         /\ b_.pool \in 1..Huge /\ b_.size \in 0..Len(b_.data) /\ Len(b_.data) \in Nat
         /\ b_.data \in [1..Len(b_.data) -> Byte]
  <1>1. b_ \in Nodes /\ b_.size <= Len(b_.data)
    BY DEF NodeIs
  <1>2. b_ = [pool |-> b_.pool, size |-> b_.size, data |-> b_.data] /\ b_.pool \in Pools \cup {Huge}
        /\ b_.size \in Nat /\ b_.data \in Seq(Byte)
    BY <1>1 DEF Nodes, Byte
  <1>3. Len(b_.data) \in Nat /\ b_.data \in [1..Len(b_.data) -> Byte]
    BY <1>2
  <1>4. b_ # NoBlock
    <2>1. NoBlock \notin Nodes
      BY SizesAssumption
    <2>. QED
      BY <1>1, <2>1
  <1>5. b_.pool \in 1..Huge
    BY <1>2 DEF Pools, Huge
  <1>6. b_.size \in 0..Len(b_.data)
    BY <1>1, <1>2, <1>3
  <1>. QED
    BY <1>2, <1>3, <1>4, <1>5, <1>6

LEMMA NodeMade ==
  ASSUME NEW p_ \in 1..Huge, NEW m_ \in Nat, NEW n_ \in 0..m_, NEW d_ \in [1..m_ -> Byte],
         p_ # Huge => m_ = Sizes[p_]
  PROVE  NodeIs([pool |-> p_, size |-> n_, data |-> d_]) /\ Len(d_) = m_
  BY DEF NodeIs, Nodes, Pools, Huge, Byte

\* A node of which a part was filled.
Filled(f_, b_, from_, to_, v_) ==
  /\ NodeIs(f_) /\ f_.pool = b_.pool /\ f_.size = b_.size /\ Len(f_.data) = Len(b_.data)
  /\ \A k_ \in 1..Len(b_.data) : f_.data[k_] = IF from_ < k_ /\ k_ <= to_ THEN v_ ELSE b_.data[k_]

LEMMA FillIs ==
  ASSUME NEW b_, NodeIs(b_), NEW from_ \in Nat, NEW to_ \in Nat, NEW v_ \in Byte
  PROVE  Filled(Fill(b_, from_, to_, v_), b_, from_, to_, v_)
  <1>. DEFINE d_ == [k_ \in 1..Len(b_.data) |-> IF from_ < k_ /\ k_ <= to_ THEN v_ ELSE b_.data[k_]]
  <1>1. Fill(b_, from_, to_, v_) = [pool |-> b_.pool, size |-> b_.size, data |-> d_]
    <2>1. DOMAIN b_.data = 1..Len(b_.data)
      BY NodesAre
    <2>2. Fill(b_, from_, to_, v_) = [b_ EXCEPT !.data = d_]
      BY <2>1 DEF Fill
    <2>. HIDE DEF d_
    <2>3. b_ = [pool |-> b_.pool, size |-> b_.size, data |-> b_.data]
      BY NodesAre
    <2>4. [b_ EXCEPT !.data = d_] = [pool |-> b_.pool, size |-> b_.size, data |-> d_]
      BY <2>3
    <2>. QED
      BY <2>2, <2>4
  <1>2. d_ \in [1..Len(b_.data) -> Byte]
    BY NodesAre
  <1>3. \A k_ \in 1..Len(b_.data) : d_[k_] = IF from_ < k_ /\ k_ <= to_ THEN v_ ELSE b_.data[k_]
    OBVIOUS
  <1>. HIDE DEF d_
  <1>4. NodeIs([pool |-> b_.pool, size |-> b_.size, data |-> d_]) /\ Len(d_) = Len(b_.data)
    <2>1. b_.pool # Huge => Len(b_.data) = Sizes[b_.pool]
      BY DEF NodeIs
    <2>. QED
      BY <1>2, <2>1, NodesAre, NodeMade
  <1>. QED
    BY <1>1, <1>3, <1>4 DEF Filled

\* A number of bytes is rounded up to pages.
LEMMA PageFits ==
  ASSUME NEW n_ \in Nat
  PROVE  PageFit(n_) \in Nat /\ PageFit(n_) >= n_
  <1>. DEFINE m_ == n_ + (IF n_ % PageSize # 0 THEN PageSize ELSE 0)
              q_ == m_ \div PageSize
              r_ == m_ % PageSize
              s_ == n_ % PageSize
  <1>1. PageSize \in Nat \ {0}
    BY SizesAssumption
  <1>2. s_ \in 0..(PageSize - 1) /\ n_ = PageSize * (n_ \div PageSize) + s_ /\ n_ \div PageSize \in Nat
    BY <1>1
  <1>3. m_ \in Nat /\ r_ \in 0..(PageSize - 1) /\ m_ = PageSize * q_ + r_ /\ q_ \in Nat
    BY <1>1
  <1>4. PageFit(n_) = q_ * PageSize
    BY DEF PageFit
  <1>5. CASE s_ = 0
    <2>1. m_ = n_
      BY <1>5
    <2>2. r_ = 0
      BY <1>5, <2>1
    <2>. HIDE DEF m_, q_, r_, s_
    <2>3. q_ * PageSize = n_
      BY <1>1, <1>3, <2>1, <2>2
    <2>. QED
      BY <1>4, <2>3
  <1>6. CASE s_ # 0
    <2>1. m_ = n_ + PageSize
      BY <1>6
    <2>. HIDE DEF m_, q_, r_, s_
    <2>2. q_ * PageSize = m_ - r_ /\ m_ - r_ > n_
      BY <1>1, <1>3, <2>1
    <2>. QED
      BY <1>3, <1>4, <2>1, <2>2
  <1>. QED
    BY <1>5, <1>6

LEMMA AllocIs ==
  ASSUME NEW n_ \in Nat, NEW actual_ \in BOOLEAN
  PROVE  /\ NodeIs(Alloc(n_, actual_)) /\ Alloc(n_, actual_).size >= n_
         /\ ~actual_ => Alloc(n_, actual_).size = n_
  <1>. DEFINE i_ == PoolFor(n_)
              all_ == IF i_ = Huge THEN PageFit(n_ + Overhead) - Overhead ELSE Sizes[i_]
              d_ == Bytes(all_, IF i_ = Huge THEN "zero" ELSE "junk")
              s_ == IF actual_ THEN all_ ELSE n_
  <1>1. Alloc(n_, actual_) = [pool |-> i_, size |-> s_, data |-> d_]
    BY DEF Alloc
  <1>2. all_ \in Nat /\ n_ <= all_ /\ i_ \in 1..Huge /\ (i_ # Huge => all_ = Sizes[i_])
    <2>1. CASE i_ = Huge
      <3>1. PageFit(n_ + Overhead) \in Nat /\ PageFit(n_ + Overhead) >= n_ + Overhead
        BY PageFits, SizesAssumption
      <3>. QED
        BY <2>1, <3>1, PoolForIs, SizesAssumption
    <2>2. CASE i_ # Huge
      <3>1. i_ \in Pools /\ n_ <= Sizes[i_]
        BY <2>2, PoolForIs DEF Huge, Pools
      <3>. QED
        BY <2>2, <3>1, PoolForIs, SizesAssumption
    <2>. QED
      BY <2>1, <2>2
  <1>3. d_ \in [1..all_ -> Byte]
    BY DEF Bytes, Byte
  <1>4. s_ \in 0..all_ /\ s_ >= n_ /\ (~actual_ => s_ = n_)
    BY <1>2
  <1>. HIDE DEF i_, all_, d_, s_
  <1>5. NodeIs([pool |-> i_, size |-> s_, data |-> d_])
    BY <1>2, <1>3, <1>4, NodeMade
  <1>. QED
    BY <1>1, <1>4, <1>5

\* A node that carries what fits of another, with zeros behind it.
Carries(c_, b_, n_, zero_) ==
  /\ NodeIs(c_) /\ c_.size >= n_
  /\ \A k_ \in 1..Len(c_.data) : k_ <= b_.size /\ k_ <= c_.size => c_.data[k_] = b_.data[k_]
  /\ zero_ => \A k_ \in 1..Len(c_.data) : b_.size < k_ /\ k_ <= c_.size => c_.data[k_] = "zero"

\* In place or moved, a node keeps what fits, and gets zeros behind it if they
\* were asked for.
LEMMA AllocExIs ==
  ASSUME NEW b_, NodeIs(b_), NEW n_ \in Nat, NEW actual_ \in BOOLEAN, NEW zero_ \in BOOLEAN
  PROVE  Carries(AllocEx(b_, n_, actual_, zero_), b_, n_, zero_)
  <1>. DEFINE c_ == AllocEx(b_, n_, actual_, zero_)
  <1>. USE NodesAre
  <1>0. b_ # NoBlock /\ b_.size \in Nat /\ "zero" \in Byte
    BY DEF Byte
  <1>1. CASE InPlace(b_, n_)
    <2>. DEFINE s_ == IF actual_ THEN Sizes[b_.pool] ELSE n_
                d_ == [b_ EXCEPT !.size = s_]
    <2>1. AllocEx(b_, n_, actual_, zero_) = IF zero_ THEN Fill(d_, b_.size, s_, "zero") ELSE d_
      BY <1>0, <1>1 DEF AllocEx, Resized
    <2>2. /\ b_.pool # Huge /\ b_.pool \in 1..Huge /\ n_ <= Len(b_.data) /\ Len(b_.data) = Sizes[b_.pool]
          /\ b_.data \in [1..Len(b_.data) -> Byte] /\ Len(b_.data) \in Nat
      BY <1>1 DEF InPlace, NodeIs
    <2>3. s_ \in 0..Len(b_.data) /\ s_ >= n_
      BY <2>2
    <2>. HIDE DEF s_
    <2>4. d_ = [pool |-> b_.pool, size |-> s_, data |-> b_.data]
      OBVIOUS
    <2>5. NodeIs(d_)
      BY <2>2, <2>3, <2>4, NodeMade
    <2>6. d_.size = s_ /\ d_.data = b_.data
      BY <2>4
    <2>. HIDE DEF d_
    <2>7. CASE zero_
      <3>1. c_ = Fill(d_, b_.size, s_, "zero")
        BY <2>1, <2>7
      <3>2. b_.size \in Nat /\ s_ \in Nat /\ Len(b_.data) \in Nat
        BY <1>0, <2>2, <2>3
      <3>3. Filled(c_, d_, b_.size, s_, "zero")
        BY ONLY <1>0, <2>5, <3>1, <3>2, FillIs
      <3>4. /\ NodeIs(c_) /\ c_.size = s_
            /\ Len(c_.data) = Len(b_.data)
            /\ \A k_ \in 1..Len(b_.data) :
                 c_.data[k_] =
                   IF b_.size < k_ /\ k_ <= s_ THEN "zero" ELSE b_.data[k_]
        BY ONLY <2>6, <3>3 DEF Filled
      <3>. HIDE DEF c_
      <3>5. \A k_ \in 1..Len(b_.data) :
              /\ k_ <= b_.size /\ k_ <= s_ => c_.data[k_] = b_.data[k_]
              /\ b_.size < k_ /\ k_ <= s_ => c_.data[k_] = "zero"
        BY <3>2, <3>4
      <3>6. NodeIs(c_) /\ c_.size = s_ /\ Len(c_.data) = Len(b_.data) /\ s_ >= n_
        BY <2>3, <3>4
      <3>. QED
        BY ONLY <3>5, <3>6 DEF c_, Carries
    <2>8. CASE ~zero_
      BY <2>1, <2>3, <2>5, <2>6, <2>8 DEF Carries
    <2>. QED
      BY <2>7, <2>8
  <1>2. CASE ~InPlace(b_, n_)
    <2>. DEFINE e_ == Alloc(n_, actual_)
                kept_ == Min({b_.size, e_.size})
                v_ == [k_ \in DOMAIN e_.data |-> IF k_ <= kept_ THEN b_.data[k_] ELSE e_.data[k_]]
                d_ == [e_ EXCEPT !.data = v_]
    <2>1. AllocEx(b_, n_, actual_, zero_) = IF zero_ THEN Fill(d_, kept_, e_.size, "zero") ELSE d_
      <3>1. c_ = Moved(b_, n_, actual_, zero_)
        BY <1>0, <1>2 DEF AllocEx
      <3>2. d_.size = e_.size
        BY AllocIs
      <3>. QED
        BY <3>1, <3>2 DEF Moved
    <2>2. NodeIs(e_) /\ e_.size >= n_
      BY AllocIs
    <2>. HIDE DEF e_
    <2>3. /\ e_.size \in Nat /\ kept_ = IF b_.size <= e_.size THEN b_.size ELSE e_.size
      <3>1. e_.size \in Nat
        BY ONLY <2>2 DEF NodeIs, Nodes
      <3>2. b_.size \in Nat
        BY ONLY <1>0
      <3>. QED
        BY ONLY <3>1, <3>2, MinOfTwo DEF kept_
    <2>. HIDE DEF kept_
    <2>4. v_ \in [1..Len(e_.data) -> Byte]
          /\ \A k_ \in 1..Len(e_.data) : v_[k_] = IF k_ <= kept_ THEN b_.data[k_] ELSE e_.data[k_]
      <3>1. DOMAIN e_.data = 1..Len(e_.data) /\ \A k_ \in 1..Len(e_.data) : e_.data[k_] \in Byte
        BY <2>2
      <3>2. \A k_ \in 1..Len(e_.data) : k_ <= kept_ => b_.data[k_] \in Byte
        BY <1>0, <2>2, <2>3
      <3>. QED
        BY <3>1, <3>2
    <2>. HIDE DEF v_
    <2>5. d_ = [pool |-> e_.pool, size |-> e_.size, data |-> v_]
      BY <2>2
    <2>6. NodeIs(d_) /\ Len(d_.data) = Len(e_.data) /\ d_.size = e_.size /\ d_.data = v_
      <3>1. e_.pool # Huge => Len(e_.data) = Sizes[e_.pool]
        BY <2>2 DEF NodeIs
      <3>2. NodeIs([pool |-> e_.pool, size |-> e_.size, data |-> v_]) /\ Len(v_) = Len(e_.data)
        <4>1. e_.pool \in 1..Huge /\ Len(e_.data) \in Nat /\ e_.size \in 0..Len(e_.data)
          BY ONLY <2>2, NodesAre
        <4>. QED
          BY ONLY <2>4, <3>1, <4>1, NodeMade
      <3>. QED
        BY <2>5, <3>2
    <2>. HIDE DEF d_
    <2>7. CASE zero_
      <3>1. c_ = Fill(d_, kept_, e_.size, "zero")
        BY <2>1, <2>7
      <3>2. /\ kept_ \in Nat /\ e_.size \in Nat /\ b_.size \in Nat /\ Len(e_.data) \in Nat
            /\ e_.size <= Len(e_.data)
        BY <1>0, <2>2, <2>3
      <3>3. Filled(c_, d_, kept_, e_.size, "zero")
        BY ONLY <1>0, <2>6, <3>1, <3>2, FillIs
      <3>4. /\ NodeIs(c_) /\ c_.size = e_.size
            /\ Len(c_.data) = Len(e_.data)
            /\ \A k_ \in 1..Len(e_.data) :
                 c_.data[k_] =
                   IF kept_ < k_ /\ k_ <= e_.size THEN "zero" ELSE v_[k_]
        BY ONLY <2>6, <3>3 DEF Filled
      <3>. HIDE DEF c_
      <3>5. \A k_ \in 1..Len(e_.data) : k_ <= b_.size /\ k_ <= e_.size => c_.data[k_] = b_.data[k_]
        <4>1. \A k_ \in 1..Len(e_.data) : k_ <= b_.size /\ k_ <= e_.size => k_ <= kept_
          BY <2>3, <3>2
        <4>2. \A k_ \in 1..Len(e_.data) : k_ <= kept_ => c_.data[k_] = v_[k_] /\ v_[k_] = b_.data[k_]
          BY <2>4, <3>2, <3>4
        <4>. QED
          BY <4>1, <4>2
      <3>6. \A k_ \in 1..Len(e_.data) : b_.size < k_ /\ k_ <= e_.size => c_.data[k_] = "zero"
        BY <2>3, <3>2, <3>4
      <3>7. NodeIs(c_) /\ c_.size = e_.size /\ Len(c_.data) = Len(e_.data) /\ c_.size >= n_
        BY <2>2, <3>4
      <3>. QED
        BY ONLY <3>5, <3>6, <3>7 DEF c_, Carries
    <2>8. CASE ~zero_
      BY <1>0, <2>1, <2>2, <2>3, <2>4, <2>6, <2>8 DEF Carries
    <2>. QED
      BY <2>7, <2>8
  <1>. QED
    BY <1>1, <1>2 DEF Carries

\* A new block.
LEMMA AllocNewIs ==
  ASSUME NEW n_ \in Nat, NEW actual_ \in BOOLEAN, NEW zero_ \in BOOLEAN
  PROVE  LET c_ == AllocEx(NoBlock, n_, actual_, zero_) IN
         /\ NodeIs(c_) /\ c_.size >= n_
         /\ zero_ => \A k_ \in 1..Len(c_.data) : k_ <= c_.size => c_.data[k_] = "zero"
  <1>. DEFINE e_ == Alloc(n_, actual_)
  <1>1. AllocEx(NoBlock, n_, actual_, zero_) = IF zero_ THEN Fill(e_, 0, e_.size, "zero") ELSE e_
    BY DEF AllocEx
  <1>2. NodeIs(e_) /\ e_.size >= n_ /\ "zero" \in Byte
    BY AllocIs DEF Byte
  <1>. HIDE DEF e_
  <1>3. e_.size \in 0..Len(e_.data) /\ Len(e_.data) \in Nat
    BY <1>2, NodesAre
  <1>4. CASE zero_
    <2>1. 0 \in Nat /\ e_.size \in Nat
      BY <1>3
    <2>2. Filled(AllocEx(NoBlock, n_, actual_, zero_), e_, 0, e_.size, "zero")
      BY <1>1, <1>2, <1>4, <2>1, FillIs
    <2>. QED
      BY ONLY <1>2, <1>3, <2>2 DEF Filled
  <1>5. CASE ~zero_
    BY <1>1, <1>2, <1>5
  <1>. QED
    BY <1>4, <1>5

\* A node whose first bytes are a string of that length.
StringIs(b_, t_) ==
  /\ NodeIs(b_) /\ t_ \in Nat /\ t_ < b_.size
  /\ \A k_ \in 1..t_ : b_.data[k_] = "text"
  /\ b_.data[t_ + 1] = "zero"

\* The first zero ends it.
LEMMA UsedIs ==
  ASSUME NEW b_, NEW t_, StringIs(b_, t_)
  PROVE  Used(b_) = t_
  <1>. DEFINE zeros == {k_ \in 1..b_.size : b_.data[k_] = "zero"}
  <1>1. b_.size \in Nat /\ t_ \in Nat /\ t_ < b_.size
    BY DEF StringIs, NodeIs, Nodes
  <1>2. zeros \in SUBSET Int /\ t_ + 1 \in zeros
    BY <1>1 DEF StringIs
  <1>3. \A y_ \in zeros : t_ + 1 <= y_
    <2>1. \A y_ \in 1..t_ : b_.data[y_] # "zero"
      BY DEF StringIs
    <2>. QED
      BY <1>1, <2>1
  <1>4. Min(zeros) = t_ + 1
    <2>. HIDE DEF zeros
    <2>. QED
      BY <1>2, <1>3, MinIs
  <1>. QED
    BY <1>1, <1>4 DEF Used

\* What is appended takes the place of the terminator, with one of its own.
LEMMA AppendedIs ==
  ASSUME NEW b_, NEW t_, StringIs(b_, t_), NEW n_ \in Nat, t_ + n_ + 1 <= b_.size
  PROVE  StringIs(Appended(b_, n_), t_ + n_)
  <1>. DEFINE f_ == Fill(b_, t_, t_ + n_, "text")
              g_ == Fill(f_, t_ + n_, t_ + n_ + 1, "zero")
  <1>1. Appended(b_, n_) = g_
    BY UsedIs DEF Appended
  <1>2. NodeIs(b_) /\ t_ \in Nat /\ "text" \in Byte /\ "zero" \in Byte
    BY DEF StringIs, Byte
  <1>3. Filled(f_, b_, t_, t_ + n_, "text")
    BY <1>2, FillIs
  <1>. HIDE DEF f_
  <1>4. Filled(g_, f_, t_ + n_, t_ + n_ + 1, "zero")
    <2>1. NodeIs(f_) /\ t_ + n_ \in Nat /\ t_ + n_ + 1 \in Nat
      BY <1>2, <1>3 DEF Filled
    <2>. QED
      BY <1>2, <2>1, FillIs
  <1>. HIDE DEF g_
  <1>5. Len(b_.data) \in Nat /\ b_.size \in 0..Len(b_.data)
    BY <1>2, NodesAre
  <1>6. NodeIs(g_) /\ g_.size = b_.size
    BY <1>3, <1>4 DEF Filled
  <1>7. \A k_ \in 1..Len(b_.data) :
          f_.data[k_] = IF t_ < k_ /\ k_ <= t_ + n_ THEN "text" ELSE b_.data[k_]
    BY <1>3 DEF Filled
  <1>8. \A k_ \in 1..Len(b_.data) :
          g_.data[k_] = IF t_ + n_ < k_ /\ k_ <= t_ + n_ + 1 THEN "zero" ELSE f_.data[k_]
    BY <1>3, <1>4 DEF Filled
  <1>9. \A k_ \in 1..t_ : b_.data[k_] = "text"
    BY DEF StringIs
  <1>10. \A k_ \in 1..(t_ + n_) : g_.data[k_] = "text"
    BY <1>2, <1>5, <1>7, <1>8, <1>9
  <1>11. g_.data[t_ + n_ + 1] = "zero"
    BY <1>2, <1>5, <1>8
  <1>. QED
    BY <1>1, <1>2, <1>5, <1>6, <1>10, <1>11 DEF StringIs

\* A larger node has the same string.
LEMMA LargerString ==
  ASSUME NEW b_, NEW t_, StringIs(b_, t_), NEW n_ \in Nat, t_ < n_, NEW actual_ \in BOOLEAN,
         NEW zero_ \in BOOLEAN
  PROVE  StringIs(AllocEx(b_, n_, actual_, zero_), t_) /\ AllocEx(b_, n_, actual_, zero_).size >= n_
  <1>. DEFINE c_ == AllocEx(b_, n_, actual_, zero_)
  <1>1. NodeIs(b_) /\ t_ \in Nat /\ t_ < b_.size
    BY DEF StringIs
  <1>2. /\ NodeIs(c_) /\ c_.size >= n_
        /\ \A k_ \in 1..Len(c_.data) : k_ <= b_.size /\ k_ <= c_.size => c_.data[k_] = b_.data[k_]
    BY <1>1, AllocExIs DEF Carries
  <1>. HIDE DEF c_
  <1>3. c_.size \in Nat /\ Len(c_.data) \in Nat /\ c_.size <= Len(c_.data) /\ b_.size \in Nat
    BY <1>1, <1>2, NodesAre
  <1>4. \A k_ \in 1..(t_ + 1) : c_.data[k_] = b_.data[k_]
    BY <1>1, <1>2, <1>3
  <1>5. StringIs(c_, t_)
    <2>1. \A k_ \in 1..t_ : b_.data[k_] = "text"
      BY DEF StringIs
    <2>2. b_.data[t_ + 1] = "zero"
      BY DEF StringIs
    <2>3. \A k_ \in 1..t_ : c_.data[k_] = "text"
      BY <1>1, <1>4, <2>1
    <2>4. c_.data[t_ + 1] = "zero"
      BY <1>1, <1>4, <2>2
    <2>. QED
      BY <1>1, <1>2, <1>3, <2>3, <2>4 DEF StringIs
  <1>. QED
    BY <1>2, <1>5 DEF c_

\* vstrcatf into a node of its own, one that has room, or a larger one.
LEMMA StrcatIs ==
  ASSUME NEW b_, NEW t_ \in Nat, NEW n_ \in Nat,
         \/ b_ = NoBlock /\ t_ = 0
         \/ StringIs(b_, t_) /\ b_.pool # Huge
  PROVE  StringIs(Strcat(b_, n_), t_ + n_)
  <1>. DEFINE c_ == IF b_ = NoBlock THEN AllocEx(NoBlock, FIRST, TRUE, TRUE)
                    ELSE [b_ EXCEPT !.size = Sizes[b_.pool]]
              needed_ == t_ + n_ + 1
              d_ == IF needed_ > c_.size THEN AllocEx(c_, needed_, TRUE, TRUE) ELSE c_
  <1>1. StringIs(c_, t_)
    <2>1. CASE b_ = NoBlock /\ t_ = 0
      <3>. DEFINE e_ == AllocEx(NoBlock, FIRST, TRUE, TRUE)
      <3>1. FIRST \in Nat /\ FIRST > 0
        BY SizesAssumption
      <3>2. NodeIs(e_) /\ e_.size >= FIRST /\ \A k_ \in 1..Len(e_.data) : k_ <= e_.size => e_.data[k_] = "zero"
        BY <3>1, AllocNewIs
      <3>3. c_ = e_
        BY <2>1
      <3>. HIDE DEF c_, e_
      <3>4. e_.size \in Nat /\ Len(e_.data) \in Nat /\ e_.size <= Len(e_.data)
        BY <3>2, NodesAre
      <3>5. e_.data[1] = "zero" /\ 0 < e_.size
        BY <3>1, <3>2, <3>4
      <3>. QED
        BY <2>1, <3>2, <3>3, <3>5 DEF StringIs
    <2>2. CASE StringIs(b_, t_) /\ b_.pool # Huge
      <3>1. NodeIs(b_) /\ b_ # NoBlock /\ Len(b_.data) = Sizes[b_.pool]
        BY <2>2, NodesAre DEF StringIs, NodeIs
      <3>2. /\ b_ = [pool |-> b_.pool, size |-> b_.size, data |-> b_.data]
            /\ b_.pool \in 1..Huge /\ b_.size \in Nat /\ b_.size <= Len(b_.data) /\ Len(b_.data) \in Nat
            /\ b_.data \in [1..Len(b_.data) -> Byte]
        BY <3>1, NodesAre
      <3>3. c_ = [pool |-> b_.pool, size |-> Len(b_.data), data |-> b_.data]
        BY <3>1, <3>2
      <3>. HIDE DEF c_
      <3>4. NodeIs(c_) /\ c_.size = Len(b_.data) /\ c_.data = b_.data
        BY <3>1, <3>2, <3>3, NodeMade
      <3>. QED
        BY <2>2, <3>2, <3>4 DEF StringIs
    <2>. QED
      BY <2>1, <2>2
  <1>2. Strcat(b_, n_) = Appended(d_, n_)
    <2>1. Used(c_) = t_
      BY <1>1, UsedIs
    <2>. QED
      BY <2>1 DEF Strcat
  <1>. HIDE DEF c_
  <1>3. StringIs(d_, t_) /\ t_ + n_ + 1 <= d_.size
    <2>0. c_.size \in Nat /\ needed_ \in Nat /\ t_ < needed_
      BY <1>1 DEF StringIs, NodeIs, Nodes
    <2>1. CASE needed_ > c_.size
      <3>1. StringIs(AllocEx(c_, needed_, TRUE, TRUE), t_) /\ AllocEx(c_, needed_, TRUE, TRUE).size >= needed_
        BY <1>1, <2>0, LargerString
      <3>2. AllocEx(c_, needed_, TRUE, TRUE).size \in Nat
        BY <3>1 DEF StringIs, NodeIs, Nodes
      <3>3. d_ = AllocEx(c_, needed_, TRUE, TRUE)
        BY <2>1
      <3>. QED
        BY <2>0, <3>1, <3>2, <3>3
    <2>2. CASE ~(needed_ > c_.size)
      BY <1>1, <2>0, <2>2
    <2>. QED
      BY <2>1, <2>2
  <1>. HIDE DEF d_
  <1>. QED
    BY <1>2, <1>3, AppendedIs

\* MMSprintf and strdup.
LEMMA PrintedIs ==
  ASSUME NEW n_ \in Nat
  PROVE  StringIs(Printed(n_), n_)
  <1>. DEFINE a_ == Alloc(BUFFER, FALSE)
              b_ == Fill(a_, 0, 1, "zero")
              c_ == IF n_ + 1 > BUFFER THEN AllocEx(b_, n_ + 2, FALSE, FALSE) ELSE b_
  <1>1. Printed(n_) = Appended(c_, n_)
    BY DEF Printed
  <1>2. BUFFER \in Nat /\ BUFFER > 0 /\ 0 \in Nat /\ 1 \in Nat /\ "zero" \in Byte
    BY SizesAssumption DEF Byte
  <1>3. NodeIs(a_) /\ a_.size = BUFFER
    BY <1>2, AllocIs
  <1>. HIDE DEF a_
  <1>4. Filled(b_, a_, 0, 1, "zero")
    BY <1>2, <1>3, FillIs
  <1>. HIDE DEF b_
  <1>5. StringIs(b_, 0) /\ b_.size = BUFFER
    <2>1. NodeIs(b_) /\ b_.size = BUFFER /\ Len(a_.data) \in Nat /\ BUFFER <= Len(a_.data)
      BY <1>2, <1>3, <1>4, NodesAre DEF Filled
    <2>2. b_.data[1] = "zero"
      BY <1>2, <1>4, <2>1 DEF Filled
    <2>. QED
      BY <1>2, <2>1, <2>2 DEF StringIs
  <1>6. StringIs(c_, 0) /\ 0 + n_ + 1 <= c_.size
    <2>1. CASE n_ + 1 > BUFFER
      <3>1. StringIs(AllocEx(b_, n_ + 2, FALSE, FALSE), 0) /\ AllocEx(b_, n_ + 2, FALSE, FALSE).size >= n_ + 2
        <4>1. n_ + 2 \in Nat /\ 0 < n_ + 2 /\ FALSE \in BOOLEAN
          OBVIOUS
        <4>. QED
          BY ONLY <1>5, <4>1, LargerString
      <3>2. c_ = AllocEx(b_, n_ + 2, FALSE, FALSE)
        BY <2>1
      <3>. HIDE DEF c_
      <3>3. StringIs(c_, 0) /\ c_.size >= n_ + 2
        BY <3>1, <3>2
      <3>4. c_.size \in Nat
        BY ONLY <3>3 DEF StringIs, NodeIs, Nodes
      <3>. QED
        BY ONLY <3>3, <3>4, n_ \in Nat
    <2>2. CASE ~(n_ + 1 > BUFFER)
      BY <1>2, <1>5, <2>2
    <2>. QED
      BY <2>1, <2>2
  <1>. HIDE DEF c_
  <1>7. StringIs(Appended(c_, n_), 0 + n_)
    BY <1>6, AppendedIs
  <1>. QED
    BY <1>1, <1>7

LEMMA DuplicateIs ==
  ASSUME NEW n_ \in Nat
  PROVE  StringIs(Duplicate(n_), n_)
  <1>. DEFINE a_ == Alloc(n_ + 1, FALSE)
              f_ == Fill(a_, 0, n_, "text")
              g_ == Fill(f_, n_, n_ + 1, "zero")
  <1>1. Duplicate(n_) = g_
    BY DEF Duplicate
  <1>2. NodeIs(a_) /\ a_.size = n_ + 1 /\ "text" \in Byte /\ "zero" \in Byte
    <2>1. n_ + 1 \in Nat /\ FALSE \in BOOLEAN
      OBVIOUS
    <2>. QED
      BY <2>1, AllocIs DEF Byte
  <1>. HIDE DEF a_
  <1>3. Filled(f_, a_, 0, n_, "text")
    BY <1>2, FillIs
  <1>. HIDE DEF f_
  <1>4. Filled(g_, f_, n_, n_ + 1, "zero")
    <2>1. NodeIs(f_) /\ n_ + 1 \in Nat
      BY <1>3 DEF Filled
    <2>. QED
      BY <1>2, <2>1, FillIs
  <1>. HIDE DEF g_
  <1>5. NodeIs(g_) /\ g_.size = n_ + 1 /\ Len(a_.data) \in Nat /\ n_ + 1 <= Len(a_.data)
    BY <1>2, <1>3, <1>4, NodesAre DEF Filled
  <1>6. \A k_ \in 1..Len(a_.data) : f_.data[k_] = IF 0 < k_ /\ k_ <= n_ THEN "text" ELSE a_.data[k_]
    BY <1>3 DEF Filled
  <1>7. \A k_ \in 1..Len(a_.data) : g_.data[k_] = IF n_ < k_ /\ k_ <= n_ + 1 THEN "zero" ELSE f_.data[k_]
    BY <1>3, <1>4 DEF Filled
  <1>8. \A k_ \in 1..n_ : g_.data[k_] = "text"
    BY <1>5, <1>6, <1>7
  <1>9. g_.data[n_ + 1] = "zero"
    BY <1>5, <1>7
  <1>. QED
    BY <1>1, <1>5, <1>8, <1>9 DEF StringIs

\* What a caller relies on of its block.
LEMMA BlockStart ==
  SizesInit => BlockInv
  <1>1. SUFFICES ASSUME SizesInit
                 PROVE  BlockInv
    OBVIOUS
  <1>2. block = NoBlock /\ text = 0 /\ clean = FALSE /\ string = FALSE /\ 0 \in Nat
    BY <1>1 DEF SizesInit
  <1>3. clean \in BOOLEAN /\ string \in BOOLEAN /\ ~string
    BY ONLY <1>2
  <1>4. NodeInv
    BY ONLY <1>2, <1>3 DEF NodeInv
  <1>. QED
    BY ONLY <1>2, <1>4 DEF BlockInv, BlockSound

LEMMA AllocExKeeps ==
  ASSUME BlockInv, MMAllocEx
  PROVE  BlockInv'
  <1>1. PICK n_ \in Requests, actual_ \in BOOLEAN, zero_ \in BOOLEAN :
          /\ block' = AllocEx(block, n_, actual_, zero_)
          /\ text' = IF block = NoBlock THEN 0 ELSE Min({text, AllocEx(block, n_, actual_, zero_).size})
          /\ clean' = (zero_ /\ (block = NoBlock \/ clean \/ text = block.size))
          /\ string' = (string /\ text < AllocEx(block, n_, actual_, zero_).size)
    BY DEF MMAllocEx
  <1>. DEFINE c_ == AllocEx(block, n_, actual_, zero_)
  <1>2. n_ \in Nat
    BY SizesAssumption
  <1>3. CASE block = NoBlock
    <2>1. NodeIs(c_) /\ (zero_ => \A k_ \in 1..Len(c_.data) : k_ <= c_.size => c_.data[k_] = "zero")
      BY <1>2, <1>3, AllocNewIs
    <2>2. block' = c_ /\ text' = 0 /\ clean' = zero_ /\ string' = FALSE
      BY <1>1, <1>3 DEF BlockInv, NodeInv
    <2>. HIDE DEF c_
    <2>3. c_.size \in Nat /\ c_.size <= Len(c_.data) /\ Len(c_.data) \in Nat /\ c_ # NoBlock
      BY <2>1, NodesAre
    <2>4. NodeInv'
      BY <2>1, <2>2, <2>3 DEF NodeInv
    <2>5. BlockSound'
      <3>1. zero_ => \A k_ \in 1..c_.size : c_.data[k_] = "zero"
        BY <2>1, <2>3
      <3>. QED
        BY <2>2, <2>3, <3>1 DEF BlockSound
    <2>. QED
      BY <2>4, <2>5 DEF BlockInv
  <1>4. CASE block # NoBlock
    <2>1. NodeIs(block) /\ text \in Nat /\ clean \in BOOLEAN /\ string \in BOOLEAN
      BY <1>4 DEF BlockInv, NodeInv
    <2>2. /\ NodeIs(c_)
          /\ \A k_ \in 1..Len(c_.data) : k_ <= block.size /\ k_ <= c_.size => c_.data[k_] = block.data[k_]
          /\ zero_ => \A k_ \in 1..Len(c_.data) : block.size < k_ /\ k_ <= c_.size => c_.data[k_] = "zero"
      <3>1. Carries(c_, block, n_, zero_)
        BY ONLY <1>2, <2>1, AllocExIs, actual_ \in BOOLEAN, zero_ \in BOOLEAN
      <3>. QED
        BY ONLY <3>1 DEF Carries
    <2>. HIDE DEF c_
    <2>3. /\ c_.size \in Nat /\ c_.size <= Len(c_.data) /\ Len(c_.data) \in Nat /\ c_ # NoBlock
          /\ block.size \in Nat
      BY <2>1, <2>2, NodesAre
    <2>4. /\ block' = c_ /\ text' = (IF text <= c_.size THEN text ELSE c_.size)
          /\ clean' = (zero_ /\ (clean \/ text = block.size)) /\ string' = (string /\ text < c_.size)
      <3>1. Min({text, c_.size}) = IF text <= c_.size THEN text ELSE c_.size
        BY <2>1, <2>3, MinOfTwo
      <3>. QED
        BY <1>1, <1>4, <3>1 DEF c_
    <2>5. /\ text <= block.size
          /\ \A k_ \in 1..text : block.data[k_] = "text"
          /\ clean => \A k_ \in (text + 1)..block.size : block.data[k_] = "zero"
          /\ string => text < block.size /\ block.data[text + 1] = "zero"
      BY <1>4 DEF BlockInv, BlockSound
    <2>6. NodeInv'
      BY <2>1, <2>2, <2>3, <2>4 DEF NodeInv
    <2>7. text' \in Nat /\ text' <= text /\ text' <= c_.size
      BY <2>1, <2>3, <2>4
    <2>8. \A k_ \in 1..text' : c_.data[k_] = "text"
      BY <2>1, <2>2, <2>3, <2>5, <2>7
    <2>9. ASSUME clean'
          PROVE  \A k_ \in (text' + 1)..c_.size : c_.data[k_] = "zero"
      <3>1. zero_ /\ (clean \/ text = block.size)
        BY <2>4, <2>9
      <3>2. SUFFICES ASSUME NEW k_ \in (text' + 1)..c_.size
                     PROVE  c_.data[k_] = "zero"
        OBVIOUS
      <3>3. k_ \in Nat /\ k_ > text /\ k_ <= c_.size /\ k_ \in 1..Len(c_.data)
        BY <2>1, <2>3, <2>4, <3>2
      <3>4. CASE k_ <= block.size
        <4>1. clean /\ k_ \in (text + 1)..block.size
          BY <2>1, <2>3, <3>1, <3>3, <3>4
        <4>. QED
          BY <2>2, <2>5, <3>3, <3>4, <4>1
      <3>5. CASE ~(k_ <= block.size)
        BY <2>2, <2>3, <3>1, <3>3, <3>5
      <3>. QED
        BY <3>4, <3>5
    <2>10. ASSUME string'
           PROVE  text' < c_.size /\ c_.data[text' + 1] = "zero"
      <3>0. string /\ text < c_.size
        BY ONLY <2>4, <2>10
      <3>1. string /\ text < c_.size /\ text' = text
        BY ONLY <2>1, <2>3, <2>4, <3>0
      <3>2. text + 1 \in 1..Len(c_.data) /\ text + 1 <= block.size /\ text + 1 <= c_.size
        BY <2>1, <2>3, <2>5, <3>1
      <3>3. c_.data[text + 1] = block.data[text + 1]
        BY <2>2, <3>2
      <3>. QED
        BY <2>5, <3>1, <3>3
    <2>11. BlockSound'
      BY <2>3, <2>4, <2>7, <2>8, <2>9, <2>10 DEF BlockSound
    <2>. QED
      BY <2>6, <2>11 DEF BlockInv
  <1>. QED
    BY <1>3, <1>4

LEMMA WriteKeeps ==
  ASSUME BlockInv, Write
  PROVE  BlockInv'
  <1>. DEFINE c_ == Fill(block, 0, block.size, "text")
  <1>1. block' = c_ /\ text' = block.size /\ clean' = FALSE /\ string' = FALSE
    BY DEF Write
  <1>2. NodeIs(block) /\ block.size \in Nat /\ Len(block.data) \in Nat /\ block.size <= Len(block.data)
    BY NodesAre DEF Write, BlockInv, NodeInv
  <1>3. Filled(c_, block, 0, block.size, "text")
    BY <1>2, FillIs DEF Byte
  <1>. HIDE DEF c_
  <1>4. NodeIs(c_) /\ c_ # NoBlock /\ c_.size = block.size /\ Len(c_.data) = Len(block.data)
    BY <1>3, NodesAre DEF Filled
  <1>5. \A k_ \in 1..block.size : c_.data[k_] = "text"
    BY <1>2, <1>3 DEF Filled
  <1>6. ~clean' /\ ~string' /\ clean' \in BOOLEAN /\ string' \in BOOLEAN
    BY ONLY <1>1
  <1>7. NodeInv'
    BY ONLY <1>1, <1>2, <1>4, <1>6 DEF NodeInv
  <1>8. BlockSound'
    BY ONLY <1>1, <1>2, <1>4, <1>5, <1>6 DEF BlockSound
  <1>. QED
    BY ONLY <1>7, <1>8 DEF BlockInv

LEMMA SizeKeeps ==
  ASSUME BlockInv, MMSize
  PROVE  BlockInv'
  <1>1. /\ NodeIs(block) /\ block # NoBlock /\ block.pool # Huge /\ Len(block.data) = Sizes[block.pool]
        /\ text \in Nat /\ clean \in BOOLEAN /\ string \in BOOLEAN
    BY DEF MMSize, BlockInv, NodeInv, NodeIs
  <1>2. /\ block = [pool |-> block.pool, size |-> block.size, data |-> block.data]
        /\ block.pool \in 1..Huge /\ block.size \in Nat /\ block.size <= Len(block.data)
        /\ Len(block.data) \in Nat /\ block.data \in [1..Len(block.data) -> Byte]
    BY <1>1, NodesAre
  <1>. DEFINE c_ == [pool |-> block.pool, size |-> Len(block.data), data |-> block.data]
  <1>3. /\ block' = c_ /\ clean' = (clean /\ block.size = Len(block.data))
        /\ text' = text /\ string' = string
    BY <1>1, <1>2 DEF MMSize
  <1>4. NodeIs(c_) /\ c_.size = Len(block.data) /\ c_.data = block.data
    BY <1>1, <1>2, NodeMade
  <1>. HIDE DEF c_
  <1>5. c_ # NoBlock
    BY <1>4, NodesAre
  <1>6. /\ text <= block.size
        /\ \A k_ \in 1..text : block.data[k_] = "text"
        /\ clean => \A k_ \in (text + 1)..block.size : block.data[k_] = "zero"
        /\ string => text < block.size /\ block.data[text + 1] = "zero"
    BY <1>1 DEF BlockInv, BlockSound
  <1>7. NodeInv'
    <2>1. clean' \in BOOLEAN /\ string' \in BOOLEAN
      BY ONLY <1>1, <1>3
    <2>. QED
      BY ONLY <1>1, <1>3, <1>4, <1>5, <2>1 DEF NodeInv
  <1>8. BlockSound'
    <2>1. clean' => clean /\ block.size = Len(block.data)
      BY ONLY <1>3
    <2>2. string' => string
      BY ONLY <1>3
    <2>3. /\ block'.size = Len(block.data) /\ block'.data = block.data /\ text' = text
          /\ block.size <= Len(block.data)
      BY <1>2, <1>3, <1>4
    <2>4. /\ block'.size <= Len(block'.data) /\ text' <= block'.size
          /\ \A k_ \in 1..text' : block'.data[k_] = "text"
      BY ONLY <1>1, <1>2, <1>6, <2>3
    <2>5. clean' => \A k_ \in (text' + 1)..block'.size : block'.data[k_] = "zero"
      BY ONLY <1>6, <2>1, <2>3
    <2>6. string' => text' < block'.size /\ block'.data[text' + 1] = "zero"
      BY ONLY <1>1, <1>2, <1>6, <2>2, <2>3
    <2>. QED
      BY ONLY <2>4, <2>5, <2>6 DEF BlockSound
  <1>. QED
    BY <1>7, <1>8 DEF BlockInv

\* A string that an operation has made, for its caller.
LEMMA StringKeeps ==
  ASSUME NEW t_, StringIs(block', t_), text' = t_, clean' = FALSE, string' = TRUE
  PROVE  BlockInv'
  <1>1. NodeIs(block') /\ block' # NoBlock
    BY NodesAre DEF StringIs
  <1>. DEFINE b_ == block'
  <1>2. b_.size \in Nat /\ b_.size <= Len(b_.data)
    BY <1>1, NodesAre
  <1>3. NodeInv'
    BY <1>1 DEF NodeInv, StringIs
  <1>4. BlockSound'
    BY <1>1, <1>2 DEF BlockSound, StringIs
  <1>. QED
    BY <1>3, <1>4 DEF BlockInv

LEMMA SizesStep ==
  ASSUME BlockInv, SizesNext \/ UNCHANGED sizeVars
  PROVE  BlockInv'
  <1>1. CASE MMAllocEx
    BY <1>1, AllocExKeeps
  <1>2. CASE Write
    BY <1>2, WriteKeeps
  <1>3. CASE MMSize
    BY <1>3, SizeKeeps
  <1>4. CASE MMFree
    BY <1>4 DEF MMFree, BlockInv, NodeInv, BlockSound
  <1>5. CASE MMStrcatv
    <2>1. PICK n_ \in Requests :
            /\ block # NoBlock => string /\ block.pool # Huge
            /\ block' = Strcat(block, n_) /\ text' = text + n_
      BY <1>5 DEF MMStrcatv
    <2>2. n_ \in Nat /\ text \in Nat /\ clean' = FALSE /\ string' = TRUE
      BY <1>5, SizesAssumption DEF MMStrcatv, BlockInv, NodeInv
    <2>3. CASE block = NoBlock
      <3>1. text = 0
        BY <2>3 DEF BlockInv, NodeInv
      <3>2. StringIs(Strcat(block, n_), text + n_)
        BY <2>2, <2>3, <3>1, StrcatIs
      <3>. QED
        BY <2>1, <2>2, <3>2, StringKeeps
    <2>4. CASE block # NoBlock
      <3>1. StringIs(block, text) /\ block.pool # Huge
        BY <2>1, <2>2, <2>4 DEF BlockInv, NodeInv, BlockSound, StringIs
      <3>2. StringIs(Strcat(block, n_), text + n_)
        BY <2>2, <3>1, StrcatIs
      <3>. QED
        BY <2>1, <2>2, <3>2, StringKeeps
    <2>. QED
      BY <2>3, <2>4
  <1>6. CASE MMPrint
    <2>1. PICK n_ \in Requests : text' = n_ /\ block' \in {Printed(n_), Duplicate(n_)}
      BY <1>6 DEF MMPrint
    <2>2. n_ \in Nat /\ clean' = FALSE /\ string' = TRUE
      BY <1>6, SizesAssumption DEF MMPrint
    <2>3. StringIs(block', n_)
      BY <2>1, <2>2, PrintedIs, DuplicateIs
    <2>. QED
      BY <2>1, <2>2, <2>3, StringKeeps
  <1>7. CASE UNCHANGED sizeVars
    BY <1>7 DEF sizeVars, BlockInv, NodeInv, BlockSound
  <1>. QED
    BY <1>1, <1>2, <1>3, <1>4, <1>5, <1>6, <1>7 DEF SizesNext

\* A block keeps what was written to it, and zeros that were asked for, however
\* it is resized, in place, to another pool or to a huge block (slab.c:1761-1838).
THEOREM BlocksAreSound == Spec => []BlockSound
  <1>1. Init => BlockInv
    BY BlockStart DEF Init
  <1>2. BlockInv /\ [Next]_vars => BlockInv'
    BY OnePartMoves, SizesStep
  <1>3. BlockInv => BlockSound
    BY DEF BlockInv
  <1>. QED
    BY <1>1, <1>2, <1>3, PTL DEF Spec

\* Memory: its life cycle, the names of its files, sizes and contents, and the
\* marks around them (slab.c:1540, 605-633, 1693-1838, 149-217).
THEOREM MemoryIsSound == Spec => []MemorySound
  <1>1. L!LibrarySound /\ BlockSound /\ PoolFits /\ N!MarksSound => MemorySound
    BY DEF MemorySound
  <1>. QED
    BY <1>1, LibraryIsSound, BlocksAreSound, SearchFits, MarksAreSound, PTL
-----------------------------------------------------------------------------
(* The wait with a timeout.                                                *)

\* A call that waits: what sem_timedwait is given is never past its end.
TimedIs(w_) ==
  /\ w_ = [at |-> "timed", ms |-> w_.ms, began |-> w_.began, end |-> w_.end, ts |-> w_.ts,
           interrupted |-> w_.interrupted]
  /\ w_.ms \in Nat /\ w_.began \in Nat /\ w_.end \in Int /\ w_.ts \in Int /\ w_.interrupted \in BOOLEAN
  /\ w_.ts <= w_.end
  /\ ~w_.interrupted => w_.ts \in (w_.began + w_.ms - PerSec + 1)..(w_.began + w_.ms)

LateIs(w_) ==
  /\ w_ = [at |-> "late", ms |-> w_.ms, began |-> w_.began, interrupted |-> w_.interrupted,
           ended |-> w_.ended]
  /\ w_.ms \in Nat /\ w_.began \in Nat /\ w_.ended \in Nat /\ w_.interrupted \in BOOLEAN
  /\ ~w_.interrupted => w_.ended > w_.began + w_.ms - PerSec

CallIs(w_) == w_ = [at |-> "none"] \/ w_ = [at |-> "wait"] \/ TimedIs(w_) \/ LateIs(w_)

WaitInv ==
  /\ time \in Nat /\ posted \in Int /\ taken \in Int
  /\ value = posted - taken /\ value \in Nat
  /\ CallIs(wait)

\* The rest of a second is counted as microseconds when the time is read, and
\* dropped when the timeout is added.
LEMMA ClockIs ==
  ASSUME NEW t_ \in Nat
  PROVE  /\ P!Rest(t_) \in 0..(PerSec - 1) /\ P!Sec(t_) \in Nat
         /\ P!Sec(t_) * PerSec = t_ - P!Rest(t_)
         /\ P!Now(t_) = t_ + P!Rest(t_) * (PerMilli - 1) /\ P!Now(t_) \in Nat /\ P!Now(t_) >= t_
  <1>. DEFINE r_ == t_ % PerSec
              q_ == t_ \div PerSec
  <1>1. PerSec \in Nat /\ PerSec > 0 /\ PerMilli \in Nat /\ PerMilli > 0
    BY LibraryAssumption
  <1>2. r_ \in 0..(PerSec - 1) /\ q_ \in Nat /\ t_ = PerSec * q_ + r_
    BY <1>1
  <1>3. P!Rest(t_) = r_ /\ P!Sec(t_) = q_ /\ P!Now(t_) = q_ * PerSec + r_ * PerMilli
    BY DEF P!Rest, P!Sec, P!Now
  <1>. HIDE DEF r_, q_
  <1>4. q_ * PerSec = t_ - r_
    BY <1>1, <1>2
  <1>5. r_ * PerMilli = r_ + r_ * (PerMilli - 1) /\ r_ * (PerMilli - 1) \in Nat
    <2>. DEFINE m_ == PerMilli - 1
    <2>1. m_ \in Nat /\ PerMilli = m_ + 1 /\ r_ \in Nat
      BY <1>1, <1>2
    <2>. HIDE DEF m_
    <2>2. r_ * (m_ + 1) = r_ + r_ * m_ /\ r_ * m_ \in Nat
      BY <2>1
    <2>. QED
      BY <2>1, <2>2 DEF m_
  <1>6. P!Now(t_) = t_ + r_ * (PerMilli - 1)
    BY <1>2, <1>3, <1>4, <1>5
  <1>. QED
    BY <1>2, <1>3, <1>4, <1>5, <1>6

LEMMA UntilIs ==
  ASSUME NEW t_ \in Nat, NEW ms_ \in Nat
  PROVE  P!Until(t_, ms_) = t_ - P!Rest(t_) + ms_
  <1>1. PerSec \in Nat
    BY LibraryAssumption
  <1>2. /\ P!Sec(t_) \in Nat /\ P!Sec(t_) * PerSec = t_ - P!Rest(t_)
        /\ P!Sec(ms_) \in Nat /\ P!Sec(ms_) * PerSec = ms_ - P!Rest(ms_)
        /\ P!Rest(t_) \in Int /\ P!Rest(ms_) \in Int
    BY ClockIs
  <1>3. (P!Sec(t_) + P!Sec(ms_)) * PerSec = P!Sec(t_) * PerSec + P!Sec(ms_) * PerSec
    BY <1>1, <1>2
  <1>. QED
    BY <1>2, <1>3 DEF P!Until

LEMMA WaitStart ==
  P!WaitInit => WaitInv
  BY DEF P!WaitInit, P!NoWait, WaitInv, CallIs

LEMMA WaitBegins ==
  ASSUME WaitInv, NEW ms_ \in Timeouts, P!Begin(ms_)
  PROVE  WaitInv'
  <1>1. /\ time' = time /\ value' = value /\ posted' = posted /\ taken' = taken /\ time \in Nat
        /\ wait' = IF ms_ = -1 THEN [at |-> "wait"]
                   ELSE [at |-> "timed", ms |-> ms_, began |-> time, end |-> P!Now(time) + ms_,
                         ts |-> P!Until(time, ms_), interrupted |-> FALSE]
    BY DEF P!Begin, WaitInv
  <1>2. CallIs(wait')
    <2>1. CASE ms_ = -1
      BY <1>1, <2>1 DEF CallIs
    <2>2. CASE ms_ # -1
      <3>1. ms_ \in Nat /\ PerSec \in Nat
        BY <2>2, LibraryAssumption
      <3>. DEFINE n_ == P!Now(time)
                  r_ == P!Rest(time)
                  u_ == P!Until(time, ms_)
      <3>2. n_ \in Nat /\ n_ >= time /\ r_ \in 0..(PerSec - 1) /\ u_ = time - r_ + ms_
        BY <1>1, <3>1, ClockIs, UntilIs
      <3>3. wait' = [at |-> "timed", ms |-> ms_, began |-> time, end |-> n_ + ms_, ts |-> u_, interrupted |-> FALSE]
        BY <1>1, <2>2
      <3>. HIDE DEF n_, r_, u_
      <3>4. u_ \in Int /\ n_ + ms_ \in Int /\ u_ <= n_ + ms_ /\ u_ \in (time + ms_ - PerSec + 1)..(time + ms_)
        BY <1>1, <3>1, <3>2
      <3>. DEFINE w_ == [at |-> "timed", ms |-> ms_, began |-> time, end |-> n_ + ms_, ts |-> u_,
                         interrupted |-> FALSE]
      <3>5. /\ w_.at = "timed" /\ w_.ms = ms_ /\ w_.began = time /\ w_.end = n_ + ms_ /\ w_.ts = u_
            /\ w_.interrupted = FALSE
            /\ w_ = [at |-> "timed", ms |-> w_.ms, began |-> w_.began, end |-> w_.end, ts |-> w_.ts,
                     interrupted |-> w_.interrupted]
        OBVIOUS
      <3>6. wait' = w_
        BY <3>3
      <3>. HIDE DEF w_
      <3>7. TimedIs(w_)
        BY ONLY <1>1, <3>1, <3>4, <3>5 DEF TimedIs
      <3>8. TimedIs(wait')
        BY ONLY <3>6, <3>7
      <3>. QED
        BY <3>8 DEF CallIs
    <2>. QED
      BY <2>1, <2>2
  <1>. QED
    BY <1>1, <1>2 DEF WaitInv

LEMMA WaitCalls ==
  ASSUME WaitInv, wait.at = "timed"
  PROVE  TimedIs(wait)
  BY DEF WaitInv, CallIs, LateIs

LEMMA WaitIsLate ==
  ASSUME WaitInv, wait.at = "timed", NEW i_ \in BOOLEAN, P!Late(wait, i_), i_ \/ (time >= wait.ts /\ ~wait.interrupted)
  PROVE  LateIs(wait')
  <1>1. TimedIs(wait) /\ time \in Nat
    BY WaitCalls DEF WaitInv
  <1>2. wait' = [at |-> "late", ms |-> wait.ms, began |-> wait.began, interrupted |-> i_, ended |-> time]
    BY DEF P!Late
  <1>3. ~i_ => time > wait.began + wait.ms - PerSec
    <2>1. PerSec \in Nat
      BY LibraryAssumption
    <2>. QED
      BY <1>1, <2>1 DEF TimedIs
  <1>. QED
    BY <1>1, <1>2, <1>3 DEF LateIs, TimedIs

LEMMA WaitInterrupted ==
  ASSUME WaitInv, P!Interrupt
  PROVE  WaitInv'
  <1>. DEFINE left_ == wait.end - P!Now(time)
  <1>1. /\ wait.at = "timed" /\ time \in Nat
        /\ time' = time /\ value' = value /\ posted' = posted /\ taken' = taken
        /\ IF left_ < 0 THEN P!Late(wait, TRUE)
           ELSE wait' = [wait EXCEPT !.ms = left_, !.ts = P!Until(time, left_), !.interrupted = TRUE]
    BY DEF P!Interrupt, WaitInv
  <1>2. TimedIs(wait)
    BY <1>1, WaitCalls
  <1>3. left_ \in Int /\ wait.end = left_ + P!Now(time) /\ P!Now(time) \in Nat /\ P!Now(time) >= time
    BY <1>1, <1>2, ClockIs DEF TimedIs
  <1>4. CallIs(wait')
    <2>1. CASE left_ < 0
      BY <1>1, <2>1, WaitIsLate DEF CallIs
    <2>2. CASE ~(left_ < 0)
      <3>1. left_ \in Nat
        BY <1>3, <2>2
      <3>. DEFINE u_ == P!Until(time, left_)
      <3>2. u_ \in Int /\ u_ <= wait.end
        <4>0. PerSec \in Nat /\ time \in Nat
          BY <1>1, LibraryAssumption
        <4>1. u_ = time - P!Rest(time) + left_
          BY ONLY <3>1, <4>0, UntilIs
        <4>2. P!Rest(time) \in Nat
          BY ONLY <4>0, ClockIs
        <4>. HIDE DEF left_, u_
        <4>3. wait.end = left_ + P!Now(time)
          BY <1>3
        <4>. QED
          BY ONLY <1>3, <3>1, <4>0, <4>1, <4>2, <4>3
      <3>3. wait' = [wait EXCEPT !.ms = left_, !.ts = u_, !.interrupted = TRUE]
        BY <1>1, <2>2
      <3>. HIDE DEF u_, left_
      <3>4. wait' = [at |-> "timed", ms |-> left_, began |-> wait.began, end |-> wait.end, ts |-> u_,
                     interrupted |-> TRUE]
        <4>1. wait = [at |-> "timed", ms |-> wait.ms, began |-> wait.began, end |-> wait.end, ts |-> wait.ts,
                     interrupted |-> wait.interrupted]
          BY <1>2 DEF TimedIs
        <4>2. ASSUME NEW m_, NEW b_, NEW e_, NEW t_, NEW i_,
                     wait = [at |-> "timed", ms |-> m_, began |-> b_, end |-> e_, ts |-> t_, interrupted |-> i_]
              PROVE  wait' = [at |-> "timed", ms |-> left_, began |-> b_, end |-> e_, ts |-> u_, interrupted |-> TRUE]
          BY ONLY <3>3, <4>2
        <4>. QED
          BY ONLY <4>1, <4>2
      <3>5. TimedIs(wait')
        BY <1>2, <3>1, <3>2, <3>4 DEF TimedIs
      <3>. QED
        BY <3>5 DEF CallIs
    <2>. QED
      BY <2>1, <2>2
  <1>. QED
    BY <1>1, <1>4 DEF WaitInv

LEMMA WaitStep ==
  ASSUME WaitInv, P!WaitNext \/ UNCHANGED waits
  PROVE  WaitInv'
  <1>1. CASE P!Tick
    BY <1>1 DEF P!Tick, WaitInv
  <1>2. CASE P!Post
    BY <1>2 DEF P!Post, WaitInv
  <1>3. CASE P!Got
    BY <1>3 DEF P!Got, P!NoWait, WaitInv, CallIs
  <1>4. CASE P!TimedOut
    <2>1. wait.at = "timed" /\ time >= wait.ts /\ P!Late(wait, wait.interrupted)
      BY <1>4 DEF P!TimedOut
    <2>2. wait.interrupted \in BOOLEAN
      BY <2>1, WaitCalls DEF TimedIs
    <2>3. LateIs(wait')
      BY <2>1, <2>2, WaitIsLate
    <2>. QED
      BY <1>4, <2>3 DEF P!TimedOut, WaitInv, CallIs
  <1>5. CASE P!Interrupt
    BY <1>5, WaitInterrupted
  <1>6. CASE P!Return
    BY <1>6 DEF P!Return, P!NoWait, WaitInv, CallIs
  <1>7. CASE \E ms_ \in Timeouts : P!Begin(ms_)
    BY <1>7, WaitBegins
  <1>8. CASE UNCHANGED waits
    BY <1>8 DEF waits, WaitInv
  <1>. QED
    BY <1>1, <1>2, <1>3, <1>4, <1>5, <1>6, <1>7, <1>8 DEF P!WaitNext

\* What is added for the rest of the second a call began in, it is given back.
LEMMA WaitIsSound ==
  ASSUME WaitInv
  PROVE  P!WaitSound
  <1>1. value = posted - taken /\ value >= 0
    BY DEF WaitInv
  <1>2. ASSUME wait.at = "timed"
        PROVE  /\ wait.ts <= wait.end - P!Now(wait.began) + wait.began + P!Rest(wait.began) * (PerMilli - 1)
               /\ ~wait.interrupted => wait.ts \in (wait.began + wait.ms - PerSec + 1)..(wait.began + wait.ms)
    <2>1. TimedIs(wait)
      BY <1>2, WaitCalls
    <2>2. /\ P!Now(wait.began) = wait.began + P!Rest(wait.began) * (PerMilli - 1)
          /\ P!Now(wait.began) \in Int
      BY <2>1, ClockIs DEF TimedIs
    <2>. DEFINE extra_ == P!Rest(wait.began) * (PerMilli - 1)
    <2>3. extra_ \in Int
      BY <2>1, ClockIs, LibraryAssumption DEF TimedIs
    <2>. HIDE DEF extra_
    <2>4. wait.end - P!Now(wait.began) + wait.began + extra_ = wait.end
      <3>1. P!Now(wait.began) = wait.began + extra_
        BY <2>2 DEF extra_
      <3>. QED
        BY <2>1, <2>2, <2>3, <3>1 DEF TimedIs
    <2>. QED
      BY <2>1, <2>4 DEF TimedIs, extra_
  <1>3. ASSUME wait.at = "late" /\ ~wait.interrupted
        PROVE  wait.ended > wait.began + wait.ms - PerSec
    BY <1>3 DEF WaitInv, CallIs, TimedIs, LateIs
  <1>. QED
    BY <1>1, <1>2, <1>3 DEF P!WaitSound

\* Posts are neither lost nor taken twice, and a wait with a timeout is bounded,
\* however it is interrupted (thread.c:263-312).
THEOREM WaitsAreSound == Spec => []P!WaitSound
  <1>1. Init => WaitInv
    BY WaitStart DEF Init
  <1>2. WaitInv /\ [Next]_vars => WaitInv'
    BY OnePartMoves, WaitStep
  <1>3. WaitInv => P!WaitSound
    BY WaitIsSound
  <1>. QED
    BY <1>1, <1>2, <1>3, PTL DEF Spec
-----------------------------------------------------------------------------
(* The stop watches.                                                       *)

\* A time of the library, whose microseconds may be a whole second.
TimeLike(t_) ==
  t_ = [sec |-> t_.sec, usec |-> t_.usec] /\ t_.sec \in Nat /\ t_.usec \in 0..PerSecond

\* Began at a moment.
Moment(t_, n_) == n_ \in Nat /\ t_ = T!Time(n_)

LEMMA MomentIs ==
  ASSUME NEW t_, NEW n_, Moment(t_, n_)
  PROVE  /\ t_.sec \in Nat /\ t_.usec \in 0..(PerSecond - 1) /\ n_ = t_.sec * PerSecond + t_.usec
         /\ TimeLike(t_) /\ T!Micro(t_) = n_ /\ n_ \in Nat
  <1>. DEFINE q_ == n_ \div PerSecond
              r_ == n_ % PerSecond
  <1>1. PerSecond \in Nat /\ PerSecond > 0 /\ n_ \in Nat
    BY LibraryAssumption DEF Moment
  <1>2. r_ \in 0..(PerSecond - 1) /\ q_ \in Nat /\ n_ = PerSecond * q_ + r_
    BY <1>1
  <1>3. t_ = [sec |-> q_, usec |-> r_]
    BY DEF Moment, T!Time
  <1>. HIDE DEF q_, r_
  <1>4. q_ * PerSecond = PerSecond * q_
    BY <1>1, <1>2
  <1>. QED
    BY <1>1, <1>2, <1>3, <1>4 DEF TimeLike, T!Micro

\* Microseconds are a number, and seconds decide before them.
LEMMA MicroIs ==
  ASSUME NEW t_, TimeLike(t_)
  PROVE  T!Micro(t_) \in Nat /\ T!Micro(t_) = t_.sec * PerSecond + t_.usec
  <1>1. PerSecond \in Nat /\ t_.sec \in Nat /\ t_.usec \in Nat
    BY LibraryAssumption DEF TimeLike
  <1>2. t_.sec * PerSecond \in Nat
    BY <1>1
  <1>. QED
    BY <1>1, <1>2 DEF T!Micro

LEMMA OneMore ==
  ASSUME NEW a_ \in Int, NEW b_ \in Int, NEW d_ \in Nat, a_ < b_
  PROVE  /\ a_ * d_ \in Int /\ b_ * d_ \in Int /\ (b_ - a_) * d_ = b_ * d_ - a_ * d_
         /\ (b_ - a_ - 1) * d_ = b_ * d_ - a_ * d_ - d_ /\ b_ * d_ >= a_ * d_ + d_
  <1>1. /\ a_ * d_ \in Int /\ b_ * d_ \in Int /\ (b_ - a_) * d_ = b_ * d_ - a_ * d_
        /\ (b_ - a_ - 1) * d_ = b_ * d_ - a_ * d_ - d_
    OBVIOUS
  <1>2. b_ - a_ - 1 \in Nat
    OBVIOUS
  <1>3. \A m_ \in Nat : m_ * d_ >= 0
    OBVIOUS
  <1>4. (b_ - a_ - 1) * d_ >= 0
    BY <1>2, <1>3
  <1>. QED
    BY <1>1, <1>4

LEMMA CmpIs ==
  ASSUME NEW a_, TimeLike(a_), NEW b_, TimeLike(b_)
  PROVE  /\ T!Cmp(a_, b_) > 0 => T!Micro(a_) >= T!Micro(b_)
         /\ ~(T!Cmp(a_, b_) > 0) => T!Micro(a_) <= T!Micro(b_)
         /\ T!Cmp(a_, b_) < 0 => T!Micro(a_) <= T!Micro(b_)
         /\ ~(T!Cmp(a_, b_) < 0) => T!Micro(a_) >= T!Micro(b_)
  <1>1. /\ PerSecond \in Nat
        /\ a_.sec \in Nat /\ a_.usec \in 0..PerSecond /\ b_.sec \in Nat /\ b_.usec \in 0..PerSecond
    BY LibraryAssumption DEF TimeLike
  <1>. DEFINE x_ == a_.sec * PerSecond
              y_ == b_.sec * PerSecond
  <1>2. T!Micro(a_) = x_ + a_.usec /\ T!Micro(b_) = y_ + b_.usec /\ x_ \in Int /\ y_ \in Int
    BY <1>1, MicroIs
  <1>3. a_.sec < b_.sec => y_ >= x_ + PerSecond
    BY <1>1, OneMore
  <1>4. b_.sec < a_.sec => x_ >= y_ + PerSecond
    BY <1>1, OneMore
  <1>5. a_.sec = b_.sec => x_ = y_
    OBVIOUS
  <1>6. T!Cmp(a_, b_) = IF a_.sec # b_.sec THEN a_.sec - b_.sec ELSE a_.usec - b_.usec
    BY DEF T!Cmp
  <1>. HIDE DEF x_, y_
  <1>7. CASE a_.sec = b_.sec
    BY <1>1, <1>2, <1>5, <1>6, <1>7
  <1>8. CASE a_.sec < b_.sec
    BY <1>1, <1>2, <1>3, <1>6, <1>8
  <1>9. CASE b_.sec < a_.sec
    BY <1>1, <1>2, <1>4, <1>6, <1>9
  <1>. QED
    BY <1>1, <1>7, <1>8, <1>9

\* Of two moments the later one has no fewer seconds.
LEMMA MomentsIn ==
  ASSUME NEW e_, NEW b_, NEW m_, NEW n_, Moment(e_, n_), Moment(b_, m_), m_ <= n_
  PROVE  e_.sec > b_.sec \/ (e_.sec = b_.sec /\ e_.usec >= b_.usec)
  <1>1. /\ e_.sec \in Nat /\ e_.usec \in 0..(PerSecond - 1) /\ n_ = e_.sec * PerSecond + e_.usec
        /\ b_.sec \in Nat /\ b_.usec \in 0..(PerSecond - 1) /\ m_ = b_.sec * PerSecond + b_.usec
        /\ PerSecond \in Nat
    BY MomentIs, LibraryAssumption
  <1>. DEFINE x_ == e_.sec * PerSecond
              y_ == b_.sec * PerSecond
  <1>2. e_.sec < b_.sec => y_ >= x_ + PerSecond
    BY <1>1, OneMore
  <1>3. e_.sec = b_.sec => x_ = y_
    OBVIOUS
  <1>4. x_ \in Int /\ y_ \in Int /\ n_ = x_ + e_.usec /\ m_ = y_ + b_.usec
    BY <1>1
  <1>. HIDE DEF x_, y_
  <1>. QED
    BY <1>1, <1>2, <1>3, <1>4

\* A time of these seconds and microseconds.
LEMMA TimeMade ==
  ASSUME NEW s_ \in Nat, NEW u_ \in 0..PerSecond
  PROVE  LET t_ == [sec |-> s_, usec |-> u_] IN
         TimeLike(t_) /\ T!Micro(t_) = s_ * PerSecond + u_ /\ t_.sec = s_ /\ t_.usec = u_
  BY DEF TimeLike, T!Micro

\* The time between two moments, by any of the three ways to compute it.
LEMMA BetweenIs ==
  ASSUME NEW e_, NEW b_, NEW m_, NEW n_, Moment(e_, n_), Moment(b_, m_), m_ <= n_
  PROVE  /\ TimeLike(T!Since(e_, b_)) /\ T!Micro(T!Since(e_, b_)) = n_ - m_
         /\ T!Since(e_, b_).usec \in 0..(PerSecond - 1)
         /\ TimeLike(T!Stopped(e_, b_)) /\ T!Micro(T!Stopped(e_, b_)) = n_ - m_
         /\ T!Subtract(e_, b_) = T!Since(e_, b_)
  <1>1. /\ e_.sec \in Nat /\ e_.usec \in 0..(PerSecond - 1) /\ n_ = e_.sec * PerSecond + e_.usec
        /\ b_.sec \in Nat /\ b_.usec \in 0..(PerSecond - 1) /\ m_ = b_.sec * PerSecond + b_.usec
        /\ PerSecond \in Nat /\ PerSecond > 0
    BY MomentIs, LibraryAssumption
  <1>2. e_.sec > b_.sec \/ (e_.sec = b_.sec /\ e_.usec >= b_.usec)
    BY MomentsIn
  <1>. DEFINE plain_ == [sec |-> e_.sec - b_.sec, usec |-> e_.usec - b_.usec]
              whole_ == [sec |-> e_.sec - b_.sec - 1, usec |-> e_.usec + PerSecond - b_.usec]
  <1>3. ASSUME e_.usec >= b_.usec
        PROVE  TimeLike(plain_) /\ T!Micro(plain_) = n_ - m_ /\ plain_.usec \in 0..(PerSecond - 1)
    <2>. DEFINE s_ == e_.sec - b_.sec
                u_ == e_.usec - b_.usec
    <2>1. s_ \in Nat /\ u_ \in 0..(PerSecond - 1) /\ u_ \in 0..PerSecond
      BY <1>1, <1>2, <1>3
    <2>2. s_ * PerSecond = e_.sec * PerSecond - b_.sec * PerSecond
      BY <1>1
    <2>3. TimeLike(plain_) /\ T!Micro(plain_) = s_ * PerSecond + u_ /\ plain_.usec = u_
      <3>. HIDE DEF s_, u_
      <3>1. LET t_ == [sec |-> s_, usec |-> u_] IN
            TimeLike(t_) /\ T!Micro(t_) = s_ * PerSecond + u_ /\ t_.sec = s_ /\ t_.usec = u_
        BY ONLY <2>1, TimeMade
      <3>2. plain_ = [sec |-> s_, usec |-> u_]
        BY DEF s_, u_
      <3>. QED
        BY ONLY <3>1, <3>2
    <2>. DEFINE x_ == e_.sec * PerSecond
                y_ == b_.sec * PerSecond
    <2>4. x_ \in Int /\ y_ \in Int /\ s_ * PerSecond = x_ - y_ /\ n_ = x_ + e_.usec /\ m_ = y_ + b_.usec
      BY <1>1, <2>2
    <2>. HIDE DEF x_, y_, plain_
    <2>5. s_ * PerSecond + u_ = n_ - m_
      BY <1>1, <2>4
    <2>. QED
      BY <2>1, <2>3, <2>5
  <1>4. ASSUME e_.sec > b_.sec, e_.usec <= b_.usec
        PROVE  /\ TimeLike(whole_) /\ T!Micro(whole_) = n_ - m_
               /\ e_.usec < b_.usec => whole_.usec \in 0..(PerSecond - 1)
    <2>. DEFINE s_ == e_.sec - b_.sec - 1
                u_ == e_.usec + PerSecond - b_.usec
    <2>1. s_ \in Nat /\ u_ \in 0..PerSecond /\ (e_.usec < b_.usec => u_ \in 0..(PerSecond - 1))
      BY <1>1, <1>4
    <2>2. s_ * PerSecond = e_.sec * PerSecond - b_.sec * PerSecond - PerSecond
      BY <1>1, <1>4, OneMore
    <2>3. TimeLike(whole_) /\ T!Micro(whole_) = s_ * PerSecond + u_ /\ whole_.usec = u_
      <3>. HIDE DEF s_, u_
      <3>1. LET t_ == [sec |-> s_, usec |-> u_] IN
            TimeLike(t_) /\ T!Micro(t_) = s_ * PerSecond + u_ /\ t_.sec = s_ /\ t_.usec = u_
        BY ONLY <2>1, TimeMade
      <3>2. whole_ = [sec |-> s_, usec |-> u_]
        BY DEF s_, u_
      <3>. QED
        BY ONLY <3>1, <3>2
    <2>. DEFINE x_ == e_.sec * PerSecond
                y_ == b_.sec * PerSecond
    <2>4. /\ x_ \in Int /\ y_ \in Int /\ s_ * PerSecond = x_ - y_ - PerSecond
          /\ n_ = x_ + e_.usec /\ m_ = y_ + b_.usec
      BY <1>1, <2>2
    <2>. HIDE DEF x_, y_, whole_
    <2>5. s_ * PerSecond + u_ = n_ - m_
      BY <1>1, <2>4
    <2>. QED
      BY <2>1, <2>3, <2>5
  <1>5. /\ PerSecond - (b_.usec - e_.usec) = e_.usec + PerSecond - b_.usec
        /\ PerSecond + e_.usec - b_.usec = e_.usec + PerSecond - b_.usec
    BY <1>1
  <1>6. T!Since(e_, b_) = IF e_.usec < b_.usec THEN whole_ ELSE plain_
    BY <1>5 DEF T!Since
  <1>7. T!Stopped(e_, b_) = IF e_.sec = b_.sec \/ ~(e_.usec <= b_.usec) THEN plain_ ELSE whole_
    <2>1. e_.sec = b_.sec => e_.sec - b_.sec = 0
      BY <1>1
    <2>. QED
      BY <2>1 DEF T!Stopped
  <1>8. T!Subtract(e_, b_) = IF e_.usec < b_.usec THEN whole_ ELSE plain_
    <2>1. CASE e_.usec < b_.usec
      <3>1. ~(e_.usec >= b_.usec) /\ e_.sec > b_.sec
        BY <1>1, <1>2, <2>1
      <3>. QED
        BY <1>5, <2>1, <3>1 DEF T!Subtract
    <2>2. CASE ~(e_.usec < b_.usec)
      <3>1. e_.usec >= b_.usec /\ e_.sec >= b_.sec
        BY <1>1, <1>2, <2>2
      <3>. QED
        BY <2>2, <3>1 DEF T!Subtract
    <2>. QED
      BY <2>1, <2>2
  <1>. HIDE DEF plain_, whole_
  <1>9. CASE e_.usec < b_.usec
    <2>1. e_.sec > b_.sec /\ e_.usec <= b_.usec /\ e_.sec # b_.sec
      BY <1>1, <1>2, <1>9
    <2>. QED
      BY <1>4, <1>6, <1>7, <1>8, <1>9, <2>1
  <1>10. CASE ~(e_.usec < b_.usec)
    <2>1. e_.usec >= b_.usec
      BY <1>1, <1>10
    <2>2. T!Since(e_, b_) = plain_ /\ T!Subtract(e_, b_) = plain_
      BY <1>6, <1>8, <1>10
    <2>3. TimeLike(T!Stopped(e_, b_)) /\ T!Micro(T!Stopped(e_, b_)) = n_ - m_
      <3>1. CASE e_.sec = b_.sec \/ ~(e_.usec <= b_.usec)
        BY <1>3, <1>7, <2>1, <3>1
      <3>2. CASE ~(e_.sec = b_.sec \/ ~(e_.usec <= b_.usec))
        <4>1. e_.sec > b_.sec /\ e_.usec <= b_.usec
          BY <1>2, <3>2
        <4>. QED
          BY <1>4, <1>7, <3>2, <4>1
      <3>. QED
        BY <3>1, <3>2
    <2>. QED
      BY <1>3, <2>1, <2>2, <2>3
  <1>. QED
    BY <1>9, <1>10

LEMMA AddIs ==
  ASSUME NEW a_, TimeLike(a_), NEW b_, TimeLike(b_)
  PROVE  TimeLike(T!Add(a_, b_)) /\ T!Micro(T!Add(a_, b_)) = T!Micro(a_) + T!Micro(b_)
  <1>. DEFINE s_ == a_.sec + b_.sec
              u_ == a_.usec + b_.usec
  <1>1. /\ PerSecond \in Nat
        /\ a_.sec \in Nat /\ a_.usec \in 0..PerSecond /\ b_.sec \in Nat /\ b_.usec \in 0..PerSecond
    BY LibraryAssumption DEF TimeLike
  <1>2. T!Add(a_, b_) = IF u_ > PerSecond THEN [sec |-> s_ + 1, usec |-> u_ - PerSecond]
                        ELSE [sec |-> s_, usec |-> u_]
    BY DEF T!Add, T!Carried
  <1>3. T!Micro(a_) + T!Micro(b_) = s_ * PerSecond + u_
    <2>. DEFINE x_ == a_.sec * PerSecond
                y_ == b_.sec * PerSecond
    <2>1. s_ * PerSecond = x_ + y_ /\ x_ \in Int /\ y_ \in Int
      BY <1>1
    <2>2. T!Micro(a_) = x_ + a_.usec /\ T!Micro(b_) = y_ + b_.usec
      BY MicroIs
    <2>. HIDE DEF x_, y_
    <2>. QED
      BY <1>1, <2>1, <2>2
  <1>4. s_ \in Nat /\ u_ \in 0..(PerSecond + PerSecond)
    BY <1>1
  <1>. HIDE DEF s_, u_
  <1>5. CASE u_ > PerSecond
    <2>. DEFINE c_ == s_ + 1
                v_ == u_ - PerSecond
    <2>1. c_ \in Nat /\ v_ \in 0..PerSecond
      BY <1>1, <1>4, <1>5
    <2>2. c_ * PerSecond + v_ = s_ * PerSecond + u_
      <3>1. (s_ + 1) * PerSecond = s_ * PerSecond + PerSecond /\ s_ * PerSecond \in Int
        BY <1>1, <1>4
      <3>. QED
        BY <1>1, <1>4, <3>1
    <2>3. T!Add(a_, b_) = [sec |-> c_, usec |-> v_]
      BY <1>2, <1>5
    <2>. HIDE DEF c_, v_
    <2>4. TimeLike([sec |-> c_, usec |-> v_]) /\ T!Micro([sec |-> c_, usec |-> v_]) = c_ * PerSecond + v_
      BY <2>1, TimeMade
    <2>. QED
      BY <1>3, <2>2, <2>3, <2>4
  <1>6. CASE ~(u_ > PerSecond)
    <2>1. u_ \in 0..PerSecond
      BY <1>1, <1>4, <1>6
    <2>2. T!Add(a_, b_) = [sec |-> s_, usec |-> u_]
      BY <1>2, <1>6
    <2>3. TimeLike([sec |-> s_, usec |-> u_]) /\ T!Micro([sec |-> s_, usec |-> u_]) = s_ * PerSecond + u_
      BY <1>4, <2>1, TimeMade
    <2>. QED
      BY <1>3, <2>2, <2>3
  <1>. QED
    BY <1>5, <1>6

\* Dividing seconds and microseconds apart is dividing them together.
LEMMA DivideApart ==
  ASSUME NEW c_ \in Nat, c_ > 0, NEW d_ \in Nat, NEW s_ \in Nat, NEW u_ \in Nat
  PROVE  (s_ * d_ + u_) \div c_ = (s_ \div c_) * d_ + (((s_ % c_) * d_ + u_) \div c_)
  <1>. DEFINE q_ == s_ \div c_
              r_ == s_ % c_
              x_ == s_ * d_ + u_
              y_ == r_ * d_ + u_
              z_ == y_ \div c_
              w_ == y_ % c_
  <1>1. q_ \in Nat /\ r_ \in Nat /\ s_ = c_ * q_ + r_
    OBVIOUS
  <1>2. y_ \in Nat /\ x_ \in Nat
    <2>. HIDE DEF r_, q_
    <2>1. r_ * d_ \in Nat /\ s_ * d_ \in Nat
      BY <1>1
    <2>. QED
      BY <2>1
  <1>3. z_ \in Nat /\ w_ \in 0..(c_ - 1) /\ y_ = c_ * z_ + w_
    <2>. HIDE DEF y_
    <2>. QED
      BY <1>2
  <1>4. x_ = c_ * (q_ * d_) + y_
    <2>. HIDE DEF r_, q_
    <2>1. s_ * d_ = c_ * (q_ * d_) + r_ * d_ /\ c_ * (q_ * d_) \in Int /\ r_ * d_ \in Int
      BY <1>1
    <2>. QED
      BY <2>1
  <1>. DEFINE k_ == q_ * d_
  <1>5. k_ \in Nat
    <2>. HIDE DEF q_
    <2>. QED
      BY <1>1
  <1>. HIDE DEF x_, y_, z_, w_, k_
  <1>6. x_ = c_ * (k_ + z_) + w_
    <2>1. c_ * (k_ + z_) = c_ * k_ + c_ * z_ /\ c_ * k_ \in Int /\ c_ * z_ \in Int
      BY <1>3, <1>5
    <2>2. x_ = c_ * k_ + y_
      BY <1>4 DEF k_
    <2>. QED
      BY <1>2, <1>3, <2>1, <2>2
  <1>7. x_ \div c_ = k_ + z_
    <2>. DEFINE m_ == k_ + z_
    <2>1. m_ \in Nat /\ x_ = c_ * m_ + w_
      BY <1>3, <1>5, <1>6
    <2>. HIDE DEF m_
    <2>2. x_ \div c_ = m_
      BY <1>2, <1>3, <2>1
    <2>. QED
      BY <2>2 DEF m_
  <1>. QED
    BY <1>7 DEF x_, k_, z_, y_

\* What a number of times adds up to at most, its average is not above.
LEMMA DivideBelow ==
  ASSUME NEW c_ \in Nat, c_ > 0, NEW n_ \in Nat, NEW l_ \in Nat, n_ <= c_ * l_
  PROVE  n_ \div c_ <= l_ /\ n_ \div c_ \in Nat
  <1>. DEFINE q_ == n_ \div c_
              r_ == n_ % c_
  <1>1. q_ \in Nat /\ r_ \in Nat /\ n_ = c_ * q_ + r_
    OBVIOUS
  <1>. HIDE DEF q_, r_
  <1>2. c_ * q_ <= c_ * l_
    <2>1. c_ * q_ \in Int /\ c_ * l_ \in Int
      BY <1>1
    <2>. QED
      BY <1>1, <2>1
  <1>3. q_ <= l_
    <2>1. SUFFICES ASSUME l_ < q_
                   PROVE  FALSE
      BY <1>1
    <2>2. q_ * c_ >= l_ * c_ + c_ /\ q_ * c_ \in Int /\ l_ * c_ \in Int
      BY <1>1, <2>1, OneMore
    <2>3. q_ * c_ = c_ * q_ /\ l_ * c_ = c_ * l_
      BY <1>1
    <2>. QED
      BY <1>2, <2>2, <2>3
  <1>. QED
    BY <1>1, <1>3 DEF q_

LEMMA CarriedIs ==
  ASSUME NEW s_ \in Nat, NEW u_ \in Nat
  PROVE  T!Micro(T!Carried([sec |-> s_, usec |-> u_])) = s_ * PerSecond + u_
  <1>1. PerSecond \in Nat
    BY LibraryAssumption
  <1>2. CASE u_ > PerSecond
    <2>1. T!Carried([sec |-> s_, usec |-> u_]) = [sec |-> s_ + 1, usec |-> u_ - PerSecond]
      BY <1>2 DEF T!Carried
    <2>2. T!Micro([sec |-> s_ + 1, usec |-> u_ - PerSecond]) = (s_ + 1) * PerSecond + (u_ - PerSecond)
      BY DEF T!Micro
    <2>3. (s_ + 1) * PerSecond = s_ * PerSecond + PerSecond /\ s_ * PerSecond \in Int
      BY <1>1
    <2>4. (s_ + 1) * PerSecond + (u_ - PerSecond) = s_ * PerSecond + u_
      BY <1>1, <2>3
    <2>. QED
      BY <2>1, <2>2, <2>4
  <1>3. CASE ~(u_ > PerSecond)
    BY <1>3 DEF T!Carried, T!Micro
  <1>. QED
    BY <1>2, <1>3

LEMMA AverageIs ==
  ASSUME NEW a_, a_.count \in Nat, a_.count > 0, TimeLike(a_.total)
  PROVE  /\ T!Micro(T!Average(a_)) = T!Micro(a_.total) \div a_.count
         /\ T!Micro(T!Divide(a_.total, a_.count)) = T!Micro(a_.total) \div a_.count
  <1>. DEFINE c_ == a_.count
              s_ == a_.total.sec
              u_ == a_.total.usec
              m_ == s_ * PerSecond + u_
              x_ == s_ \div c_
              y_ == ((s_ % c_) * PerSecond + u_) \div c_
  <1>1. s_ \in Nat /\ u_ \in Nat /\ c_ \in Nat /\ c_ > 0 /\ PerSecond \in Nat
    BY LibraryAssumption DEF TimeLike
  <1>2. T!Micro(a_.total) = m_ /\ m_ \in Nat
    BY MicroIs
  <1>3. T!Average(a_) = T!Carried([sec |-> x_, usec |-> y_])
    <2>1. a_.count # 0
      BY <1>1
    <2>. QED
      BY <2>1 DEF T!Average
  <1>. HIDE DEF c_, s_, u_
  <1>4. x_ \in Nat /\ y_ \in Nat
    <2>. DEFINE r_ == s_ % c_
                v_ == r_ * PerSecond + u_
    <2>1. x_ \in Nat /\ r_ \in Nat
      BY <1>1
    <2>. HIDE DEF r_
    <2>2. r_ * PerSecond \in Nat
      BY <1>1, <2>1
    <2>3. v_ \in Nat
      BY <1>1, <2>2
    <2>. HIDE DEF v_
    <2>4. v_ \div c_ \in Nat
      BY <1>1, <2>3
    <2>. QED
      BY <2>1, <2>4 DEF v_, r_
  <1>5. m_ \div c_ = x_ * PerSecond + y_
    BY <1>1, DivideApart
  <1>6. T!Micro(T!Carried([sec |-> x_, usec |-> y_])) = x_ * PerSecond + y_
    <2>. HIDE DEF x_, y_
    <2>. QED
      BY <1>4, CarriedIs
  <1>. HIDE DEF x_, y_
  <1>7. T!Micro(T!Average(a_)) = m_ \div c_
    BY <1>3, <1>5, <1>6
  <1>8. T!Micro(T!Divide(a_.total, a_.count)) = m_ \div c_
    <2>. DEFINE d_ == m_ \div c_
    <2>1. d_ \in Nat
      <3>. HIDE DEF m_
      <3>. QED
        BY <1>1, <1>2
    <2>2. T!Divide(a_.total, a_.count) = T!Time(d_)
      BY <1>2 DEF T!Divide, c_
    <2>. HIDE DEF d_
    <2>3. Moment(T!Time(d_), d_)
      BY <2>1 DEF Moment
    <2>4. T!Micro(T!Time(d_)) = d_
      BY <2>3, MomentIs
    <2>. QED
      BY <2>2, <2>4 DEF d_
  <1>. QED
    BY <1>2, <1>7, <1>8 DEF c_

\* When the timer was started and lapped last, and what the laps and the
\* accumulated times come to.
Running(s_, l_) ==
  /\ now \in Nat /\ Moment(start, s_) /\ Moment(lap, l_) /\ s_ <= l_ /\ l_ <= now
  /\ TimeLike(laps) /\ T!Micro(laps) = l_ - s_

Accumulated ==
  /\ accum = [count |-> accum.count, total |-> accum.total, max |-> accum.max, min |-> accum.min]
  /\ accum.count \in Nat /\ longest \in Nat /\ shortest \in Nat
  /\ TimeLike(accum.total) /\ TimeLike(accum.max) /\ TimeLike(accum.min)
  /\ T!Micro(accum.max) = longest /\ T!Micro(accum.min) = shortest
  /\ T!Micro(accum.total) <= accum.count * longest

TimersInv == (\E s_, l_ \in Nat : Running(s_, l_)) /\ Accumulated

LEMMA ZeroIs ==
  TimeLike(T!Zero) /\ T!Micro(T!Zero) = 0
  <1>1. Moment(T!Zero, 0)
    BY DEF Moment, T!Zero
  <1>. QED
    BY <1>1, MomentIs

LEMMA TimersStart ==
  T!TimersInit => TimersInv
  <1>1. SUFFICES ASSUME T!TimersInit
                 PROVE  TimersInv
    OBVIOUS
  <1>2. now \in Nat /\ Moment(start, now) /\ Moment(lap, now)
    <2>1. now \in 0..PerSecond /\ PerSecond \in Nat
      BY <1>1, LibraryAssumption DEF T!TimersInit
    <2>. QED
      BY <1>1, <2>1 DEF T!TimersInit, Moment
  <1>3. Running(now, now)
    BY <1>1, <1>2, ZeroIs DEF T!TimersInit, Running
  <1>4. Accumulated
    <2>. DEFINE z_ == T!Zero
    <2>1. accum = [count |-> 0, total |-> z_, max |-> z_, min |-> z_] /\ longest = 0 /\ shortest = 0
      BY <1>1 DEF T!TimersInit
    <2>2. TimeLike(z_) /\ T!Micro(z_) = 0
      BY ZeroIs
    <2>. HIDE DEF z_
    <2>. QED
      BY <2>1, <2>2 DEF Accumulated
  <1>. QED
    BY <1>2, <1>3, <1>4 DEF TimersInv

LEMMA NowIs ==
  ASSUME now \in Nat
  PROVE  Moment(T!Time(now), now)
  BY DEF Moment

LEMMA LapKeeps ==
  ASSUME TimersInv, T!Lap
  PROVE  TimersInv'
  <1>1. PICK s_ \in Nat, l_ \in Nat : Running(s_, l_)
    BY DEF TimersInv
  <1>. DEFINE d_ == T!Since(T!Time(now), lap)
  <1>2. /\ laps' = T!Add(laps, d_) /\ lap' = T!Time(now) /\ now' = now /\ start' = start
        /\ accum' = accum /\ longest' = longest /\ shortest' = shortest
    BY DEF T!Lap
  <1>3. now \in Nat /\ Moment(lap, l_) /\ Moment(T!Time(now), now) /\ s_ <= l_ /\ l_ <= now
    BY <1>1, NowIs DEF Running
  <1>4. TimeLike(d_) /\ T!Micro(d_) = now - l_
    BY <1>3, BetweenIs
  <1>. HIDE DEF d_
  <1>5. TimeLike(laps') /\ T!Micro(laps') = (l_ - s_) + (now - l_)
    BY <1>1, <1>2, <1>4, AddIs DEF Running
  <1>6. Running(s_, now)'
    <2>1. (l_ - s_) + (now - l_) = now - s_ /\ s_ <= now
      BY <1>3
    <2>2. Moment(lap', now) /\ Moment(start', s_)
      BY <1>1, <1>2, <1>3 DEF Running
    <2>3. T!Micro(laps') = now' - s_ /\ now' \in Nat /\ s_ <= now' /\ now' <= now'
      BY <1>2, <1>3, <1>5, <2>1
    <2>. QED
      BY <1>2, <1>5, <2>2, <2>3 DEF Running, Moment, TimeLike, T!Micro, T!Time
  <1>7. Accumulated'
    BY <1>2 DEF TimersInv, Accumulated, TimeLike, T!Micro
  <1>8. \E k_, j_ \in Nat : Running(k_, j_)'
    BY <1>2, <1>3, <1>6
  <1>. QED
    BY <1>7, <1>8 DEF TimersInv

\* A time is counted, and the longest and the shortest are kept.
LEMMA AccumulatedIs ==
  ASSUME Accumulated, NEW t_, TimeLike(t_), accum' = T!Accumulate(accum, t_),
         longest' = IF accum.count = 0 \/ T!Micro(t_) > longest THEN T!Micro(t_) ELSE longest,
         shortest' = IF accum.count = 0 \/ T!Micro(t_) < shortest THEN T!Micro(t_) ELSE shortest
  PROVE  Accumulated'
  <1>. DEFINE n_ == T!Micro(t_)
              c_ == accum.count
              m_ == T!Micro(accum.total)
  <1>1. n_ \in Nat /\ c_ \in Nat /\ m_ \in Nat /\ longest \in Nat /\ shortest \in Nat
    BY MicroIs DEF Accumulated
  <1>2. m_ <= c_ * longest
    BY DEF Accumulated
  <1>3. CASE c_ = 0
    <2>1. accum' = [count |-> 1, total |-> accum.total, max |-> t_, min |-> t_]
      BY <1>3 DEF T!Accumulate
    <2>2. longest' = n_ /\ shortest' = n_
      BY <1>3
    <2>3. m_ <= 0
      <3>1. c_ * longest = 0
        BY <1>1, <1>3
      <3>. QED
        BY <1>2, <3>1
    <2>4. m_ <= 1 * n_
      BY <1>1, <2>3
    <2>5. /\ accum'.count = 1 /\ accum'.total = accum.total /\ accum'.max = t_ /\ accum'.min = t_
          /\ accum' = [count |-> accum'.count, total |-> accum'.total, max |-> accum'.max,
                       min |-> accum'.min]
      BY <2>1
    <2>. QED
      BY <1>1, <2>2, <2>4, <2>5 DEF Accumulated, TimeLike, T!Micro
  <1>4. CASE c_ # 0
    <2>. DEFINE x_ == IF T!Cmp(t_, accum.max) > 0 THEN t_ ELSE accum.max
                y_ == IF T!Cmp(t_, accum.min) < 0 THEN t_ ELSE accum.min
                a_ == T!Add(accum.total, t_)
    <2>1. accum' = [count |-> c_ + 1, total |-> a_, max |-> x_, min |-> y_]
      BY <1>4 DEF T!Accumulate
    <2>2. longest' = (IF n_ > longest THEN n_ ELSE longest) /\ shortest' = (IF n_ < shortest THEN n_ ELSE shortest)
      BY <1>4
    <2>3. TimeLike(a_) /\ T!Micro(a_) = m_ + n_
      BY AddIs DEF Accumulated
    <2>4. TimeLike(x_) /\ T!Micro(x_) = longest'
      <3>1. TimeLike(accum.max) /\ T!Micro(accum.max) = longest
        BY DEF Accumulated
      <3>2. /\ T!Cmp(t_, accum.max) > 0 => n_ >= longest
            /\ ~(T!Cmp(t_, accum.max) > 0) => n_ <= longest
        BY <3>1, CmpIs
      <3>3. CASE T!Cmp(t_, accum.max) > 0
        <4>1. longest' = n_
          BY <1>1, <2>2, <3>2, <3>3
        <4>. QED
          BY <3>3, <4>1
      <3>4. CASE ~(T!Cmp(t_, accum.max) > 0)
        <4>1. longest' = longest
          BY <1>1, <2>2, <3>2, <3>4
        <4>. QED
          BY <3>1, <3>4, <4>1
      <3>. QED
        BY <3>3, <3>4
    <2>5. TimeLike(y_) /\ T!Micro(y_) = shortest'
      <3>1. TimeLike(accum.min) /\ T!Micro(accum.min) = shortest
        BY DEF Accumulated
      <3>2. /\ T!Cmp(t_, accum.min) < 0 => n_ <= shortest
            /\ ~(T!Cmp(t_, accum.min) < 0) => n_ >= shortest
        BY <3>1, CmpIs
      <3>3. CASE T!Cmp(t_, accum.min) < 0
        <4>1. shortest' = n_
          BY <1>1, <2>2, <3>2, <3>3
        <4>. QED
          BY <3>3, <4>1
      <3>4. CASE ~(T!Cmp(t_, accum.min) < 0)
        <4>1. shortest' = shortest
          BY <1>1, <2>2, <3>2, <3>4
        <4>. QED
          BY <3>1, <3>4, <4>1
      <3>. QED
        BY <3>3, <3>4
    <2>6. longest' \in Nat /\ shortest' \in Nat /\ longest' >= longest /\ longest' >= n_
      BY <1>1, <2>2
    <2>. HIDE DEF n_, c_, m_, x_, y_, a_
    <2>7. m_ + n_ <= (c_ + 1) * longest'
      <3>. DEFINE h_ == longest'
      <3>1. h_ \in Nat /\ h_ >= longest /\ h_ >= n_
        BY <2>6
      <3>. HIDE DEF h_
      <3>2. (c_ + 1) * h_ = c_ * h_ + h_ /\ c_ * h_ \in Int /\ c_ * longest \in Int
        BY <1>1, <3>1
      <3>3. c_ * longest <= c_ * h_
        BY <1>1, <3>1
      <3>4. m_ + n_ <= (c_ + 1) * h_
        BY <1>1, <1>2, <3>1, <3>2, <3>3 DEF c_, m_
      <3>. QED
        BY <3>4 DEF h_
    <2>8. /\ accum'.count = c_ + 1 /\ accum'.total = a_ /\ accum'.max = x_ /\ accum'.min = y_
          /\ accum' = [count |-> accum'.count, total |-> accum'.total, max |-> accum'.max,
                       min |-> accum'.min]
      BY <2>1
    <2>9. /\ TimeLike(accum'.total) /\ TimeLike(accum'.max) /\ TimeLike(accum'.min)
          /\ T!Micro(accum'.max) = longest' /\ T!Micro(accum'.min) = shortest'
          /\ T!Micro(accum'.total) <= accum'.count * longest'
      BY <2>3, <2>4, <2>5, <2>7, <2>8
    <2>. QED
      BY <1>1, <2>6, <2>8, <2>9 DEF Accumulated, TimeLike, T!Micro
  <1>. QED
    BY <1>3, <1>4

LEMMA StopKeeps ==
  ASSUME TimersInv, T!Stop
  PROVE  TimersInv'
  <1>1. PICK s_ \in Nat, l_ \in Nat : Running(s_, l_)
    BY DEF TimersInv
  <1>. DEFINE t_ == T!Stopped(T!Time(now), start)
  <1>2. /\ accum' = T!Accumulate(accum, t_)
        /\ longest' = IF accum.count = 0 \/ T!Micro(t_) > longest THEN T!Micro(t_) ELSE longest
        /\ shortest' = IF accum.count = 0 \/ T!Micro(t_) < shortest THEN T!Micro(t_) ELSE shortest
        /\ start' = T!Time(now) /\ lap' = T!Time(now) /\ laps' = T!Zero /\ now' = now
    BY DEF T!Stop
  <1>3. now \in Nat /\ Moment(start, s_) /\ Moment(T!Time(now), now) /\ s_ <= now
    <2>1. now \in Nat /\ Moment(start, s_) /\ s_ <= l_ /\ l_ <= now
      BY <1>1 DEF Running
    <2>. QED
      BY <2>1, NowIs
  <1>4. TimeLike(t_)
    BY <1>3, BetweenIs
  <1>. HIDE DEF t_
  <1>5. Accumulated'
    BY <1>2, <1>4, AccumulatedIs DEF TimersInv
  <1>6. Running(now, now)'
    <2>1. Moment(start', now') /\ Moment(lap', now') /\ TimeLike(laps') /\ T!Micro(laps') = 0
      BY <1>2, <1>3, ZeroIs
    <2>2. now' \in Nat /\ now' - now' = 0 /\ now' <= now'
      BY <1>2, <1>3
    <2>. QED
      BY <2>1, <2>2 DEF Running, Moment, TimeLike, T!Micro, T!Time
  <1>7. \E k_, j_ \in Nat : Running(k_, j_)'
    BY <1>2, <1>3, <1>6
  <1>. QED
    BY <1>5, <1>7 DEF TimersInv

LEMMA TimersStep ==
  ASSUME TimersInv, T!TimersNext \/ UNCHANGED timers
  PROVE  TimersInv'
  <1>1. ASSUME now' \in Nat, now <= now', UNCHANGED <<start, lap, laps, accum, longest, shortest>>
        PROVE  TimersInv'
    <2>1. PICK s_ \in Nat, l_ \in Nat : Running(s_, l_)
      BY DEF TimersInv
    <2>2. Running(s_, l_)'
      <3>1. l_ <= now'
        BY <1>1, <2>1 DEF Running
      <3>. QED
        BY <1>1, <2>1, <3>1 DEF Running, Moment, TimeLike, T!Micro, T!Time
    <2>3. Accumulated'
      BY <1>1 DEF TimersInv, Accumulated, TimeLike, T!Micro
    <2>4. \E k_, j_ \in Nat : Running(k_, j_)'
      BY <2>2
    <2>. QED
      BY <2>3, <2>4 DEF TimersInv
  <1>2. now \in Nat
    BY DEF TimersInv, Running
  <1>3. CASE T!Pass
    BY <1>1, <1>2, <1>3 DEF T!Pass
  <1>4. CASE T!Lap
    BY <1>4, LapKeeps
  <1>5. CASE T!Stop
    BY <1>5, StopKeeps
  <1>6. CASE UNCHANGED timers
    BY <1>1, <1>2, <1>6 DEF timers
  <1>. QED
    BY <1>3, <1>4, <1>5, <1>6 DEF T!TimersNext

LEMMA TimersAreSound ==
  ASSUME TimersInv
  PROVE  T!TimersSound
  <1>1. PICK s_ \in Nat, l_ \in Nat : Running(s_, l_)
    BY DEF TimersInv
  <1>. DEFINE at_ == T!Time(now)
              split_ == T!Since(at_, start)
              avg_ == T!Average(accum)
  <1>2. /\ now \in Nat /\ Moment(start, s_) /\ Moment(lap, l_) /\ Moment(at_, now)
        /\ s_ <= l_ /\ l_ <= now /\ s_ <= now /\ T!Micro(laps) = l_ - s_ /\ T!Micro(start) = s_
    <2>1. /\ now \in Nat /\ Moment(start, s_) /\ Moment(lap, l_) /\ s_ <= l_ /\ l_ <= now
          /\ T!Micro(laps) = l_ - s_
      BY <1>1 DEF Running
    <2>. QED
      BY <2>1, NowIs, MomentIs
  <1>. HIDE DEF at_
  <1>3. /\ T!Micro(split_) = now - s_ /\ split_.usec \in 0..(PerSecond - 1)
        /\ T!Micro(T!Stopped(at_, start)) = now - s_ /\ T!Subtract(at_, start) = split_
    <2>1. Moment(at_, now) /\ Moment(start, s_) /\ s_ <= now
      BY ONLY <1>2
    <2>. QED
      BY ONLY <2>1, BetweenIs DEF split_
  <1>4. T!Micro(T!Since(at_, lap)) = now - l_
    <2>1. Moment(at_, now) /\ Moment(lap, l_) /\ l_ <= now
      BY ONLY <1>2
    <2>. QED
      BY ONLY <2>1, BetweenIs
  <1>5. T!Micro(laps) + T!Micro(T!Since(at_, lap)) = T!Micro(split_)
    BY <1>2, <1>3, <1>4
  <1>6. T!Micro(avg_) <= longest
    <2>1. CASE accum.count = 0
      <3>1. avg_ = T!Zero
        BY <2>1 DEF T!Average
      <3>. QED
        BY <3>1, ZeroIs DEF TimersInv, Accumulated
    <2>2. CASE accum.count # 0
      <3>1. /\ accum.count \in Nat /\ accum.count > 0 /\ TimeLike(accum.total) /\ longest \in Nat
            /\ T!Micro(accum.total) <= accum.count * longest
        BY <2>2 DEF TimersInv, Accumulated
      <3>2. T!Micro(avg_) = T!Micro(accum.total) \div accum.count
        BY <3>1, AverageIs
      <3>3. T!Micro(accum.total) \in Nat
        BY <3>1, MicroIs
      <3>. QED
        BY <3>1, <3>2, <3>3, DivideBelow
    <2>. QED
      BY <2>1, <2>2
  <1>7. accum.count > 0 => T!Micro(avg_) = T!Micro(T!Divide(accum.total, accum.count))
    BY AverageIs DEF TimersInv, Accumulated
  <1>8. T!Micro(split_) = now - T!Micro(start) /\ T!Micro(T!Stopped(at_, start)) = T!Micro(split_)
    BY ONLY <1>2, <1>3
  <1>9. T!Micro(accum.max) = longest /\ T!Micro(accum.min) = shortest
    BY DEF TimersInv, Accumulated
  <1>. QED
    BY ONLY <1>3, <1>5, <1>6, <1>7, <1>8, <1>9 DEF T!TimersSound, at_

\* Laps, splits and differences of a timer agree, and an average is what its
\* times are divided into, whatever they are (mem.c:539-562, 724-846).
THEOREM TimersHold == Spec => []T!TimersSound
  <1>1. Init => TimersInv
    BY TimersStart DEF Init
  <1>2. TimersInv /\ [Next]_vars => TimersInv'
    BY OnePartMoves, TimersStep
  <1>3. TimersInv => T!TimersSound
    BY TimersAreSound
  <1>. QED
    BY <1>1, <1>2, <1>3, PTL DEF Spec

\* Stop watches, waits with a timeout, and numbers that several threads change
\* (mem.c:509-873, thread.c:263-312, rwlock.c:159-358).
THEOREM NumbersAreSound == Spec => []NumbersSound
  <1>1. T!TimersSound /\ P!WaitSound /\ A!AtomicsSound => NumbersSound
    BY DEF NumbersSound
  <1>. QED
    BY <1>1, TimersHold, WaitsAreSound, AtomsAreSound, PTL
=============================================================================
