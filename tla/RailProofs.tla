----------------------------- MODULE RailProofs -----------------------------
(***************************************************************************)
(* Proofs about MailRail, for any buyers, sends, page size and attempts:   *)
(* the stored cursor never runs ahead of what was read, a transcript shows *)
(* a reply once, and calls, lanes, sweep and crashes together keep what    *)
(* MailPromise says of a reply.                                            *)
(***************************************************************************)
EXTENDS MailRail, FiniteSetTheorems, SequenceTheorems, TLAPS

Numbers  == Nat
Marks    == {Max(S) : S \in SUBSET Numbers}      \* what a reply or a nudge is pinned to
Letter   == [by : {"buyer", "auto", "seller", "agent"}, of : Intents \cup {None}]
Change   == Threads \X Numbers
Entry    == Threads \X (Numbers \cup Intents)
States   == {"unborn", "pending", "unverified", "unconfirmed", "committed", "dropped"}
Row      == [st : States, on : Threads \cup {None}, pin : Marks \cup Numbers, age : Numbers]
CallRow  == [at : {"idle", "composing", "reserved", "trying", "sent"},
             of : Intents \cup {None}, tries : Numbers]
Statuses == {"none", "active", "closed", "escalated"}
AskRow   == [kind : {None, "unconfirmed_send", "question"}, from : Statuses \cup {None},
             since : Numbers, told : Marks \cup Numbers, queued : BOOLEAN]
LaneAt   == {"idle", "list", "page", "mark", "reread", "sends", "settle"}
LaneRow  == [at : LaneAt, items : SUBSET Threads, next : Numbers, page : Seq(Entry),
             full : BOOLEAN, n : Numbers, got : Numbers, blk : BOOLEAN]

\* What the variables may hold.
RailTypes ==
    /\ kind \in {"relay", "craigslist"}
    /\ mail \in [Threads -> Seq(Letter)]
    /\ changes \in Seq(Change)
    /\ blocked \subseteq Threads
    /\ linked \subseteq Threads
    /\ stat \in [Threads -> Statuses]
    /\ known \in [Threads -> SUBSET Numbers]
    /\ folded \in [Threads -> SUBSET Intents]
    /\ intent \in [Intents -> Row]
    /\ call \in [Threads -> CallRow]
    /\ cursor \in Numbers
    /\ rereads \in [Threads -> {"no", "unplaced", "placed"}]
    /\ lane \in LaneRow
    /\ ask \in [Threads -> AskRow]

\* The entries of a list.
On(s) == {s[k] : k \in DOMAIN s}

-----------------------------------------------------------------------------
(* Lists.                                                                  *)

\* The list of a finite set holds its members and nothing else.
LEMMA ListOfSet ==
    ASSUME NEW S, IsFiniteSet(S)
    PROVE  SetToSeq(S) \in Seq(S) /\ On(SetToSeq(S)) = S
<1> DEFINE c == Cardinality(S)
<1>1. c \in Nat /\ ExistsBijection(1..c, S)
  <2>1. PICK n \in Nat : ExistsBijection(1..n, S)
    BY FS_NatBijection
  <2>2. Cardinality(S) = n
    BY <2>1, FS_CountingElements
  <2> QED
    BY <2>1, <2>2
<1>2. \E f \in [1..c -> S] : IsInjective(f)
  BY <1>1 DEF ExistsBijection, Bijection, Injection, IsInjective
<1>3. SetToSeq(S) \in [1..c -> S] /\ IsInjective(SetToSeq(S))
  BY <1>2 DEF SetToSeq
<1>4. SetToSeq(S) \in Injection(1..c, S)
  BY <1>3 DEF Injection, IsInjective
<1>5. IsFiniteSet(1..c) /\ Cardinality(1..c) = c
  <2>1. 1 \in Int /\ c \in Int
    BY <1>1
  <2>2. IsFiniteSet(1..c) /\ Cardinality(1..c) = IF 1 > c THEN 0 ELSE c - 1 + 1
    BY <2>1, FS_Interval
  <2> QED
    BY <1>1, <2>2
<1>6. SetToSeq(S) \in Surjection(1..c, S)
  BY <1>4, <1>5, FS_Injection
<1>7. \A x \in S : \E k \in 1..c : SetToSeq(S)[k] = x
  BY <1>6 DEF Surjection
<1> QED
  BY <1>1, <1>3, <1>7 DEF On

\* The rest of a list, and its first.
LEMMA ListTail ==
    ASSUME NEW S, NEW s \in Seq(S), s # <<>>
    PROVE  /\ s[1] \in S /\ s[1] \in On(s) /\ Tail(s) \in Seq(S)
           /\ On(Tail(s)) \subseteq On(s)
           /\ \A x \in On(s) : x = s[1] \/ x \in On(Tail(s))
<1>1. Len(s) \in Nat \ {0} /\ DOMAIN s = 1..Len(s) /\ \A k \in 1..Len(s) : s[k] \in S
  BY EmptySeq, LenProperties
<1>2. Tail(s) \in Seq(S) /\ Len(Tail(s)) = Len(s) - 1
  BY HeadTailProperties
<1>3. \A k \in 1..(Len(s) - 1) : Tail(s)[k] = s[k + 1]
  BY <1>1
<1>4. DOMAIN Tail(s) = 1..(Len(s) - 1)
  BY <1>1, <1>2, LenProperties
<1>5. On(Tail(s)) \subseteq On(s)
  <2> SUFFICES ASSUME NEW k \in 1..(Len(s) - 1) PROVE Tail(s)[k] \in On(s)
    BY <1>4 DEF On
  <2>1. Tail(s)[k] = s[k + 1] /\ k + 1 \in 1..Len(s)
    BY <1>1, <1>3
  <2> QED
    BY <1>1, <2>1 DEF On
<1>6. ASSUME NEW k \in 1..Len(s)
      PROVE  s[k] = s[1] \/ s[k] \in On(Tail(s))
  <2>1. CASE k = 1
    BY <2>1
  <2>2. CASE k # 1
    <3>1. k - 1 \in 1..(Len(s) - 1) /\ (k - 1) + 1 = k
      BY <1>1, <2>2
    <3>2. Tail(s)[k - 1] = s[k]
      BY <1>3, <3>1
    <3> QED
      BY <1>4, <3>1, <3>2 DEF On
  <2> QED
    BY <2>1, <2>2
<1> QED
  BY <1>1, <1>2, <1>5, <1>6 DEF On

\* A page of what changed.
PageOf(page, S, s, n) ==
    /\ page \in Seq(S) /\ n + Len(page) <= Len(s)
    /\ DOMAIN page = 1..Len(page) /\ Len(page) \in Nat
    /\ \A k \in 1..Len(page) : page[k] = s[n + k]

LEMMA PageIs ==
    ASSUME NEW S, NEW s \in Seq(S), NEW n \in Nat, n <= Len(s), NEW size \in Nat \ {0}
    PROVE  PageOf(SubSeq(s, n + 1, Min({Len(s), n + size})), S, s, n)
<1> DEFINE m == Min({Len(s), n + size})
           page == SubSeq(s, n + 1, m)
<1>1. Len(s) \in Nat /\ \A k \in 1..Len(s) : s[k] \in S
  BY LenProperties
<1>2. m \in Nat /\ m <= Len(s) /\ n <= m
  <2>1. \E x \in {Len(s), n + size} : \A y \in {Len(s), n + size} : x =< y
    <3>1. CASE Len(s) <= n + size
      BY <1>1, <3>1
    <3>2. CASE ~(Len(s) <= n + size)
      BY <1>1, <3>2
    <3> QED
      BY <3>1, <3>2
  <2>2. m \in {Len(s), n + size} /\ \A y \in {Len(s), n + size} : m =< y
    BY <2>1 DEF Min
  <2> QED
    BY <1>1, <2>2
<1> HIDE DEF m
<1>3. n + 1 \in Int /\ m \in Int /\ \A k \in (n + 1)..m : s[k] \in S
  BY <1>1, <1>2
<1>4. /\ page \in Seq(S) /\ Len(page) = IF n + 1 <= m THEN m - (n + 1) + 1 ELSE 0
      /\ \A k \in 1..(m - (n + 1) + 1) : page[k] = s[(n + 1) + k - 1]
  BY <1>3, SubSeqProperties
<1> HIDE DEF page
<1>5. Len(page) = m - n
  BY <1>2, <1>4
<1>6. \A k \in 1..Len(page) : page[k] = s[n + k]
  <2> SUFFICES ASSUME NEW k \in 1..Len(page) PROVE page[k] = s[n + k]
    OBVIOUS
  <2>1. k \in 1..(m - (n + 1) + 1) /\ (n + 1) + k - 1 = n + k
    BY <1>2, <1>5
  <2> QED
    BY <1>4, <2>1
<1>7. DOMAIN page = 1..Len(page) /\ Len(page) \in Nat
  BY <1>4, LenProperties
<1>8. n + Len(page) <= Len(s)
  BY <1>1, <1>2, <1>5
<1> QED
  BY <1>4, <1>6, <1>7, <1>8 DEF page, m, PageOf

-----------------------------------------------------------------------------
(* What the parts of an action do to the variables.                        *)

LEMMA TurnIs ==
    ASSUME RailTypes, lane.page # <<>>, NEW to \in LaneAt
    PROVE  /\ Turn(to) \in LaneRow
           /\ Turn(to).at = to /\ Turn(to).page = Tail(lane.page) /\ Turn(to).next = lane.next
           /\ Turn(to).n = 0 /\ Turn(to).got = 0 /\ Turn(to).blk = FALSE
<1>1. lane \in LaneRow
  BY DEF RailTypes
<1>2. Tail(lane.page) \in Seq(Entry)
  <2>1. lane.page \in Seq(Entry)
    BY <1>1 DEF LaneRow
  <2> QED
    BY <2>1, ListTail
<1>3. Turn(to) = [at |-> to, items |-> lane.items, next |-> lane.next, page |-> Tail(lane.page),
                  full |-> lane.full, n |-> 0, got |-> 0, blk |-> FALSE]
  BY DEF Turn
<1>4. 0 \in Numbers /\ FALSE \in BOOLEAN
  BY DEF Numbers
<1> QED
  BY <1>1, <1>2, <1>3, <1>4 DEF LaneRow

LEMMA RestingIs ==
    Resting \in LaneRow /\ Resting.at = "idle" /\ Resting.page = <<>> /\ Resting.got = 0
    /\ Resting.n = 0
<1>1. <<>> \in Seq(Entry) /\ 0 \in Numbers
  BY DEF Numbers
<1> QED
  BY <1>1 DEF Resting, LaneRow, LaneAt

LEMMA PageTypes ==
    ASSUME RailTypes
    PROVE  /\ lane.page \in Seq(Entry) /\ On(lane.page) \subseteq Entry
           /\ lane.page # <<>> => /\ lane.page[1] \in Entry /\ lane.page[1] \in On(lane.page)
                                  /\ lane.page[1][1] \in Threads
                                  /\ Here \in Threads
<1>1. lane.page \in Seq(Entry)
  BY DEF RailTypes, LaneRow
<1>2. On(lane.page) \subseteq Entry
  BY <1>1 DEF On
<1>3. ASSUME lane.page # <<>>
      PROVE  lane.page[1] \in Entry /\ lane.page[1] \in On(lane.page)
  BY <1>1, <1>3, ListTail
<1> QED
  BY <1>1, <1>2, <1>3 DEF Entry, Here

\* One send's row changes its state.
LEMMA StateSet ==
    ASSUME RailTypes, NEW i \in Intents, NEW s \in States,
           intent' = [intent EXCEPT ![i].st = s]
    PROVE  /\ intent' \in [Intents -> Row]
           /\ intent'[i].st = s /\ intent'[i].on = intent[i].on /\ intent'[i].age = intent[i].age
           /\ intent'[i].pin = intent[i].pin
           /\ \A j \in Intents : j # i => intent'[j] = intent[j]
<1>1. intent \in [Intents -> Row] /\ intent[i] \in Row
  BY DEF RailTypes
<1>2. [intent[i] EXCEPT !.st = s] = [st |-> s, on |-> intent[i].on, pin |-> intent[i].pin,
                                     age |-> intent[i].age]
  BY <1>1 DEF Row
<1>3. [intent[i] EXCEPT !.st = s] \in Row
  BY <1>1, <1>2 DEF Row
<1>4. intent'[i] = [intent[i] EXCEPT !.st = s] /\ \A j \in Intents : j # i => intent'[j] = intent[j]
  BY <1>1
<1>5. intent' \in [Intents -> Row]
  BY <1>1, <1>3
<1> QED
  BY <1>2, <1>4, <1>5

\* One letter more.
LEMMA LandsIs ==
    ASSUME RailTypes, NEW t \in Threads, NEW by \in {"buyer", "auto", "seller", "agent"},
           NEW i \in Intents \cup {None}, Lands(t, by, i)
    PROVE  /\ mail' \in [Threads -> Seq(Letter)] /\ changes' \in Seq(Change)
           /\ \A u \in Threads : /\ Len(mail[u]) \in Nat /\ DOMAIN mail[u] \subseteq DOMAIN mail'[u]
                                 /\ Len(mail[u]) <= Len(mail'[u])
                                 /\ DOMAIN mail[u] = 1..Len(mail[u])
                                 /\ \A n \in DOMAIN mail[u] : mail'[u][n] = mail[u][n]
                                 /\ u # t => mail'[u] = mail[u]
           /\ DOMAIN mail'[t] = 1..(Len(mail[t]) + 1)
           /\ mail'[t][Len(mail[t]) + 1] = [by |-> by, of |-> i]
           /\ \/ UNCHANGED changes
              \/ changes' = Append(changes, <<t, Len(mail[t]) + 1>>)
                 /\ (Relay \/ by \in {"buyer", "auto"})
           /\ UNCHANGED blocked
<1>1. mail \in [Threads -> Seq(Letter)] /\ changes \in Seq(Change)
  BY DEF RailTypes
<1>2. [by |-> by, of |-> i] \in Letter
  BY DEF Letter
<1>3. \A u \in Threads : Len(mail[u]) \in Nat /\ DOMAIN mail[u] = 1..Len(mail[u])
  BY <1>1
<1>4. mail' = [mail EXCEPT ![t] = Append(mail[t], [by |-> by, of |-> i])]
  BY DEF Lands
<1>5. mail'[t] = Append(mail[t], [by |-> by, of |-> i]) /\ \A u \in Threads : u # t => mail'[u] = mail[u]
  BY <1>1, <1>4
<1>6. /\ mail'[t] \in Seq(Letter) /\ Len(mail'[t]) = Len(mail[t]) + 1
      /\ mail'[t][Len(mail[t]) + 1] = [by |-> by, of |-> i]
      /\ \A n \in 1..Len(mail[t]) : mail'[t][n] = mail[t][n]
      /\ DOMAIN mail'[t] = 1..(Len(mail[t]) + 1)
  BY <1>1, <1>2, <1>3, <1>5
<1>7. mail' \in [Threads -> Seq(Letter)]
  BY <1>1, <1>4, <1>5, <1>6
<1>8. Len(mail[t]) + 1 \in Numbers
  BY <1>3 DEF Numbers
<1>9. changes' \in Seq(Change)
  BY <1>1, <1>8 DEF Lands, Change
<1>10. \A u \in Threads : DOMAIN mail[u] \subseteq DOMAIN mail'[u] /\ Len(mail[u]) <= Len(mail'[u])
  BY <1>3, <1>5, <1>6
<1>11. \A u \in Threads : \A n \in DOMAIN mail[u] : mail'[u][n] = mail[u][n]
  BY <1>3, <1>5, <1>6
<1>12. \/ UNCHANGED changes
       \/ changes' = Append(changes, <<t, Len(mail[t]) + 1>>) /\ (Relay \/ by \in {"buyer", "auto"})
  BY DEF Lands
<1> QED
  BY <1>3, <1>5, <1>6, <1>7, <1>9, <1>10, <1>11, <1>12 DEF Lands

\* What bazaar holds once a reply is taken.
LEMMA TakesIs ==
    ASSUME RailTypes, NEW t \in Threads, NEW i \in Intents, BazaarTakes(t, i)
    PROVE  /\ i \in Stored' /\ Stored' = Stored \cup {i}
           /\ \/ i \in Stored /\ UNCHANGED bazaar
              \/ i \notin Stored /\ t \notin blocked /\ Lands(t, "agent", i)
<1>1. CASE i \in Stored
  BY <1>1 DEF BazaarTakes, bazaar, Stored
<1>2. CASE i \notin Stored
  <2>1. Lands(t, "agent", i) /\ t \notin blocked
    BY <1>2 DEF BazaarTakes
  <2>2. /\ \A u \in Threads : /\ DOMAIN mail[u] \subseteq DOMAIN mail'[u]
                              /\ \A n \in DOMAIN mail[u] : mail'[u][n] = mail[u][n]
                              /\ u # t => mail'[u] = mail[u]
                              /\ DOMAIN mail[u] = 1..Len(mail[u]) /\ Len(mail[u]) \in Nat
        /\ DOMAIN mail'[t] = 1..(Len(mail[t]) + 1)
        /\ mail'[t][Len(mail[t]) + 1] = [by |-> "agent", of |-> i]
    BY <2>1, LandsIs
  <2>3. i \in Stored'
    <3>1. Len(mail[t]) + 1 \in DOMAIN mail'[t] /\ mail'[t][Len(mail[t]) + 1].of = i
      BY <2>2
    <3> QED
      BY <3>1 DEF Stored
  <2>4. Stored \subseteq Stored'
    BY <2>2 DEF Stored
  <2>5. ASSUME NEW j \in Stored'
        PROVE  j \in Stored \cup {i}
    <3>0. PICK u \in Threads : \E n \in DOMAIN mail'[u] : mail'[u][n].of = j
      BY <2>5 DEF Stored
    <3>1. PICK n \in DOMAIN mail'[u] : mail'[u][n].of = j
      BY <3>0
    <3>2. CASE n \in DOMAIN mail[u]
      BY <2>2, <2>5, <3>1, <3>2 DEF Stored
    <3>3. CASE n \notin DOMAIN mail[u]
      <4>1. u = t
        BY <2>2, <3>1, <3>3
      <4>2. n = Len(mail[t]) + 1
        BY <2>2, <3>1, <3>3, <4>1
      <4> QED
        BY <2>2, <3>1, <4>1, <4>2
    <3> QED
      BY <3>2, <3>3
  <2> QED
    BY <1>2, <2>1, <2>3, <2>4, <2>5
<1> QED
  BY <1>1, <1>2

\* A letter of nobody's changes nothing about what is stored.
LEMMA WritesStores ==
    ASSUME RailTypes, NEW t \in Threads, NEW by \in {"buyer", "auto", "seller", "agent"},
           Lands(t, by, None)
    PROVE  Stored' = Stored
<1>1. /\ \A u \in Threads : /\ DOMAIN mail[u] \subseteq DOMAIN mail'[u]
                            /\ \A n \in DOMAIN mail[u] : mail'[u][n] = mail[u][n]
                            /\ u # t => mail'[u] = mail[u]
                            /\ DOMAIN mail[u] = 1..Len(mail[u]) /\ Len(mail[u]) \in Nat
      /\ DOMAIN mail'[t] = 1..(Len(mail[t]) + 1)
      /\ mail'[t][Len(mail[t]) + 1] = [by |-> by, of |-> None]
  BY LandsIs
<1>2. None \notin Intents
  BY MailAssumption DEF None
<1>3. Stored \subseteq Stored'
  BY <1>1 DEF Stored
<1>4. ASSUME NEW j \in Stored'
      PROVE  j \in Stored
  <2>0. PICK u \in Threads : \E n \in DOMAIN mail'[u] : mail'[u][n].of = j
    BY <1>4 DEF Stored
  <2>1. PICK n \in DOMAIN mail'[u] : mail'[u][n].of = j
    BY <2>0
  <2>2. CASE n \in DOMAIN mail[u]
    BY <1>1, <1>4, <2>1, <2>2 DEF Stored
  <2>3. CASE n \notin DOMAIN mail[u]
    <3>1. u = t
      BY <1>1, <2>1, <2>3
    <3>2. n = Len(mail[t]) + 1
      BY <1>1, <2>1, <2>3, <3>1
    <3>3. j = None
      BY <1>1, <2>1, <3>1, <3>2
    <3> QED
      BY <1>2, <1>4, <3>3 DEF Stored
  <2> QED
    BY <2>2, <2>3
<1> QED
  BY <1>3, <1>4

-----------------------------------------------------------------------------
(* Every variable keeps its type.                                          *)

LEMMA RailTypesInit == Init => RailTypes
<1> SUFFICES ASSUME Init PROVE RailTypes
  OBVIOUS
<1>1. 0 \in Numbers /\ {} \in SUBSET Numbers
  BY DEF Numbers
<1>2. Unborn \in Row
  BY <1>1 DEF Unborn, Row, States
<1>3. NoCall \in CallRow /\ NoAsk \in AskRow
  BY <1>1 DEF NoCall, CallRow, NoAsk, AskRow
<1>4. lane \in LaneRow
  BY RestingIs DEF Init
<1>5. /\ mail \in [Threads -> Seq(Letter)] /\ changes \in Seq(Change)
      /\ stat \in [Threads -> Statuses] /\ known \in [Threads -> SUBSET Numbers]
      /\ folded \in [Threads -> SUBSET Intents]
      /\ rereads \in [Threads -> {"no", "unplaced", "placed"}]
  BY DEF Init, Statuses
<1>6. intent \in [Intents -> Row] /\ call \in [Threads -> CallRow] /\ ask \in [Threads -> AskRow]
  BY <1>2, <1>3 DEF Init
<1> QED
  BY <1>1, <1>4, <1>5, <1>6 DEF Init, RailTypes

\* What a commit leaves, whoever makes it: pins and cursors apart.
LEMMA CommitsIs ==
    ASSUME RailTypes, NEW i \in Intents, NEW t \in Threads, NEW id \in Numbers, NEW upTo,
           Commits(i, t, id, upTo)
    PROVE  /\ intent' \in [Intents -> Row] /\ intent' = [intent EXCEPT ![i].st = "committed"]
           /\ known' \in [Threads -> SUBSET Numbers] /\ folded' \in [Threads -> SUBSET Intents]
           /\ stat' \in [Threads -> Statuses \cup {None}] /\ ask' \in [Threads -> AskRow]
           /\ \A u \in Threads : u # t => /\ stat'[u] = stat[u] /\ ask'[u] = ask[u]
                                          /\ known'[u] = known[u] /\ folded'[u] = folded[u]
           /\ \/ stat'[t] = stat[t] /\ ask'[t] = ask[t]
              \/ ask[t].kind # None /\ stat'[t] = ask[t].from /\ ask'[t] = NoAsk
           /\ Relay => known'[t] = known[t] \cup {id} /\ folded'[t] = folded[t]
           /\ ~Relay => known'[t] = known[t] /\ folded'[t] = folded[t] \cup {i}
<1>1. NoAsk \in AskRow
  BY DEF NoAsk, AskRow, Numbers
<1>2. "committed" \in States
  BY DEF States
<1>3. intent' = [intent EXCEPT ![i].st = "committed"]
  BY DEF Commits
<1>4. intent' \in [Intents -> Row]
  BY <1>2, <1>3, StateSet
<1>5. /\ known \in [Threads -> SUBSET Numbers] /\ folded \in [Threads -> SUBSET Intents]
      /\ known' = [known EXCEPT ![t] = known[t] \cup IF Relay THEN {id} ELSE {}]
      /\ folded' = [folded EXCEPT ![t] = folded[t] \cup IF Relay THEN {} ELSE {i}]
  BY DEF Commits, RailTypes
<1>6. /\ known' \in [Threads -> SUBSET Numbers] /\ folded' \in [Threads -> SUBSET Intents]
      /\ \A u \in Threads : u # t => known'[u] = known[u] /\ folded'[u] = folded[u]
      /\ Relay => known'[t] = known[t] \cup {id} /\ folded'[t] = folded[t]
      /\ ~Relay => known'[t] = known[t] /\ folded'[t] = folded[t] \cup {i}
  BY <1>5
<1>7. stat \in [Threads -> Statuses] /\ ask \in [Threads -> AskRow] /\ ask[t] \in AskRow
  BY DEF RailTypes
<1>8. ask[t].from \in Statuses \cup {None}
  BY <1>7 DEF AskRow
<1>9. /\ stat' \in [Threads -> Statuses \cup {None}] /\ ask' \in [Threads -> AskRow]
      /\ \A u \in Threads : u # t => stat'[u] = stat[u] /\ ask'[u] = ask[u]
      /\ \/ stat'[t] = stat[t] /\ ask'[t] = ask[t]
         \/ ask[t].kind # None /\ stat'[t] = ask[t].from /\ ask'[t] = NoAsk
  <2>1. CASE intent[i].st = "unconfirmed" /\ ask[t].kind = "unconfirmed_send"
    <3>1. stat' = [stat EXCEPT ![t] = ask[t].from] /\ ask' = [ask EXCEPT ![t] = NoAsk]
      BY <2>1 DEF Commits
    <3>2. ask[t].kind # None
      BY <2>1 DEF None
    <3> QED
      BY <1>1, <1>7, <1>8, <3>1, <3>2
  <2>2. CASE ~(intent[i].st = "unconfirmed" /\ ask[t].kind = "unconfirmed_send")
    <3>1. stat' = [stat EXCEPT ![t] = stat[t]] /\ ask' = [ask EXCEPT ![t] = ask[t]]
      BY <2>2 DEF Commits
    <3> QED
      BY <1>7, <3>1
  <2> QED
    BY <2>1, <2>2
<1> QED
  BY <1>3, <1>4, <1>6, <1>9

-----------------------------------------------------------------------------
(* The invariant of the sends: a call and its send belong together, what   *)
(* was stored was sent, what was dropped is not stored and cannot be.      *)

CallOK(t) ==
    /\ call[t].at = "idle" => call[t].of = None
    /\ call[t].at # "idle" => call[t].of \in Intents
    /\ call[t].at = "composing" => intent[call[t].of].st = "unborn"
    /\ call[t].at \in {"reserved", "trying", "sent"} =>
         intent[call[t].of].on = t /\ intent[call[t].of].st # "unborn"
    /\ call[t].at \in {"composing", "reserved"} => call[t].tries = 0
    /\ call[t].at \in {"reserved", "trying"} /\ call[t].tries = 0 =>
         /\ intent[call[t].of].st \in {"pending", "unverified"}
         /\ intent[call[t].of].age = 0 /\ call[t].of \notin Stored
    /\ call[t].at = "sent" => call[t].of \in Stored

Calls ==
    /\ \A t \in Threads : CallOK(t)
    /\ \A t, u \in Threads : call[t].of = call[u].of => t = u \/ call[t].of = None

FateOK(i) ==
    /\ intent[i].st = "unborn" => intent[i].on = None /\ intent[i].age = 0 /\ i \notin Stored
    /\ intent[i].st # "unborn" => intent[i].on \in Threads
    /\ intent[i].st = "committed" => i \in Stored
    /\ intent[i].st = "dropped" =>
         /\ i \notin Stored
         /\ \/ intent[i].on \in blocked
            \/ intent[i].age = 0 /\ \A t \in Threads : call[t].of # i

Fates == \A i \in Intents : FateOK(i)

\* A reply lies in the thread it was for.
Letters ==
    \A t \in Threads : \A n \in DOMAIN mail[t] :
      mail[t][n].of # None => intent[mail[t][n].of].on = t

\* What the lane retries has had its time, and what it settles is stored.
Retries ==
    /\ lane.at \in {"sends", "settle"} =>
         \A e \in On(lane.page) : /\ e[2] \in Intents /\ intent[e[2]].age >= 1
                                  /\ intent[e[2]].on = e[1]
    /\ lane.at = "settle" => lane.page # <<>> /\ Retrying \in Stored

\* The lane reads no further than there is to read.
Reading ==
    /\ cursor <= Len(changes)
    /\ lane.at # "idle" => lane.next <= Len(changes)
    /\ AtThread /\ lane.got # 0 => lane.got <= Len(mail[Here])
    /\ lane.at \in {"page", "mark"} =>
         \A e \in On(lane.page) : \E k \in 1..lane.next : e = changes[k]
    /\ lane.at = "mark" => lane.page # <<>> /\ ~Relay
    /\ lane.at = "list" => lane.page = <<>>
    /\ lane.page = <<>> => lane.got = 0

SendInv == Calls /\ Fates /\ Letters /\ Retries /\ Reading

\* Where a reply of ours is found.
LEMMA FoundIn ==
    ASSUME RailTypes, Letters, NEW i \in Stored, NEW t \in Threads, intent[i].on = t
    PROVE  IdIn(mail[t], i) \in Numbers /\ IdIn(mail[t], i) \in DOMAIN mail[t]
           /\ mail[t][IdIn(mail[t], i)].of = i
<1>1. i \in Intents /\ i # None
  BY MailAssumption DEF Stored, None
<1>2. PICK u \in Threads : \E n \in DOMAIN mail[u] : mail[u][n].of = i
  BY DEF Stored
<1>3. u = t
  BY <1>1, <1>2 DEF Letters
<1>4. \E n \in DOMAIN mail[t] : mail[t][n].of = i
  BY <1>2, <1>3
<1>5. IdIn(mail[t], i) \in DOMAIN mail[t] /\ mail[t][IdIn(mail[t], i)].of = i
  BY <1>4 DEF IdIn
<1>6. DOMAIN mail[t] \subseteq Nat
  BY DEF RailTypes
<1> QED
  BY <1>5, <1>6 DEF Numbers

\* The message the lane reads next.
LEMMA NextLetter ==
    ASSUME RailTypes, Reading, RecordMessage
    PROVE  /\ Here \in Threads /\ lane.n + 1 \in DOMAIN mail[Here] /\ lane.n + 1 \in Numbers
           /\ mail[Here][lane.n + 1] \in Letter
           /\ lane.n + 1 <= lane.got /\ lane.n \in Nat /\ lane.got \in Nat
<1>1. AtThread /\ lane.n < lane.got
  BY DEF RecordMessage
<1>2. Here \in Threads
  BY <1>1, PageTypes DEF AtThread
<1>3. lane.n \in Nat /\ lane.got \in Nat
  BY DEF RailTypes, LaneRow, Numbers
<1>4. lane.got <= Len(mail[Here])
  BY <1>1, <1>3 DEF Reading
<1>5. mail[Here] \in Seq(Letter)
  BY <1>2 DEF RailTypes
<1>6. Len(mail[Here]) \in Nat /\ DOMAIN mail[Here] = 1..Len(mail[Here])
  BY <1>5
<1>7. lane.n + 1 \in DOMAIN mail[Here] /\ lane.n + 1 <= lane.got
  BY <1>1, <1>3, <1>4, <1>6
<1>8. mail[Here][lane.n + 1] \in Letter
  BY <1>5, <1>6, <1>7
<1> QED
  BY <1>2, <1>3, <1>7, <1>8 DEF Numbers

\* The mail a registration lane is at.
LEMMA MailIs ==
    ASSUME RailTypes, Reading, lane.at \in {"page", "mark"}, lane.page # <<>>
    PROVE  /\ MailHere \in Change /\ MailHere[1] = Here /\ Here \in Threads /\ MailHere[2] \in Nat
           /\ \E k \in DOMAIN changes : MailHere = changes[k]
<1>1. MailHere \in On(lane.page)
  BY PageTypes DEF MailHere
<1>2. PICK k \in 1..lane.next : MailHere = changes[k]
  BY <1>1 DEF Reading
<1>3. changes \in Seq(Change) /\ lane.next \in Nat /\ lane.next <= Len(changes)
  BY DEF Reading, RailTypes, LaneRow, Numbers
<1>4. k \in DOMAIN changes /\ changes[k] \in Change
  BY <1>3
<1> QED
  BY <1>2, <1>4 DEF Change, Numbers, MailHere, Here

\* The lists a lane makes of its own are of entries.
LEMMA MadeLists ==
    ASSUME RailTypes, NEW S, IsFiniteSet(S), NEW f, f \in [S -> Entry]
    PROVE  /\ SetToSeq({f[x] : x \in S}) \in Seq(Entry)
           /\ On(SetToSeq({f[x] : x \in S})) = {f[x] : x \in S}
<1> DEFINE T == {f[x] : x \in S}
<1>1. f \in Surjection(S, T)
  BY DEF Surjection
<1>2. IsFiniteSet(T)
  BY <1>1, FS_Surjection
<1>3. SetToSeq(T) \in Seq(T) /\ On(SetToSeq(T)) = T
  BY <1>2, ListOfSet
<1>4. T \subseteq Entry
  OBVIOUS
<1>5. SetToSeq(T) \in Seq(Entry)
  BY <1>3, <1>4, SeqMonotonic
<1> QED
  BY <1>3, <1>5

LEMMA KeptList ==
    ASSUME RailTypes
    PROVE  SetToSeq({<<t, 0>> : t \in KeptOnes}) \in Seq(Entry)
<1> DEFINE f == [t \in KeptOnes |-> <<t, 0>>]
<1>1. KeptOnes \subseteq Threads
  BY DEF KeptOnes
<1>2. IsFiniteSet(KeptOnes)
  BY <1>1, MailAssumption, FS_Subset
<1>3. f \in [KeptOnes -> Entry]
  BY <1>1 DEF Entry, Numbers
<1>4. {<<t, 0>> : t \in KeptOnes} = {f[t] : t \in KeptOnes}
  OBVIOUS
<1> HIDE DEF f
<1> QED
  BY <1>2, <1>3, <1>4, MadeLists

LEMMA SendsList ==
    ASSUME RailTypes, Fates, NEW due, due \in {{}, Retried}
    PROVE  LET page == SetToSeq({<<intent[i].on, i>> : i \in due})
           IN  /\ page \in Seq(Entry)
               /\ \A e \in On(page) : /\ e[2] \in Intents /\ intent[e[2]].age >= 1
                                      /\ intent[e[2]].on = e[1]
<1> DEFINE f == [i \in due |-> <<intent[i].on, i>>]
<1>1. due \subseteq Retried /\ Retried \subseteq Intents
  BY DEF Retried
<1>2. IsFiniteSet(due)
  BY <1>1, MailAssumption, FS_Subset
<1>3. \A i \in due : i \in Intents /\ intent[i].on \in Threads /\ intent[i].age >= 1
  BY <1>1 DEF Retried, Fates, FateOK
<1>4. f \in [due -> Entry]
  BY <1>3 DEF Entry
<1>5. {<<intent[i].on, i>> : i \in due} = {f[i] : i \in due}
  OBVIOUS
<1>6. \A e \in {f[i] : i \in due} : /\ e[2] \in Intents /\ intent[e[2]].age >= 1
                                    /\ intent[e[2]].on = e[1]
  BY <1>3
<1> HIDE DEF f
<1>7. SetToSeq({f[i] : i \in due}) \in Seq(Entry)
      /\ On(SetToSeq({f[i] : i \in due})) = {f[i] : i \in due}
  BY <1>2, <1>4, MadeLists
<1> QED
  BY <1>5, <1>6, <1>7

LEMMA PinsAreMarks == ASSUME RailTypes, NEW t \in Threads
                      PROVE  Max(Inbound(t)) \in Marks /\ Max(News(t)) \in Marks
<1>1. known[t] \subseteq Numbers
  BY DEF RailTypes
<1> QED
  BY <1>1 DEF Inbound, News, Marks

LEMMA LaneTypesStep ==
    ASSUME RailTypes, SendInv, LaneStep
    PROVE  RailTypes'
<1> USE DEF RailTypes, fixed, bazaar, threads, sends, marks
<1>1. lane \in LaneRow /\ lane.page \in Seq(Entry) /\ (lane.page # <<>> => Here \in Threads)
  BY PageTypes DEF LaneRow
<1>2. 0 \in Numbers /\ FALSE \in BOOLEAN /\ 1 \in Nat
  BY DEF Numbers
<1>3. \A to \in LaneAt : lane.page # <<>> => Turn(to) \in LaneRow
  BY TurnIs
<1>4. CASE ListPage
  <2> DEFINE page == SubSeq(changes, lane.next + 1, Min({Len(changes), lane.next + PageSize}))
  <2>1. lane' = [lane EXCEPT !.at = "page", !.page = page, !.full = Len(page) = PageSize,
                             !.next = @ + Len(page)]
    BY <1>4 DEF ListPage
  <2>2. lane.next \in Nat /\ lane.next <= Len(changes)
    BY <1>1, <1>4 DEF SendInv, Reading, ListPage, LaneRow, Numbers
  <2>3. page \in Seq(Change) /\ Len(page) \in Nat
    BY <2>2, MailAssumption, PageIs DEF PageOf
  <2>4. page \in Seq(Entry)
    <3>1. Change \subseteq Entry
      BY DEF Change, Entry
    <3> QED
      BY <2>3, <3>1, SeqMonotonic
  <2>5. lane.next + Len(page) \in Numbers
    BY <2>2, <2>3 DEF Numbers
  <2> HIDE DEF page
  <2>6. (Len(page) = PageSize) \in BOOLEAN
    OBVIOUS
  <2>7. lane' \in LaneRow
    BY <1>1, <2>1, <2>4, <2>5, <2>6 DEF LaneRow, LaneAt
  <2> QED
    BY <1>4, <2>7 DEF ListPage
<1>5. CASE LeaveUnplaced \/ GetThreadFails
  <2>1. lane.page # <<>> /\ lane' = Turn(lane.at) /\ lane.at \in LaneAt
    BY <1>1, <1>5 DEF LeaveUnplaced, GetThreadFails, AtThread, LaneRow
  <2>2. lane' \in LaneRow
    BY <1>3, <2>1
  <2>3. rereads' \in [Threads -> {"no", "unplaced", "placed"}]
    BY <1>1, <1>5, <2>1 DEF LeaveUnplaced, GetThreadFails, Reread
  <2> QED
    BY <1>5, <2>2, <2>3 DEF LeaveUnplaced, GetThreadFails
<1>6. CASE GetThread
  <2>1. Here \in Threads /\ Len(mail[Here]) \in Numbers
    BY <1>1, <1>6 DEF GetThread, AtThread, Numbers
  <2>2. lane' = [lane EXCEPT !.got = Len(mail[Here]), !.blk = Here \in blocked]
    BY <1>6 DEF GetThread
  <2>3. (Here \in blocked) \in BOOLEAN
    OBVIOUS
  <2>4. lane' \in LaneRow
    BY <1>1, <2>1, <2>2, <2>3 DEF LaneRow
  <2>5. stat' \in [Threads -> Statuses]
    BY <1>6, <2>1 DEF GetThread, Statuses
  <2> QED
    BY <1>6, <2>4, <2>5 DEF GetThread
<1>7. CASE RecordMessage
  <2> DEFINE t == Here
             n == lane.n + 1
             i == mail[t][n].of
  <2>1. t \in Threads /\ n \in Numbers /\ i \in Intents \cup {None}
    BY <1>7, NextLetter DEF SendInv, Letter
  <2>2. lane' \in LaneRow
    BY <1>1, <1>7, <2>1 DEF RecordMessage, LaneRow
  <2>3. CASE i # None /\ intent[i].st \in Unsettled
    <3>1. Commits(i, t, n, LastBuyer(t, n)) /\ UNCHANGED call
      BY <1>7, <2>3 DEF RecordMessage
    <3>2. i \in Intents
      BY <2>1, <2>3
    <3> HIDE DEF i, t, n
    <3>3. /\ intent' \in [Intents -> Row] /\ known' \in [Threads -> SUBSET Numbers]
          /\ folded' \in [Threads -> SUBSET Intents]
          /\ stat' \in [Threads -> Statuses \cup {None}] /\ ask' \in [Threads -> AskRow]
      BY <2>1, <3>1, <3>2, CommitsIs
    <3>4. Statuses \cup {None} = Statuses
      BY DEF Statuses, None
    <3> QED
      BY <1>7, <2>2, <3>1, <3>3, <3>4 DEF RecordMessage
  <2>4. CASE ~(i # None /\ intent[i].st \in Unsettled)
    <3>1. known' = [known EXCEPT ![t] = known[t] \cup {n}] /\ UNCHANGED <<sends, stat, folded, ask>>
      BY <1>7, <2>4 DEF RecordMessage
    <3> HIDE DEF i, t, n
    <3>2. known' \in [Threads -> SUBSET Numbers]
      BY <2>1, <3>1
    <3> QED
      BY <1>7, <2>2, <3>1, <3>2 DEF RecordMessage
  <2> QED
    BY <2>3, <2>4
<1>8. CASE FinishThread
  <2>1. lane.page # <<>> /\ lane' = Turn(lane.at) /\ lane.at \in LaneAt
    BY <1>1, <1>8 DEF FinishThread, AtThread, LaneRow
  <2>2. lane' \in LaneRow
    BY <1>3, <2>1
  <2>3. stat' \in [Threads -> Statuses] /\ rereads' \in [Threads -> {"no", "unplaced", "placed"}]
    BY <1>1, <1>8, <2>1 DEF FinishThread, Reread, Statuses
  <2> QED
    BY <1>8, <2>2, <2>3 DEF FinishThread
<1>9. CASE AppendMail
  <2>1. /\ Here \in Threads /\ MailHere[2] \in Numbers /\ lane.at = "page"
        /\ stat' = [stat EXCEPT ![Here] = IF @ = "none" THEN "active" ELSE @]
        /\ known' = [known EXCEPT ![Here] = @ \cup {MailHere[2]}]
        /\ lane' = [lane EXCEPT !.at = "mark"]
        /\ UNCHANGED <<fixed, bazaar, folded, sends, marks, ask>>
    BY <1>9, MailIs DEF AppendMail, SendInv, Numbers
  <2>2. lane' \in LaneRow
    BY <1>1, <2>1 DEF LaneRow, LaneAt
  <2>3. stat' \in [Threads -> Statuses] /\ known' \in [Threads -> SUBSET Numbers]
    BY <2>1 DEF Statuses
  <2> QED
    BY <2>1, <2>2, <2>3
<1>10. CASE SkipMail \/ MarkSeen
  <2>1. lane.page # <<>> /\ lane' = Turn("page")
    BY <1>10 DEF SkipMail, MarkSeen, SendInv, Reading
  <2>2. lane' \in LaneRow
    BY <1>3, <2>1 DEF LaneAt
  <2> QED
    BY <1>10, <2>2 DEF SkipMail, MarkSeen
<1>11. CASE SetCursor
  <2>1. lane' \in LaneRow
    <3>1. CASE lane.full
      BY <1>1, <1>11, <3>1 DEF SetCursor, LaneRow, LaneAt
    <3>2. CASE ~lane.full
      <4> DEFINE page == SetToSeq({<<t, 0>> : t \in KeptOnes})
      <4>1. lane' = [lane EXCEPT !.at = "reread", !.page = page]
        BY <1>11, <3>2 DEF SetCursor
      <4>2. page \in Seq(Entry)
        BY KeptList
      <4> HIDE DEF page
      <4> QED
        BY <1>1, <4>1, <4>2 DEF LaneRow, LaneAt
    <3> QED
      BY <3>1, <3>2
  <2>2. cursor' \in Numbers
    BY <1>1, <1>11 DEF SetCursor, LaneRow
  <2> QED
    BY <1>11, <2>1, <2>2 DEF SetCursor
<1>12. CASE ToSends
  <2>1. PICK due \in {{}, Retried} :
          lane' = [lane EXCEPT !.at = "sends", !.page = SetToSeq({<<intent[i].on, i>> : i \in due})]
    BY <1>12 DEF ToSends
  <2> DEFINE page == SetToSeq({<<intent[i].on, i>> : i \in due})
  <2>2. page \in Seq(Entry)
    BY SendsList DEF SendInv
  <2> HIDE DEF page
  <2>3. lane' = [lane EXCEPT !.at = "sends", !.page = page]
    BY <2>1 DEF page
  <2>4. lane' \in LaneRow
    BY <1>1, <2>2, <2>3 DEF LaneRow, LaneAt
  <2> QED
    BY <1>12, <2>4 DEF ToSends
<1>13. CASE RetryTaken
  <2>1. Here \in Threads /\ Retrying \in Intents
    BY <1>1, <1>13, PageTypes DEF RetryTaken, SendInv, Retries, Retrying
  <2>2. BazaarTakes(Here, Retrying) /\ lane' = [lane EXCEPT !.at = "settle"]
    BY <1>13 DEF RetryTaken
  <2>3. lane' \in LaneRow
    BY <1>1, <2>2 DEF LaneRow, LaneAt
  <2>4. mail' \in [Threads -> Seq(Letter)] /\ changes' \in Seq(Change) /\ UNCHANGED blocked
    BY <2>1, <2>2, TakesIs, LandsIs
  <2> QED
    BY <1>13, <2>3, <2>4 DEF RetryTaken
<1>14. CASE RetrySettles
  <2>1. lane.page # <<>> /\ lane' = Turn("sends") /\ Here \in Threads /\ Retrying \in Stored
        /\ intent[Retrying].on = Here
    BY <1>1, <1>14, PageTypes DEF RetrySettles, SendInv, Retries, Retrying, Here
  <2>2. lane' \in LaneRow
    BY <1>3, <2>1 DEF LaneAt
  <2>3. Retrying \in Intents /\ IdIn(mail[Here], Retrying) \in Numbers
    BY <2>1, FoundIn DEF SendInv, Stored
  <2>4. CASE intent[Retrying].st \in Unsettled
    <3>1. Commits(Retrying, Here, IdIn(mail[Here], Retrying), 0)
      BY <1>14, <2>4 DEF RetrySettles
    <3>2. /\ intent' \in [Intents -> Row] /\ known' \in [Threads -> SUBSET Numbers]
          /\ folded' \in [Threads -> SUBSET Intents]
          /\ stat' \in [Threads -> Statuses \cup {None}] /\ ask' \in [Threads -> AskRow]
      BY <2>1, <2>3, <3>1, CommitsIs
    <3>3. Statuses \cup {None} = Statuses
      BY DEF Statuses, None
    <3> QED
      BY <1>14, <2>2, <3>2, <3>3 DEF RetrySettles
  <2>5. CASE intent[Retrying].st \notin Unsettled
    BY <1>14, <2>2, <2>5 DEF RetrySettles
  <2> QED
    BY <2>4, <2>5
<1>15. CASE RetryRefused
  <2>1. lane.page # <<>> /\ lane' = Turn("sends") /\ Retrying \in Intents
    BY <1>15, PageTypes DEF RetryRefused, SendInv, Retries, Retrying
  <2>2. lane' \in LaneRow
    BY <1>3, <2>1 DEF LaneAt
  <2>3. intent' \in [Intents -> Row]
    <3>1. "dropped" \in States
      BY DEF States
    <3> QED
      BY <1>15, <2>1, <3>1, StateSet DEF RetryRefused, Drop
  <2> QED
    BY <1>15, <2>2, <2>3 DEF RetryRefused
<1>16. CASE Nudges
  <2>1. \A t \in Threads : [ask[t] EXCEPT !.told = Max(News(t)), !.queued = TRUE] \in AskRow
    BY PinsAreMarks DEF AskRow
  <2>2. ask' \in [Threads -> AskRow]
    BY <1>16, <2>1 DEF Nudges
  <2> QED
    BY <1>16, <2>2, RestingIs DEF Nudges
<1>17. CASE LaneFails
  BY <1>17, RestingIs DEF LaneFails
<1> QED
  BY <1>4, <1>5, <1>6, <1>7, <1>8, <1>9, <1>10, <1>11, <1>12, <1>13, <1>14, <1>15, <1>16, <1>17
  DEF LaneStep

\* A call's row.
LEMMA CallSet ==
    ASSUME RailTypes, NEW t \in Threads, NEW r \in CallRow, call' = [call EXCEPT ![t] = r]
    PROVE  /\ call' \in [Threads -> CallRow] /\ call'[t] = r
           /\ \A u \in Threads : u # t => call'[u] = call[u]
  BY DEF RailTypes

LEMMA CallRows ==
    ASSUME RailTypes, NEW t \in Threads
    PROVE  /\ NoCall \in CallRow /\ Tried(t) \in CallRow
           /\ Tried(t) = NoCall \/ /\ Tried(t).at = call[t].at /\ Tried(t).of = call[t].of
                                   /\ Tried(t).tries = call[t].tries + 1
           /\ \A at \in {"idle", "composing", "reserved", "trying", "sent"} :
                /\ [call[t] EXCEPT !.at = at] \in CallRow
                /\ [call[t] EXCEPT !.at = at].at = at
                /\ [call[t] EXCEPT !.at = at].of = call[t].of
                /\ [call[t] EXCEPT !.at = at].tries = call[t].tries
<1>1. call[t] \in CallRow /\ call[t].tries \in Nat
  BY DEF RailTypes, CallRow, Numbers
<1>2. NoCall \in CallRow
  BY DEF NoCall, CallRow, Numbers
<1>3. call[t].tries + 1 \in Numbers
  BY <1>1 DEF Numbers
<1>4. /\ [call[t] EXCEPT !.tries = call[t].tries + 1] \in CallRow
      /\ [call[t] EXCEPT !.tries = call[t].tries + 1].at = call[t].at
      /\ [call[t] EXCEPT !.tries = call[t].tries + 1].of = call[t].of
      /\ [call[t] EXCEPT !.tries = call[t].tries + 1].tries = call[t].tries + 1
  BY <1>1, <1>3 DEF CallRow
<1> QED
  BY <1>1, <1>2, <1>4 DEF Tried, CallRow

LEMMA SendTypesStep ==
    ASSUME RailTypes, SendInv, NEW t \in Threads, SendStep(t) \/ Claims(t)
    PROVE  RailTypes'
<1> USE DEF RailTypes, fixed, bazaar, threads, marks
<1>1. CASE Claims(t)
  <2> DEFINE i == CHOOSE i \in Fresh : TRUE
  <2>1. i \in Fresh /\ i \in Intents
    BY <1>1 DEF Claims, Fresh
  <2>2. /\ call' = [call EXCEPT ![t] = [at |-> "composing", of |-> i, tries |-> 0]]
        /\ intent' = [intent EXCEPT ![i].pin = Max(Inbound(t))]
    BY <1>1 DEF Claims
  <2> HIDE DEF i
  <2>3. [at |-> "composing", of |-> i, tries |-> 0] \in CallRow
    BY <2>1 DEF CallRow, Numbers
  <2>4. [intent[i] EXCEPT !.pin = Max(Inbound(t))] \in Row
    BY <2>1, PinsAreMarks DEF Row
  <2>5. call' \in [Threads -> CallRow] /\ intent' \in [Intents -> Row]
    BY <2>1, <2>2, <2>3, <2>4
  <2> QED
    BY <1>1, <2>5 DEF Claims
<1>2. CASE ReserveReply(t)
  <2>1. call[t].at = "composing" /\ call[t].of \in Intents
    BY <1>2 DEF ReserveReply, SendInv, Calls, CallOK
  <2> DEFINE i == call[t].of
  <2>2. [intent[i] EXCEPT !.st = "pending", !.on = t] \in Row
    BY <2>1 DEF Row, States
  <2>3. CASE stat[t] = "active" /\ ~InDoubt(t)
    <3>1. call' = [call EXCEPT ![t] = [call[t] EXCEPT !.at = "reserved"]]
          /\ intent' = [intent EXCEPT ![i] = [intent[i] EXCEPT !.st = "pending", !.on = t]]
      BY <1>2, <2>1, <2>3 DEF ReserveReply
    <3> HIDE DEF i
    <3>2. call' \in [Threads -> CallRow] /\ intent' \in [Intents -> Row]
      BY <2>1, <2>2, <3>1, CallRows, CallSet
    <3> QED
      BY <1>2, <3>2 DEF ReserveReply
  <2>4. CASE ~(stat[t] = "active" /\ ~InDoubt(t))
    <3>1. call' \in [Threads -> CallRow]
      BY <1>2, <2>4, CallRows, CallSet DEF ReserveReply
    <3> QED
      BY <1>2, <2>4, <3>1 DEF ReserveReply
  <2> QED
    BY <2>3, <2>4
<1>3. CASE MarkUnverified(t)
  <2>1. call[t].of \in Intents
    BY <1>3 DEF MarkUnverified, SendInv, Calls, CallOK
  <2> DEFINE i == call[t].of
             s == IF intent[i].st = "pending" THEN "unverified" ELSE intent[i].st
  <2>2. s \in States /\ intent' = [intent EXCEPT ![i].st = s]
    BY <1>3, <2>1 DEF MarkUnverified, Row, States
  <2>3. call' = [call EXCEPT ![t] = [call[t] EXCEPT !.at = "trying"]]
    BY <1>3 DEF MarkUnverified
  <2> HIDE DEF i, s
  <2>4. call' \in [Threads -> CallRow]
    BY <2>3, CallRows, CallSet
  <2>5. intent' \in [Intents -> Row]
    BY <2>1, <2>2, StateSet DEF i
  <2> QED
    BY <1>3, <2>4, <2>5 DEF MarkUnverified
<1>4. CASE AttemptSent(t) \/ AttemptLost(t)
  <2>1. call[t].of \in Intents
    BY <1>4 DEF AttemptSent, AttemptLost, SendInv, Calls, CallOK
  <2>2. call' = [call EXCEPT ![t] = [call[t] EXCEPT !.at = "sent"]] \/ call' = [call EXCEPT ![t] = Tried(t)]
    BY <1>4 DEF AttemptSent, AttemptLost
  <2>3. call' \in [Threads -> CallRow]
    BY <2>2, CallRows, CallSet
  <2>4. mail' \in [Threads -> Seq(Letter)] /\ changes' \in Seq(Change) /\ UNCHANGED blocked
    <3>1. BazaarTakes(t, call[t].of) \/ UNCHANGED bazaar
      BY <1>4 DEF AttemptSent, AttemptLost
    <3> QED
      BY <2>1, <3>1, TakesIs, LandsIs
  <2> QED
    BY <1>4, <2>3, <2>4 DEF AttemptSent, AttemptLost
<1>5. CASE AttemptRefused(t)
  <2>1. call[t].of \in Intents /\ "dropped" \in States
    BY <1>5 DEF AttemptRefused, SendInv, Calls, CallOK, States
  <2>2. intent' \in [Intents -> Row]
    BY <1>5, <2>1, StateSet DEF AttemptRefused, Drop
  <2>3. call' \in [Threads -> CallRow]
    BY <1>5, CallRows, CallSet DEF AttemptRefused
  <2> QED
    BY <1>5, <2>2, <2>3 DEF AttemptRefused
<1>6. CASE CommitReply(t)
  <2> DEFINE i == call[t].of
  <2>1. i \in Stored /\ i \in Intents /\ intent[i].on = t
    BY <1>6 DEF CommitReply, SendInv, Calls, CallOK
  <2>2. IdIn(mail[t], i) \in Numbers
    BY <2>1, FoundIn DEF SendInv
  <2>3. Commits(i, t, IdIn(mail[t], i), 0)
    BY <1>6 DEF CommitReply
  <2> HIDE DEF i
  <2>4. /\ intent' \in [Intents -> Row] /\ known' \in [Threads -> SUBSET Numbers]
        /\ folded' \in [Threads -> SUBSET Intents]
        /\ stat' \in [Threads -> Statuses \cup {None}] /\ ask' \in [Threads -> AskRow]
    BY <2>1, <2>2, <2>3, CommitsIs
  <2>5. Statuses \cup {None} = Statuses
    BY DEF Statuses, None
  <2>6. call' \in [Threads -> CallRow]
    BY <1>6, CallRows, CallSet DEF CommitReply
  <2> QED
    BY <1>6, <2>4, <2>5, <2>6 DEF CommitReply
<1> QED
  BY <1>1, <1>2, <1>3, <1>4, <1>5, <1>6 DEF SendStep

LEMMA WorldTypesStep ==
    ASSUME RailTypes, SendInv,
           \/ Rings \/ Dies \/ UNCHANGED vars
           \/ \E t \in Threads :
                \/ \E by \in {"buyer", "auto", "seller"} : Writes(t, by)
                \/ Blocks(t) \/ Links(t) \/ NudgeDelivered(t)
                \/ Escalates(t) \/ SellerAnswers(t)
           \/ \E i \in Intents : Ages(i) \/ Sweep(i)
    PROVE  RailTypes'
<1> USE DEF RailTypes, fixed, bazaar, threads, sends, marks
<1>1. CASE Rings
  <2>1. lane' = [Resting EXCEPT !.at = "list", !.items = linked, !.next = cursor]
    BY <1>1 DEF Rings, Started
  <2>2. lane' \in LaneRow
    BY <2>1, RestingIs DEF LaneRow, LaneAt
  <2> QED
    BY <1>1, <2>2 DEF Rings
<1>2. CASE Dies
  <2>1. NoCall \in CallRow
    BY DEF NoCall, CallRow, Numbers
  <2> QED
    BY <1>2, <2>1, RestingIs DEF Dies
<1>3. CASE UNCHANGED vars
  BY <1>3 DEF vars
<1>4. ASSUME NEW t \in Threads, NEW by \in {"buyer", "auto", "seller"}, Writes(t, by)
      PROVE  RailTypes'
  <2>1. Lands(t, by, None)
    BY <1>4 DEF Writes
  <2>2. mail' \in [Threads -> Seq(Letter)] /\ changes' \in Seq(Change) /\ UNCHANGED blocked
    BY <2>1, LandsIs
  <2> QED
    BY <1>4, <2>2 DEF Writes
<1>5. ASSUME NEW t \in Threads, Blocks(t)
      PROVE  RailTypes'
  <2>1. (changes' = Append(changes, <<t, 0>>) \/ changes' = changes) /\ <<t, 0>> \in Change
    BY <1>5 DEF Blocks, Change, Numbers
  <2>2. changes \in Seq(Change)
    OBVIOUS
  <2>3. CASE changes' = Append(changes, <<t, 0>>)
    BY <1>5, <2>1, <2>2, <2>3 DEF Blocks
  <2>4. CASE changes' = changes
    BY <1>5, <2>4 DEF Blocks
  <2> QED
    BY <2>1, <2>3, <2>4
<1>6. ASSUME NEW t \in Threads, Links(t)
      PROVE  RailTypes'
  BY <1>6 DEF Links
<1>7. ASSUME NEW t \in Threads, NudgeDelivered(t)
      PROVE  RailTypes'
  <2>1. [ask[t] EXCEPT !.queued = FALSE] \in AskRow
    BY DEF AskRow
  <2> QED
    BY <1>7, <2>1 DEF NudgeDelivered
<1>8. ASSUME NEW t \in Threads, NEW what \in {"question", "unconfirmed_send"}, Opens(t, what)
      PROVE  stat' \in [Threads -> Statuses] /\ ask' \in [Threads -> AskRow]
  <2>1. Len(mail[t]) \in Numbers
    BY DEF Numbers
  <2>2. [NoAsk EXCEPT !.kind = what, !.from = stat[t], !.since = Len(mail[t])] \in AskRow
    BY <2>1 DEF AskRow, NoAsk, Numbers
  <2>3. ask' \in [Threads -> AskRow]
    BY <1>8, <2>2 DEF Opens
  <2>4. stat' \in [Threads -> Statuses]
    BY <1>8 DEF Opens, Statuses
  <2> QED
    BY <2>3, <2>4
<1>9. ASSUME NEW t \in Threads, Escalates(t)
      PROVE  RailTypes'
  BY <1>8, <1>9 DEF Escalates
<1>10. ASSUME NEW t \in Threads, SellerAnswers(t)
       PROVE  RailTypes'
  <2>1. NoAsk \in AskRow /\ ask[t].from \in Statuses
    BY DEF NoAsk, AskRow, Numbers, Statuses, None
  <2> QED
    BY <1>10, <2>1 DEF SellerAnswers
<1>11. ASSUME NEW i \in Intents, Ages(i)
       PROVE  RailTypes'
  <2>1. intent[i].age + 1 \in Numbers
    BY DEF Row, Numbers
  <2>2. [intent[i] EXCEPT !.age = intent[i].age + 1] \in Row
    BY <2>1 DEF Row
  <2>3. intent' = [intent EXCEPT ![i] = [intent[i] EXCEPT !.age = intent[i].age + 1]]
    BY <1>11 DEF Ages
  <2>4. intent' \in [Intents -> Row]
    BY <2>2, <2>3
  <2> QED
    BY <1>11, <2>4 DEF Ages
<1>12. ASSUME NEW i \in Intents, Sweep(i)
       PROVE  RailTypes'
  <2>1. intent[i].on \in Threads
    BY <1>12 DEF Sweep, SendInv, Fates, FateOK
  <2>2. stat' \in [Threads -> Statuses] /\ ask' \in [Threads -> AskRow]
    BY <1>8, <1>12, <2>1 DEF Sweep
  <2>3. intent' \in [Intents -> Row]
    <3>1. "unconfirmed" \in States
      BY DEF States
    <3> QED
      BY <1>12, <3>1, StateSet DEF Sweep
  <2> QED
    BY <1>12, <2>2, <2>3 DEF Sweep
<1> QED
  BY <1>1, <1>2, <1>3, <1>4, <1>5, <1>6, <1>7, <1>9, <1>10, <1>11, <1>12

LEMMA RailTypesStep ==
    ASSUME RailTypes, SendInv, [Next]_vars
    PROVE  RailTypes'
  BY LaneTypesStep, SendTypesStep, WorldTypesStep DEF Next

-----------------------------------------------------------------------------
(* The invariant of the sends is kept.                                     *)

SendCore == Calls /\ Fates /\ Letters

LEMMA NoCallIs == NoCall.at = "idle" /\ NoCall.of = None
  BY DEF NoCall

\* A send's row changes its state and nothing else does, but calls that end.
LEMMA StateSetKeeps ==
    ASSUME RailTypes, SendCore, NEW i \in Intents, NEW s \in States, s # "unborn",
           intent[i].st # "unborn", intent' = [intent EXCEPT ![i].st = s],
           UNCHANGED <<mail, blocked>>,
           \A u \in Threads : call'[u] = call[u] \/ call'[u] = NoCall,
           s = "committed" => i \in Stored,
           s = "dropped" => /\ i \notin Stored
                            /\ \/ intent[i].on \in blocked
                               \/ intent[i].age = 0 /\ \A u \in Threads : call'[u].of # i,
           \A u \in Threads : call'[u] = call[u] /\ call[u].of = i
                              /\ call[u].at \in {"reserved", "trying"} /\ call[u].tries = 0
                                => s \in {"pending", "unverified"}
    PROVE  SendCore'
<1>1. /\ intent'[i].st = s /\ intent'[i].on = intent[i].on /\ intent'[i].age = intent[i].age
      /\ \A j \in Intents : j # i => intent'[j] = intent[j]
  BY StateSet
<1>2. Stored' = Stored
  BY DEF Stored
<1>3. ASSUME NEW u \in Threads PROVE CallOK(u)'
  <2>1. CASE call'[u] = NoCall
    BY <2>1, NoCallIs DEF CallOK
  <2>2. CASE call'[u] = call[u]
    <3>1. CallOK(u)
      BY DEF SendCore, Calls
    <3>2. CASE call[u].of = i
      BY <1>1, <1>2, <2>2, <3>1, <3>2 DEF CallOK
    <3>3. CASE call[u].of # i
      <4>1. call[u].at # "idle" => intent'[call[u].of] = intent[call[u].of]
        BY <1>1, <3>1, <3>3 DEF CallOK
      <4> QED
        BY <1>2, <2>2, <3>1, <4>1 DEF CallOK
    <3> QED
      BY <3>2, <3>3
  <2> QED
    BY <2>1, <2>2
<1>4. \A u \in Threads : call'[u].of = call[u].of \/ call'[u].of = None
  BY NoCallIs
<1>5. Calls'
  BY <1>3, <1>4 DEF Calls, SendCore
<1>6. ASSUME NEW j \in Intents PROVE FateOK(j)'
  <2>1. FateOK(j)
    BY DEF SendCore, Fates
  <2>2. CASE j = i
    BY <1>1, <1>2, <2>1, <2>2 DEF FateOK
  <2>3. CASE j # i
    <3>1. intent'[j] = intent[j]
      BY <1>1, <2>3
    <3>2. j # None
      BY MailAssumption DEF None
    <3> QED
      BY <1>2, <1>4, <2>1, <3>1, <3>2 DEF FateOK
  <2> QED
    BY <2>2, <2>3
<1>7. Letters'
  <2>1. \A j \in Intents : intent'[j].on = intent[j].on
    BY <1>1
  <2>2. \A t \in Threads : \A n \in DOMAIN mail[t] : mail[t][n].of \in Intents \cup {None}
    <3> SUFFICES ASSUME NEW t \in Threads, NEW n \in DOMAIN mail[t]
                 PROVE  mail[t][n].of \in Intents \cup {None}
      OBVIOUS
    <3>1. mail[t] \in Seq(Letter)
      BY DEF RailTypes
    <3>2. mail[t][n] \in Letter
      BY <3>1
    <3> QED
      BY <3>2 DEF Letter
  <2> QED
    BY <2>1, <2>2 DEF Letters, SendCore
<1> QED
  BY <1>5, <1>6, <1>7 DEF SendCore, Fates

\* The same of a send that is dropped.
LEMMA DropKeeps ==
    ASSUME RailTypes, SendCore, NEW i \in Intents, intent[i].st # "unborn",
           intent' = [intent EXCEPT ![i].st = "dropped"], UNCHANGED <<mail, blocked>>,
           \A u \in Threads : call'[u] = call[u] \/ call'[u] = NoCall,
           i \notin Stored,
           \/ intent[i].on \in blocked
           \/ intent[i].age = 0 /\ \A u \in Threads : call'[u].of # i,
           \A u \in Threads : ~ (/\ call'[u] = call[u] /\ call[u].of = i
                                 /\ call[u].at \in {"reserved", "trying"} /\ call[u].tries = 0)
    PROVE  SendCore'
<1> DEFINE s == "dropped"
<1>1. s \in States /\ s # "unborn" /\ s # "committed"
  BY DEF States
<1>2. intent' = [intent EXCEPT ![i].st = s]
  OBVIOUS
<1>3. s = "committed" => i \in Stored
  BY <1>1
<1>4. s = "dropped" => /\ i \notin Stored
                       /\ \/ intent[i].on \in blocked
                          \/ intent[i].age = 0 /\ \A u \in Threads : call'[u].of # i
  OBVIOUS
<1>5. \A u \in Threads : call'[u] = call[u] /\ call[u].of = i
                         /\ call[u].at \in {"reserved", "trying"} /\ call[u].tries = 0
                           => s \in {"pending", "unverified"}
  OBVIOUS
<1> HIDE DEF s
<1> QED
  BY <1>1, <1>2, <1>3, <1>4, <1>5, StateSetKeeps

\* No row changes: mail lands, a buyer is blocked, calls move on.
LEMMA SameSendsKeep ==
    ASSUME RailTypes, SendCore, UNCHANGED intent, blocked \subseteq blocked',
           Stored \subseteq Stored',
           \A j \in Stored' : j \in Stored \/ intent[j].st \notin {"unborn", "dropped"},
           \A u \in Threads : \A n \in DOMAIN mail'[u] :
             mail'[u][n].of # None => intent[mail'[u][n].of].on = u,
           \A u \in Threads : CallOK(u)',
           \A u \in Threads : call'[u].of = call[u].of \/ call'[u].of = None
    PROVE  SendCore'
<1>1. Calls'
  BY DEF Calls, SendCore
<1>2. ASSUME NEW j \in Intents PROVE FateOK(j)'
  <2>1. FateOK(j)
    BY DEF SendCore, Fates
  <2>2. j # None
    BY MailAssumption DEF None
  <2> QED
    BY <2>1, <2>2 DEF FateOK
<1>3. Letters'
  BY DEF Letters
<1> QED
  BY <1>1, <1>2, <1>3 DEF SendCore, Fates

\* A call whose send and row stay as they are.
LEMMA CallStays ==
    ASSUME Calls, NEW u \in Threads, call'[u] = call[u],
           call[u].of \in Intents => intent'[call[u].of] = intent[call[u].of],
           Stored \subseteq Stored',
           call[u].at \in {"reserved", "trying"} /\ call[u].tries = 0 => call[u].of \notin Stored'
    PROVE  CallOK(u)'
<1>1. CallOK(u)
  BY DEF Calls
<1> QED
  BY <1>1 DEF CallOK

\* Every letter of ours that lies anywhere after one has landed.
LEMMA LettersLand ==
    ASSUME RailTypes, Letters, NEW t \in Threads,
           NEW by \in {"buyer", "auto", "seller", "agent"},
           NEW i \in Intents \cup {None}, Lands(t, by, i), i # None => intent[i].on = t
    PROVE  \A u \in Threads : \A n \in DOMAIN mail'[u] :
             mail'[u][n].of # None => intent[mail'[u][n].of].on = u
<1>1. /\ \A u \in Threads : /\ DOMAIN mail[u] = 1..Len(mail[u]) /\ Len(mail[u]) \in Nat
                            /\ \A n \in DOMAIN mail[u] : mail'[u][n] = mail[u][n]
                            /\ u # t => mail'[u] = mail[u]
      /\ DOMAIN mail'[t] = 1..(Len(mail[t]) + 1)
      /\ mail'[t][Len(mail[t]) + 1] = [by |-> by, of |-> i]
  BY LandsIs
<1> SUFFICES ASSUME NEW u \in Threads, NEW n \in DOMAIN mail'[u], mail'[u][n].of # None
             PROVE  intent[mail'[u][n].of].on = u
  OBVIOUS
<1>2. CASE n \in DOMAIN mail[u]
  BY <1>1, <1>2 DEF Letters
<1>3. CASE n \notin DOMAIN mail[u]
  <2>1. u = t
    BY <1>1, <1>3
  <2>2. n = Len(mail[t]) + 1
    BY <1>1, <1>3, <2>1
  <2>3. mail'[u][n].of = i
    BY <1>1, <2>1, <2>2
  <2> QED
    BY <2>1, <2>3
<1> QED
  BY <1>2, <1>3

LEMMA LaneSendsStep ==
    ASSUME RailTypes, SendInv, LaneStep
    PROVE  SendCore'
<1> USE DEF fixed, bazaar, threads, sends, marks
<1>1. SendCore /\ Calls /\ Fates /\ Letters
  BY DEF SendInv, SendCore
<1>2. CASE UNCHANGED <<intent, call, mail, blocked>>
  BY <1>1, <1>2 DEF SendCore, Calls, CallOK, Fates, FateOK, Letters, Stored
<1>3. CASE RecordMessage
  <2> DEFINE t == Here
             n == lane.n + 1
             i == mail[t][n].of
  <2>1. t \in Threads /\ n \in DOMAIN mail[t] /\ i \in Intents \cup {None}
    BY <1>3, NextLetter DEF SendInv, Letter
  <2>2. CASE i # None /\ intent[i].st \in Unsettled
    <3>1. intent' = [intent EXCEPT ![i].st = "committed"] /\ UNCHANGED <<call, mail, blocked>>
      BY <1>3, <2>2 DEF RecordMessage, Commits
    <3>2. i \in Stored /\ i \in Intents
      BY <2>1, <2>2 DEF Stored
    <3>3. "committed" \in States /\ "committed" # "unborn" /\ intent[i].st # "unborn"
      BY <2>2 DEF States, Unsettled
    <3>4. \A u \in Threads : call[u].of = i /\ call[u].at \in {"reserved", "trying"}
                               => call[u].tries # 0
      BY <1>1, <3>2 DEF Calls, CallOK
    <3> HIDE DEF i, n, t
    <3> QED
      BY <1>1, <3>1, <3>2, <3>3, <3>4, StateSetKeeps
  <2>3. CASE ~(i # None /\ intent[i].st \in Unsettled)
    BY <1>2, <1>3, <2>3 DEF RecordMessage
  <2> QED
    BY <2>2, <2>3
<1>4. CASE RetryTaken
  <2> DEFINE i == Retrying
  <2>1. lane.page # <<>> /\ Here \in Threads /\ i \in Intents /\ intent[i].age >= 1
        /\ intent[i].on = Here
    BY <1>4, PageTypes DEF RetryTaken, SendInv, Retries, Retrying, Here
  <2>2. BazaarTakes(Here, i) /\ UNCHANGED <<intent, call>>
    BY <1>4 DEF RetryTaken
  <2> HIDE DEF i
  <2>3. /\ Stored' = Stored \cup {i} /\ i \in Stored'
        /\ \/ i \in Stored /\ UNCHANGED <<mail, changes, blocked>>
           \/ i \notin Stored /\ Here \notin blocked /\ Lands(Here, "agent", i)
    BY <2>1, <2>2, TakesIs
  <2>4. intent[i].age # 0
    BY <2>1
  <2>5. CASE i \in Stored
    <3>1. UNCHANGED <<mail, blocked>>
      BY <2>3, <2>5
    <3> QED
      BY <1>2, <2>2, <3>1
  <2>6. CASE i \notin Stored
    <3>1. Lands(Here, "agent", i) /\ Here \notin blocked /\ UNCHANGED blocked
      BY <2>3, <2>6 DEF Lands
    <3>2. intent[i].st \notin {"unborn", "dropped"}
      BY <1>1, <2>1, <2>4, <3>1 DEF Fates, FateOK
    <3>3. \A u \in Threads : \A n \in DOMAIN mail'[u] :
            mail'[u][n].of # None => intent[mail'[u][n].of].on = u
      BY <1>1, <2>1, <3>1, LettersLand
    <3>4. ASSUME NEW u \in Threads PROVE CallOK(u)'
      <4>1. call[u].at \in {"reserved", "trying"} /\ call[u].tries = 0 => call[u].of \notin Stored'
        BY <1>1, <2>3, <2>4 DEF Calls, CallOK
      <4> QED
        BY <1>1, <2>2, <2>3, <4>1, CallStays
    <3> QED
      BY <1>1, <2>2, <2>3, <3>1, <3>2, <3>3, <3>4, SameSendsKeep
  <2> QED
    BY <2>5, <2>6
<1>5. CASE RetrySettles
  <2> DEFINE i == Retrying
  <2>1. i \in Stored /\ i \in Intents
    BY <1>5 DEF RetrySettles, SendInv, Retries, Stored
  <2>2. CASE intent[i].st \in Unsettled
    <3>1. intent' = [intent EXCEPT ![i].st = "committed"] /\ UNCHANGED <<call, mail, blocked>>
      BY <1>5, <2>2 DEF RetrySettles, Commits
    <3>2. "committed" \in States /\ "committed" # "unborn" /\ intent[i].st # "unborn"
      BY <2>2 DEF States, Unsettled
    <3>3. \A u \in Threads : call[u].of = i /\ call[u].at \in {"reserved", "trying"}
                               => call[u].tries # 0
      BY <1>1, <2>1 DEF Calls, CallOK
    <3> HIDE DEF i
    <3> QED
      BY <1>1, <2>1, <3>1, <3>2, <3>3, StateSetKeeps
  <2>3. CASE intent[i].st \notin Unsettled
    BY <1>2, <1>5, <2>3 DEF RetrySettles
  <2> QED
    BY <2>2, <2>3
<1>6. CASE RetryRefused
  <2> DEFINE i == Retrying
  <2>1. i \in Intents /\ intent[i].age >= 1 /\ intent[i].on = Here /\ Here \in blocked
        /\ i \notin Stored
    BY <1>6, PageTypes DEF RetryRefused, SendInv, Retries, Retrying, Here
  <2>2. CASE intent[i].st \in {"pending", "unverified"}
    <3>1. intent' = [intent EXCEPT ![i].st = "dropped"] /\ UNCHANGED <<call, mail, blocked>>
      BY <1>6, <2>2 DEF RetryRefused, Drop
    <3>2. "dropped" \in States /\ "dropped" # "unborn" /\ intent[i].st # "unborn"
      BY <2>2 DEF States
    <3> HIDE DEF i
    <3>3. intent[i].age # 0
      BY <2>1
    <3>4. \A u \in Threads : call[u].of = i /\ call[u].at \in {"reserved", "trying"}
                               => call[u].tries # 0
      BY <1>1, <3>3 DEF Calls, CallOK
    <3>5. /\ i \notin Stored /\ intent[i].on \in blocked
          /\ \A u \in Threads : call'[u] = call[u] \/ call'[u] = NoCall
      BY <2>1, <3>1
    <3>6. \A u \in Threads : ~ (/\ call'[u] = call[u] /\ call[u].of = i
                                /\ call[u].at \in {"reserved", "trying"} /\ call[u].tries = 0)
      BY <3>4
    <3> QED
      BY <1>1, <2>1, <3>1, <3>2, <3>5, <3>6, DropKeeps
  <2>3. CASE intent[i].st \notin {"pending", "unverified"}
    BY <1>2, <1>6, <2>3 DEF RetryRefused
  <2> QED
    BY <2>2, <2>3
<1> QED
  BY <1>2, <1>3, <1>4, <1>5, <1>6 DEF LaneStep, ListPage, LeaveUnplaced, GetThread, GetThreadFails,
     FinishThread, AppendMail, SkipMail, MarkSeen, SetCursor, ToSends, Nudges, LaneFails

LEMMA LettersOf ==
    ASSUME RailTypes
    PROVE  \A u \in Threads : \A n \in DOMAIN mail[u] : mail[u][n].of \in Intents \cup {None}
<1> SUFFICES ASSUME NEW u \in Threads, NEW n \in DOMAIN mail[u]
             PROVE  mail[u][n].of \in Intents \cup {None}
  OBVIOUS
<1>1. mail[u] \in Seq(Letter)
  BY DEF RailTypes
<1>2. mail[u][n] \in Letter
  BY <1>1
<1> QED
  BY <1>2 DEF Letter

\* A call that ends and changes nothing else.
LEMMA CallEnds ==
    ASSUME RailTypes, SendCore, NEW t \in Threads, call' = [call EXCEPT ![t] = NoCall],
           UNCHANGED <<intent, mail, blocked>>
    PROVE  SendCore'
<1>1. Stored' = Stored
  BY DEF Stored
<1>2. call'[t] = NoCall /\ \A u \in Threads : u # t => call'[u] = call[u]
  BY DEF RailTypes
<1>3. ASSUME NEW u \in Threads PROVE CallOK(u)'
  <2>1. CASE u = t
    BY <1>2, <2>1, NoCallIs DEF CallOK
  <2>2. CASE u # t
    BY <1>1, <1>2, <2>2 DEF SendCore, Calls, CallOK
  <2> QED
    BY <2>1, <2>2
<1>4. \A u \in Threads : call'[u].of = call[u].of \/ call'[u].of = None
  BY <1>2, NoCallIs
<1>5. \A u \in Threads : \A n \in DOMAIN mail'[u] :
        mail'[u][n].of # None => intent[mail'[u][n].of].on = u
  BY DEF SendCore, Letters
<1> QED
  BY <1>1, <1>3, <1>4, <1>5, SameSendsKeep

LEMMA CallSendsStep ==
    ASSUME RailTypes, SendInv, NEW t \in Threads, SendStep(t) \/ Claims(t)
    PROVE  SendCore'
<1> USE DEF fixed, bazaar, threads, marks
<1>1. SendCore /\ Calls /\ Fates /\ Letters /\ CallOK(t)
  BY DEF SendInv, SendCore, Calls
<1>2. intent \in [Intents -> Row] /\ call \in [Threads -> CallRow] /\ None \notin Intents
  BY MailAssumption DEF RailTypes, None
<1> DEFINE i == call[t].of
<1>3. CASE Claims(t)
  <2> DEFINE new == CHOOSE j \in Fresh : TRUE
  <2>1. new \in Intents /\ intent[new].st = "unborn" /\ \A u \in Threads : call[u].of # new
    BY <1>3 DEF Claims, Fresh
  <2>2. /\ call' = [call EXCEPT ![t] = [at |-> "composing", of |-> new, tries |-> 0]]
        /\ intent' = [intent EXCEPT ![new].pin = Max(Inbound(t))]
        /\ UNCHANGED <<mail, blocked>>
    BY <1>3 DEF Claims
  <2> HIDE DEF new, i
  <2>3. /\ \A j \in Intents : /\ intent'[j].st = intent[j].st /\ intent'[j].on = intent[j].on
                              /\ intent'[j].age = intent[j].age
    BY <1>2, <2>1, <2>2 DEF Row
  <2>4. /\ call'[t].at = "composing" /\ call'[t].of = new /\ call'[t].tries = 0
        /\ \A u \in Threads : u # t => call'[u] = call[u]
    BY <1>2, <2>2
  <2>5. Stored' = Stored
    BY <2>2 DEF Stored
  <2>6. ASSUME NEW u \in Threads PROVE CallOK(u)'
    <3>1. CallOK(u)
      BY <1>1 DEF Calls
    <3>2. CASE u = t
      BY <2>1, <2>3, <2>4, <3>2 DEF CallOK
    <3>3. CASE u # t
      BY <2>3, <2>4, <2>5, <3>1, <3>3 DEF CallOK
    <3> QED
      BY <3>2, <3>3
  <2>7. Calls'
    BY <1>1, <2>1, <2>4, <2>6 DEF Calls
  <2>8. Fates'
    <3> SUFFICES ASSUME NEW j \in Intents PROVE FateOK(j)'
      BY DEF Fates
    <3>1. FateOK(j)
      BY <1>1 DEF Fates
    <3>2. j # new \/ intent[j].st = "unborn"
      BY <2>1
    <3> QED
      BY <2>2, <2>3, <2>4, <2>5, <3>1, <3>2 DEF FateOK
  <2>9. Letters'
    <3>1. \A u \in Threads : \A n \in DOMAIN mail[u] : mail[u][n].of \in Intents \cup {None}
      <4> SUFFICES ASSUME NEW u \in Threads, NEW n \in DOMAIN mail[u]
                   PROVE  mail[u][n].of \in Intents \cup {None}
        OBVIOUS
      <4>1. mail[u] \in Seq(Letter)
        BY DEF RailTypes
      <4>2. mail[u][n] \in Letter
        BY <4>1
      <4> QED
        BY <4>2 DEF Letter
    <3> QED
      BY <1>1, <2>2, <2>3, <3>1 DEF Letters
  <2> QED
    BY <2>7, <2>8, <2>9 DEF SendCore
<1>4. CASE ReserveReply(t)
  <2>1. call[t].at = "composing" /\ i \in Intents /\ intent[i].st = "unborn"
        /\ UNCHANGED <<mail, blocked>>
    BY <1>1, <1>4 DEF ReserveReply, CallOK
  <2>2. CASE stat[t] = "active" /\ ~InDoubt(t)
    <3>1. call' = [call EXCEPT ![t] = [call[t] EXCEPT !.at = "reserved"]]
          /\ intent' = [intent EXCEPT ![i] = [intent[i] EXCEPT !.st = "pending", !.on = t]]
      BY <1>2, <1>4, <2>1, <2>2 DEF ReserveReply
    <3>2. /\ intent'[i].st = "pending" /\ intent'[i].on = t /\ intent'[i].age = intent[i].age
          /\ \A j \in Intents : j # i => intent'[j] = intent[j]
      BY <1>2, <2>1, <3>1 DEF Row
    <3>3. /\ call'[t].at = "reserved" /\ call'[t].of = i /\ call'[t].tries = call[t].tries
          /\ \A u \in Threads : u # t => call'[u] = call[u]
      BY <1>2, <3>1 DEF CallRow
    <3>4. Stored' = Stored /\ i \notin Stored /\ intent[i].age = 0 /\ intent[i].on = None
      BY <1>1, <2>1 DEF Stored, Fates, FateOK
    <3>5. \A u \in Threads : u # t => call[u].of # i
      BY <1>1, <1>2, <2>1 DEF Calls
    <3>6. call[t].tries = 0
      BY <1>1, <2>1 DEF CallOK
    <3> HIDE DEF i
    <3>7. ASSUME NEW u \in Threads PROVE CallOK(u)'
      <4>1. CASE u = t
        BY <2>1, <3>2, <3>3, <3>4, <3>6, <4>1 DEF CallOK
      <4>2. CASE u # t
        <5>1. call'[u] = call[u] /\ call[u].of # i /\ CallOK(u)
          BY <1>1, <3>3, <3>5, <4>2 DEF Calls
        <5>2. call[u].of \in Intents => intent'[call[u].of] = intent[call[u].of]
          BY <3>2, <5>1
        <5> QED
          BY <3>4, <5>1, <5>2 DEF CallOK
      <4> QED
        BY <4>1, <4>2
    <3>8. Calls'
      <4>1. \A u \in Threads : call'[u].of = call[u].of
        BY <3>3 DEF i
      <4> QED
        BY <1>1, <3>7, <4>1 DEF Calls
    <3>9. Fates'
      <4> SUFFICES ASSUME NEW j \in Intents PROVE FateOK(j)'
        BY DEF Fates
      <4>1. FateOK(j)
        BY <1>1 DEF Fates
      <4>2. CASE j = i
        BY <3>2, <4>2 DEF FateOK
      <4>3. CASE j # i
        <5>1. intent'[j] = intent[j]
          BY <3>2, <4>3
        <5>2. \A u \in Threads : call'[u].of = call[u].of
          BY <3>3 DEF i
        <5> QED
          BY <2>1, <3>4, <4>1, <5>1, <5>2 DEF FateOK
      <4> QED
        BY <4>2, <4>3
    <3>10. Letters'
      <4>1. \A u \in Threads : \A n \in DOMAIN mail[u] :
              mail[u][n].of # None => mail[u][n].of \in Intents /\ mail[u][n].of # i
        <5> SUFFICES ASSUME NEW u \in Threads, NEW n \in DOMAIN mail[u], mail[u][n].of # None
                     PROVE  mail[u][n].of \in Intents /\ mail[u][n].of # i
          OBVIOUS
        <5>1. mail[u] \in Seq(Letter)
          BY DEF RailTypes
        <5>2. mail[u][n] \in Letter
          BY <5>1
        <5>3. mail[u][n].of \in Stored
          BY <5>2 DEF Letter, Stored
        <5> QED
          BY <3>4, <5>3 DEF Stored
      <4> QED
        BY <1>1, <2>1, <3>2, <4>1 DEF Letters
    <3> QED
      BY <3>8, <3>9, <3>10 DEF SendCore
  <2>3. CASE ~(stat[t] = "active" /\ ~InDoubt(t))
    <3>1. call' = [call EXCEPT ![t] = NoCall] /\ UNCHANGED intent
      BY <1>4, <2>3 DEF ReserveReply
    <3> QED
      BY <1>1, <2>1, <3>1, CallEnds
  <2> QED
    BY <2>2, <2>3
<1>5. CASE MarkUnverified(t)
  <2> DEFINE s == IF intent[i].st = "pending" THEN "unverified" ELSE intent[i].st
  <2>1. /\ call[t].at = "reserved" /\ i \in Intents /\ call[t].tries = 0
        /\ call' = [call EXCEPT ![t] = [call[t] EXCEPT !.at = "trying"]]
        /\ intent' = [intent EXCEPT ![i].st = s] /\ UNCHANGED <<mail, blocked>>
    BY <1>1, <1>2, <1>5 DEF MarkUnverified, CallOK
  <2>2. intent[i].st \in {"pending", "unverified"} /\ s = "unverified" /\ "unverified" \in States
        /\ intent[i].age = 0 /\ i \notin Stored /\ intent[i].on = t
    BY <1>1, <2>1 DEF CallOK, States
  <2> HIDE DEF s, i
  <2>3. /\ intent'[i].st = "unverified" /\ intent'[i].on = intent[i].on
        /\ intent'[i].age = intent[i].age
        /\ \A j \in Intents : j # i => intent'[j] = intent[j]
    BY <2>1, <2>2, StateSet
  <2>4. /\ call'[t].at = "trying" /\ call'[t].of = i /\ call'[t].tries = 0
        /\ \A u \in Threads : u # t => call'[u] = call[u]
    BY <1>2, <2>1 DEF CallRow, i
  <2>5. Stored' = Stored
    BY <2>1 DEF Stored
  <2>6. ASSUME NEW u \in Threads PROVE CallOK(u)'
    <3>1. CASE u = t
      BY <2>1, <2>2, <2>3, <2>4, <2>5, <3>1 DEF CallOK
    <3>2. CASE u # t
      <4>1. call'[u] = call[u] /\ CallOK(u) /\ (call[u].of # i \/ call[u].of = None)
        BY <1>1, <2>4, <3>2 DEF Calls, i
      <4>2. call[u].of \in Intents => intent'[call[u].of] = intent[call[u].of]
        BY <1>2, <2>3, <4>1
      <4> QED
        BY <2>5, <4>1, <4>2 DEF CallOK
    <3> QED
      BY <3>1, <3>2
  <2>7. \A u \in Threads : call'[u].of = call[u].of
    BY <2>4 DEF i
  <2>8. Calls'
    BY <1>1, <2>6, <2>7 DEF Calls
  <2>9. Fates'
    <3> SUFFICES ASSUME NEW j \in Intents PROVE FateOK(j)'
      BY DEF Fates
    <3>1. FateOK(j)
      BY <1>1 DEF Fates
    <3>2. CASE j = i
      BY <2>2, <2>3, <3>2 DEF FateOK
    <3>3. CASE j # i
      <4>1. intent'[j] = intent[j]
        BY <2>3, <3>3
      <4>2. blocked' = blocked
        BY <2>1
      <4> QED
        BY <2>5, <2>7, <3>1, <4>1, <4>2 DEF FateOK
    <3> QED
      BY <3>2, <3>3
  <2>10. Letters'
    <3>1. \A j \in Intents : intent'[j].on = intent[j].on
      BY <2>3
    <3>2. \A u \in Threads : \A n \in DOMAIN mail[u] : mail[u][n].of \in Intents \cup {None}
      BY LettersOf
    <3> QED
      BY <1>1, <2>1, <3>1, <3>2 DEF Letters
  <2> QED
    BY <2>8, <2>9, <2>10 DEF SendCore
<1>6. CASE AttemptSent(t) \/ AttemptLost(t)
  <2>1. /\ call[t].at = "trying" /\ i \in Intents /\ UNCHANGED intent /\ intent[i].on = t
        /\ intent[i].st # "unborn"
    BY <1>1, <1>6 DEF AttemptSent, AttemptLost, CallOK
  <2> DEFINE r == IF AttemptSent(t) THEN [call[t] EXCEPT !.at = "sent"] ELSE Tried(t)
  <2>2. \/ /\ BazaarTakes(t, i)
           /\ call' = [call EXCEPT ![t] = [call[t] EXCEPT !.at = "sent"]]
        \/ /\ BazaarTakes(t, i) \/ UNCHANGED bazaar
           /\ call' = [call EXCEPT ![t] = Tried(t)]
    BY <1>6 DEF AttemptSent, AttemptLost
  <2>3. /\ \/ call'[t].at = "sent" /\ call'[t].of = i /\ BazaarTakes(t, i)
           \/ call'[t] = NoCall
           \/ call'[t].at = "trying" /\ call'[t].of = i /\ call'[t].tries = call[t].tries + 1
        /\ \A u \in Threads : u # t => call'[u] = call[u]
    <3>1. call'[t] = [call[t] EXCEPT !.at = "sent"] \/ call'[t] = Tried(t)
      BY <1>2, <2>2
    <3>2. \A u \in Threads : u # t => call'[u] = call[u]
      BY <1>2, <2>2
    <3>3. CASE BazaarTakes(t, i) /\ call'[t] = [call[t] EXCEPT !.at = "sent"]
      BY <3>2, <3>3, CallRows
    <3>4. CASE call'[t] = Tried(t)
      <4>1. CASE Tried(t) = NoCall
        BY <3>2, <3>4, <4>1
      <4>2. CASE Tried(t) # NoCall
        <5>1. Tried(t).at = call[t].at /\ Tried(t).of = call[t].of
              /\ Tried(t).tries = call[t].tries + 1
          BY <4>2, CallRows
        <5> QED
          BY <2>1, <3>2, <3>4, <5>1
      <4> QED
        BY <4>1, <4>2
    <3> QED
      BY <1>2, <2>2, <3>3, <3>4
  <2>4. call[t].tries \in Nat
    BY <1>2 DEF CallRow, Numbers
  <2>5. \/ BazaarTakes(t, i) /\ i \in Stored' /\ Stored' = Stored \cup {i}
        \/ UNCHANGED bazaar /\ Stored' = Stored
    BY <2>1, <2>2, TakesIs DEF Stored
  <2>6. i \in Stored \/ intent[i].st # "dropped" \/ Stored' = Stored
    <3>1. ASSUME i \notin Stored, intent[i].st = "dropped", BazaarTakes(t, i)
          PROVE  FALSE
      <4>1. t \notin blocked
        BY <3>1 DEF BazaarTakes
      <4>2. intent[i].on \in blocked \/ \A u \in Threads : call[u].of # i
        BY <1>1, <2>1, <3>1 DEF Fates, FateOK
      <4> QED
        BY <2>1, <4>1, <4>2
    <3> QED
      BY <2>5, <3>1
  <2>7. ASSUME NEW u \in Threads PROVE CallOK(u)'
    <3>1. CASE u = t
      <4>1. CASE call'[t] = NoCall
        BY <3>1, <4>1, NoCallIs DEF CallOK
      <4>2. CASE call'[t].at = "sent" /\ call'[t].of = i /\ BazaarTakes(t, i)
        <5>1. i \in Stored'
          BY <2>1, <4>2, TakesIs
        <5> QED
          BY <2>1, <3>1, <4>2, <5>1 DEF CallOK
      <4>3. CASE call'[t].at = "trying" /\ call'[t].of = i /\ call'[t].tries = call[t].tries + 1
        <5>1. call'[t].tries # 0
          BY <2>4, <4>3
        <5> QED
          BY <2>1, <3>1, <4>3, <5>1 DEF CallOK
      <4> QED
        BY <2>3, <4>1, <4>2, <4>3
    <3>2. CASE u # t
      <4>1. call'[u] = call[u] /\ (call[u].of # i \/ call[u].of = None)
        BY <1>1, <2>3, <3>2 DEF Calls
      <4>2. call[u].at \in {"reserved", "trying"} /\ call[u].tries = 0 => call[u].of \notin Stored'
        BY <1>1, <1>2, <2>1, <2>5, <4>1 DEF Calls, CallOK
      <4>3. Stored \subseteq Stored'
        BY <2>5
      <4> QED
        BY <1>1, <2>1, <4>1, <4>2, <4>3, CallStays
    <3> QED
      BY <3>1, <3>2
  <2>8. \A u \in Threads : call'[u].of = call[u].of \/ call'[u].of = None
    BY <2>3, NoCallIs
  <2>9. \A u \in Threads : \A n \in DOMAIN mail'[u] :
          mail'[u][n].of # None => intent[mail'[u][n].of].on = u
    <3>1. CASE UNCHANGED bazaar
      BY <1>1, <3>1 DEF Letters
    <3>2. CASE Lands(t, "agent", i)
      BY <1>1, <2>1, <3>2, LettersLand
    <3> QED
      BY <2>1, <2>5, <3>1, <3>2, TakesIs
  <2>10. blocked' = blocked
    BY <2>1, <2>5, TakesIs, LandsIs
  <2>11. \A j \in Stored' : j \in Stored \/ intent[j].st \notin {"unborn", "dropped"}
    BY <2>1, <2>5, <2>6
  <2>12. Stored \subseteq Stored'
    BY <2>5
  <2> HIDE DEF i
  <2> QED
    BY <1>1, <2>1, <2>7, <2>8, <2>9, <2>10, <2>11, <2>12, SameSendsKeep
<1>7. CASE AttemptRefused(t)
  <2>1. /\ call[t].at = "trying" /\ i \in Intents /\ intent[i].st # "unborn"
        /\ call' = [call EXCEPT ![t] = NoCall] /\ UNCHANGED <<mail, blocked>>
    BY <1>1, <1>7 DEF AttemptRefused, CallOK
  <2>2. CASE call[t].tries = 0
    <3>1. intent' = [intent EXCEPT ![i].st = "dropped"] /\ i \notin Stored /\ intent[i].age = 0
      BY <1>1, <1>7, <2>1, <2>2 DEF AttemptRefused, Drop, CallOK
    <3>2. call'[t] = NoCall /\ \A u \in Threads : u # t => call'[u] = call[u]
      BY <1>2, <2>1
    <3>3. \A u \in Threads : call'[u].of # i
      BY <1>1, <1>2, <2>1, <3>2, NoCallIs DEF Calls
    <3>4. "dropped" \in States
      BY DEF States
    <3> HIDE DEF i
    <3>5. \A u \in Threads : call'[u] = call[u] \/ call'[u] = NoCall
      BY <3>2
    <3>6. \A u \in Threads : ~ (/\ call'[u] = call[u] /\ call[u].of = i
                                /\ call[u].at \in {"reserved", "trying"} /\ call[u].tries = 0)
      BY <3>3
    <3> QED
      BY <1>1, <2>1, <3>1, <3>3, <3>5, <3>6, DropKeeps
  <2>3. CASE call[t].tries # 0
    <3>1. UNCHANGED intent
      BY <1>7, <2>3 DEF AttemptRefused
    <3> QED
      BY <1>1, <2>1, <3>1, CallEnds
  <2> QED
    BY <2>2, <2>3
<1>8. CASE CommitReply(t)
  <2>1. /\ call[t].at = "sent" /\ i \in Intents /\ i \in Stored /\ intent[i].st # "unborn"
        /\ intent' = [intent EXCEPT ![i].st = "committed"]
        /\ call' = [call EXCEPT ![t] = NoCall] /\ UNCHANGED <<mail, blocked>>
    BY <1>1, <1>8 DEF CommitReply, Commits, CallOK
  <2>2. \A u \in Threads : call'[u] = call[u] \/ call'[u] = NoCall
    BY <1>2, <2>1
  <2>3. "committed" \in States
    BY DEF States
  <2> HIDE DEF i
  <2>4. \A u \in Threads : call'[u] = call[u] /\ call[u].of = i
                            /\ call[u].at \in {"reserved", "trying"} /\ call[u].tries = 0
                              => "committed" \in {"pending", "unverified"}
    BY <1>1, <2>1 DEF Calls, CallOK
  <2> QED
    BY <1>1, <2>1, <2>2, <2>3, <2>4, StateSetKeeps
<1> QED
  BY <1>3, <1>4, <1>5, <1>6, <1>7, <1>8 DEF SendStep

LEMMA WorldSendsStep ==
    ASSUME RailTypes, SendInv,
           \/ Rings \/ Dies \/ UNCHANGED vars
           \/ \E t \in Threads :
                \/ \E by \in {"buyer", "auto", "seller"} : Writes(t, by)
                \/ Blocks(t) \/ Links(t) \/ NudgeDelivered(t)
                \/ Escalates(t) \/ SellerAnswers(t)
           \/ \E i \in Intents : Ages(i) \/ Sweep(i)
    PROVE  SendCore'
<1> USE DEF fixed, bazaar, threads, sends, marks
<1>1. SendCore /\ Calls /\ Fates /\ Letters
  BY DEF SendInv, SendCore
<1>2. CASE UNCHANGED <<intent, call, mail, blocked>>
  BY <1>1, <1>2 DEF SendCore, Calls, CallOK, Fates, FateOK, Letters, Stored
<1>3. CASE Dies
  <2>1. /\ UNCHANGED <<intent, mail, blocked>> /\ \A u \in Threads : call'[u] = NoCall
    BY <1>3 DEF Dies
  <2>2. Stored' = Stored
    BY <2>1 DEF Stored
  <2>3. \A u \in Threads : CallOK(u)'
    BY <2>1, NoCallIs DEF CallOK
  <2>4. \A u \in Threads : call'[u].of = call[u].of \/ call'[u].of = None
    BY <2>1, NoCallIs
  <2>5. \A u \in Threads : \A n \in DOMAIN mail'[u] :
          mail'[u][n].of # None => intent[mail'[u][n].of].on = u
    BY <1>1, <2>1 DEF Letters
  <2> QED
    BY <1>1, <2>1, <2>2, <2>3, <2>4, <2>5, SameSendsKeep
<1>4. ASSUME NEW t \in Threads, NEW by \in {"buyer", "auto", "seller"}, Writes(t, by)
      PROVE  SendCore'
  <2>1. Lands(t, by, None) /\ UNCHANGED <<intent, call>> /\ UNCHANGED blocked
    BY <1>4 DEF Writes, Lands
  <2>2. Stored' = Stored
    BY <2>1, WritesStores
  <2>3. \A u \in Threads : \A n \in DOMAIN mail'[u] :
          mail'[u][n].of # None => intent[mail'[u][n].of].on = u
    BY <1>1, <2>1, LettersLand
  <2>4. ASSUME NEW u \in Threads PROVE CallOK(u)'
    <3>1. call[u].at \in {"reserved", "trying"} /\ call[u].tries = 0 => call[u].of \notin Stored'
      BY <1>1, <2>2 DEF Calls, CallOK
    <3> QED
      BY <1>1, <2>1, <2>2, <3>1, CallStays
  <2> QED
    BY <1>1, <2>1, <2>2, <2>3, <2>4, SameSendsKeep
<1>5. ASSUME NEW t \in Threads, Blocks(t)
      PROVE  SendCore'
  <2>1. UNCHANGED <<intent, call, mail>> /\ blocked \subseteq blocked'
    BY <1>5 DEF Blocks
  <2>2. Stored' = Stored
    BY <2>1 DEF Stored
  <2>3. \A u \in Threads : CallOK(u)'
    BY <1>1, <2>1, <2>2 DEF Calls, CallOK
  <2>4. \A u \in Threads : \A n \in DOMAIN mail'[u] :
          mail'[u][n].of # None => intent[mail'[u][n].of].on = u
    BY <1>1, <2>1 DEF Letters
  <2> QED
    BY <1>1, <2>1, <2>2, <2>3, <2>4, SameSendsKeep
<1>6. ASSUME NEW i \in Intents, Ages(i)
      PROVE  SendCore'
  <2>1. /\ intent[i].st \in {"pending", "unverified"}
        /\ \A u \in Threads : call[u].of = i => call[u].tries > 0 \/ call[u].at = "sent"
        /\ intent' = [intent EXCEPT ![i] = [intent[i] EXCEPT !.age = intent[i].age + 1]]
        /\ UNCHANGED <<call, mail, blocked>>
    BY <1>6 DEF Ages
  <2>2. intent[i] \in Row /\ intent \in [Intents -> Row]
    BY DEF RailTypes
  <2>3. /\ intent'[i].st = intent[i].st /\ intent'[i].on = intent[i].on
        /\ \A j \in Intents : j # i => intent'[j] = intent[j]
    BY <2>1, <2>2 DEF Row
  <2>4. Stored' = Stored
    BY <2>1 DEF Stored
  <2>5. ASSUME NEW u \in Threads PROVE CallOK(u)'
    <3>1. CallOK(u)
      BY <1>1 DEF Calls
    <3>2. CASE call[u].of = i
      BY <2>1, <2>3, <2>4, <3>1, <3>2 DEF CallOK
    <3>3. CASE call[u].of # i
      <4>1. call[u].of \in Intents => intent'[call[u].of] = intent[call[u].of]
        BY <2>3, <3>3
      <4> QED
        BY <2>1, <2>4, <3>1, <4>1 DEF CallOK
    <3> QED
      BY <3>2, <3>3
  <2>6. Calls'
    BY <1>1, <2>1, <2>5 DEF Calls
  <2>7. Fates'
    <3> SUFFICES ASSUME NEW j \in Intents PROVE FateOK(j)'
      BY DEF Fates
    <3>1. FateOK(j)
      BY <1>1 DEF Fates
    <3>2. CASE j = i
      BY <2>1, <2>3, <2>4, <3>1, <3>2 DEF FateOK
    <3>3. CASE j # i
      <4>1. intent'[j] = intent[j] /\ blocked' = blocked /\ call' = call
        BY <2>1, <2>3, <3>3
      <4> QED
        BY <2>4, <3>1, <4>1 DEF FateOK
    <3> QED
      BY <3>2, <3>3
  <2>8. Letters'
    <3>1. \A j \in Intents : intent'[j].on = intent[j].on
      BY <2>3
    <3> QED
      BY <1>1, <2>1, <3>1, LettersOf DEF Letters
  <2> QED
    BY <2>6, <2>7, <2>8 DEF SendCore
<1>7. ASSUME NEW i \in Intents, Sweep(i)
      PROVE  SendCore'
  <2> DEFINE s == "unconfirmed"
  <2>1. /\ intent[i].st \in {"pending", "unverified"} /\ intent[i].age = 2
        /\ intent' = [intent EXCEPT ![i].st = s] /\ UNCHANGED <<call, mail, blocked>>
    BY <1>7 DEF Sweep
  <2>2. s \in States /\ s # "unborn" /\ s # "committed" /\ s # "dropped" /\ intent[i].st # "unborn"
    BY <2>1 DEF States
  <2> HIDE DEF s
  <2>3. \A u \in Threads : ~ (/\ call[u].of = i /\ call[u].at \in {"reserved", "trying"}
                              /\ call[u].tries = 0)
    BY <1>1, <2>1 DEF Calls, CallOK
  <2>4. \A u \in Threads : call'[u] = call[u] \/ call'[u] = NoCall
    BY <2>1
  <2>5. /\ s = "committed" => i \in Stored
        /\ s = "dropped" => /\ i \notin Stored
                            /\ \/ intent[i].on \in blocked
                               \/ intent[i].age = 0 /\ \A u \in Threads : call'[u].of # i
    BY <2>2
  <2>6. \A u \in Threads : call'[u] = call[u] /\ call[u].of = i
                            /\ call[u].at \in {"reserved", "trying"} /\ call[u].tries = 0
                              => s \in {"pending", "unverified"}
    BY <2>3
  <2> QED
    BY <1>1, <2>1, <2>2, <2>4, <2>5, <2>6, StateSetKeeps
<1>8. Rings => SendCore'
  BY <1>2 DEF Rings
<1>9. UNCHANGED vars => SendCore'
  BY <1>2 DEF vars
<1>10. \A t \in Threads : Links(t) \/ NudgeDelivered(t) \/ Escalates(t) \/ SellerAnswers(t) => SendCore'
  BY <1>2 DEF Links, NudgeDelivered, Escalates, SellerAnswers
<1> QED
  BY <1>3, <1>4, <1>5, <1>6, <1>7, <1>8, <1>9, <1>10

LEMMA SendCoreStep ==
    ASSUME RailTypes, SendInv, [Next]_vars
    PROVE  SendCore'
  BY LaneSendsStep, CallSendsStep, WorldSendsStep DEF Next

-----------------------------------------------------------------------------
(* What only grows: the rows of the sends, and what bazaar holds.          *)

RowsGrow ==
    \A i \in Intents : intent[i].st # "unborn" =>
      intent'[i].on = intent[i].on /\ intent'[i].age >= intent[i].age

LEMMA StateGrows ==
    ASSUME RailTypes, NEW i \in Intents, NEW s \in States, intent' = [intent EXCEPT ![i].st = s]
    PROVE  RowsGrow
<1>1. \A j \in Intents : intent'[j].on = intent[j].on /\ intent'[j].age = intent[j].age
  BY StateSet
<1>2. \A j \in Intents : intent[j].age \in Nat
  BY DEF RailTypes, Row, Numbers
<1> QED
  BY <1>1, <1>2 DEF RowsGrow

LEMMA RowsStep ==
    ASSUME RailTypes, SendInv, [Next]_vars
    PROVE  RowsGrow
<1>1. \A i \in Intents : intent[i].age \in Nat
  BY DEF RailTypes, Row, Numbers
<1>2. "committed" \in States /\ "dropped" \in States /\ "unconfirmed" \in States
      /\ "unverified" \in States
  BY DEF States
<1>3. CASE UNCHANGED intent
  BY <1>1, <1>3 DEF RowsGrow
<1>4. ASSUME NEW i \in Intents, NEW t, NEW id, NEW upTo, Commits(i, t, id, upTo)
      PROVE  RowsGrow
  BY <1>2, <1>4, StateGrows DEF Commits
<1>5. CASE LaneStep
  <2>1. CASE RecordMessage
    <3> DEFINE i == mail[Here][lane.n + 1].of
    <3>1. i \in Intents \cup {None}
      BY <2>1, NextLetter DEF SendInv, Letter
    <3>2. CASE i # None /\ intent[i].st \in Unsettled
      <4>1. Commits(i, Here, lane.n + 1, LastBuyer(Here, lane.n + 1))
        BY <2>1, <3>2 DEF RecordMessage
      <4>2. i \in Intents
        BY <3>1, <3>2
      <4> HIDE DEF i
      <4> QED
        BY <1>4, <4>1, <4>2
    <3>3. CASE ~(i # None /\ intent[i].st \in Unsettled)
      BY <1>3, <2>1, <3>3 DEF RecordMessage, sends
    <3> QED
      BY <3>2, <3>3
  <2>2. CASE RetrySettles
    <3>1. Retrying \in Intents
      BY <2>2, PageTypes DEF RetrySettles, SendInv, Retries, Retrying
    <3>2. CASE intent[Retrying].st \in Unsettled
      BY <1>4, <2>2, <3>1, <3>2 DEF RetrySettles
    <3>3. CASE intent[Retrying].st \notin Unsettled
      BY <1>3, <2>2, <3>3 DEF RetrySettles
    <3> QED
      BY <3>2, <3>3
  <2>3. CASE RetryRefused
    <3>1. Retrying \in Intents
      BY <2>3, PageTypes DEF RetryRefused, SendInv, Retries, Retrying
    <3> QED
      BY <1>2, <1>3, <2>3, <3>1, StateGrows DEF RetryRefused, Drop
  <2>4. CASE RetryTaken
    BY <1>3, <2>4 DEF RetryTaken, sends
  <2>5. CASE ListPage \/ LeaveUnplaced \/ GetThread \/ GetThreadFails \/ FinishThread
             \/ AppendMail \/ SkipMail \/ MarkSeen \/ SetCursor \/ ToSends \/ Nudges \/ LaneFails
    BY <1>3, <2>5 DEF ListPage, LeaveUnplaced, GetThread, GetThreadFails, FinishThread,
       AppendMail, SkipMail, MarkSeen, SetCursor, ToSends, Nudges, LaneFails, sends
  <2> QED
    BY <1>5, <2>1, <2>2, <2>3, <2>4, <2>5 DEF LaneStep
<1>6. ASSUME NEW t \in Threads, SendStep(t) \/ Claims(t)
      PROVE  RowsGrow
  <2> DEFINE i == call[t].of
  <2>0. intent \in [Intents -> Row] /\ CallOK(t)
    BY DEF RailTypes, SendInv, Calls
  <2>1. CASE Claims(t)
    <3> DEFINE new == CHOOSE j \in Fresh : TRUE
    <3>1. new \in Intents /\ intent' = [intent EXCEPT ![new].pin = Max(Inbound(t))]
      BY <2>1 DEF Claims, Fresh
    <3> HIDE DEF new
    <3>2. \A j \in Intents : intent'[j].on = intent[j].on /\ intent'[j].age = intent[j].age
      BY <2>0, <3>1 DEF Row
    <3> QED
      BY <1>1, <3>2 DEF RowsGrow
  <2>2. CASE ReserveReply(t)
    <3>1. i \in Intents /\ intent[i].st = "unborn"
      BY <2>0, <2>2 DEF ReserveReply, CallOK
    <3>2. \A j \in Intents : j # i => intent'[j] = intent[j]
      BY <2>0, <2>2, <3>1 DEF ReserveReply
    <3> HIDE DEF i
    <3> QED
      BY <1>1, <3>1, <3>2 DEF RowsGrow
  <2>3. CASE MarkUnverified(t)
    <3> DEFINE s == IF intent[i].st = "pending" THEN "unverified" ELSE intent[i].st
    <3>1. i \in Intents /\ s \in States /\ intent' = [intent EXCEPT ![i].st = s]
      BY <1>2, <2>0, <2>3 DEF MarkUnverified, CallOK, Row
    <3> HIDE DEF i, s
    <3> QED
      BY <3>1, StateGrows
  <2>4. CASE AttemptSent(t) \/ AttemptLost(t)
    BY <1>3, <2>4 DEF AttemptSent, AttemptLost
  <2>5. CASE AttemptRefused(t)
    <3>1. i \in Intents
      BY <2>0, <2>5 DEF AttemptRefused, CallOK
    <3> QED
      BY <1>2, <1>3, <2>5, <3>1, StateGrows DEF AttemptRefused, Drop
  <2>6. CASE CommitReply(t)
    <3>1. i \in Intents
      BY <2>0, <2>6 DEF CommitReply, CallOK
    <3> QED
      BY <1>4, <2>6, <3>1 DEF CommitReply
  <2> QED
    BY <1>6, <2>1, <2>2, <2>3, <2>4, <2>5, <2>6 DEF SendStep
<1>7. ASSUME NEW i \in Intents, Ages(i)
      PROVE  RowsGrow
  <2>1. intent' = [intent EXCEPT ![i] = [intent[i] EXCEPT !.age = intent[i].age + 1]]
        /\ intent \in [Intents -> Row]
    BY <1>7 DEF Ages, RailTypes
  <2>2. intent'[i].on = intent[i].on /\ intent'[i].age = intent[i].age + 1
        /\ \A j \in Intents : j # i => intent'[j] = intent[j]
    BY <2>1 DEF Row
  <2> QED
    BY <1>1, <2>2 DEF RowsGrow
<1>8. ASSUME NEW i \in Intents, Sweep(i)
      PROVE  RowsGrow
  BY <1>2, <1>8, StateGrows DEF Sweep
<1>9. CASE Rings \/ Dies \/ UNCHANGED vars
  BY <1>3, <1>9 DEF Rings, Dies, vars, sends
<1>10. ASSUME NEW t \in Threads,
              \/ \E by \in {"buyer", "auto", "seller"} : Writes(t, by)
              \/ Blocks(t) \/ Links(t) \/ NudgeDelivered(t) \/ Escalates(t) \/ SellerAnswers(t)
       PROVE  RowsGrow
  BY <1>3, <1>10 DEF Writes, Blocks, Links, NudgeDelivered, Escalates, SellerAnswers, sends
<1> QED
  BY <1>5, <1>6, <1>7, <1>8, <1>9, <1>10 DEF Next

\* What a step may do to bazaar.
BazaarMoves ==
    \/ UNCHANGED bazaar
    \/ \E t \in Threads : \E by \in {"buyer", "auto", "seller"} : Lands(t, by, None)
    \/ \E t \in Threads : \E i \in Intents : Lands(t, "agent", i)
    \/ \E t \in Threads : /\ Relay /\ mail[t] # <<>>
                          /\ blocked' = blocked \cup {t} /\ changes' = Append(changes, <<t, 0>>)
                          /\ UNCHANGED mail
    \/ ~Relay /\ blocked \subseteq blocked' /\ UNCHANGED <<mail, changes>>

LEMMA BazaarStep ==
    ASSUME RailTypes, SendInv, [Next]_vars
    PROVE  BazaarMoves
<1>1. CASE LaneStep
  <2>1. CASE RetryTaken
    <3>1. Here \in Threads /\ Retrying \in Intents
      BY <2>1, PageTypes DEF RetryTaken, SendInv, Retries, Retrying
    <3> QED
      BY <2>1, <3>1 DEF RetryTaken, BazaarTakes, BazaarMoves
  <2>2. CASE UNCHANGED bazaar
    BY <2>2 DEF BazaarMoves
  <2> QED
    BY <1>1, <2>1, <2>2 DEF LaneStep, ListPage, LeaveUnplaced, GetThread, GetThreadFails,
       RecordMessage, FinishThread, AppendMail, SkipMail, MarkSeen, SetCursor, ToSends,
       RetrySettles, RetryRefused, Nudges, LaneFails
<1>2. ASSUME NEW t \in Threads, SendStep(t) \/ Claims(t)
      PROVE  BazaarMoves
  <2>1. CASE AttemptSent(t) \/ AttemptLost(t)
    <3>1. call[t].of \in Intents
      BY <2>1 DEF AttemptSent, AttemptLost, SendInv, Calls, CallOK
    <3>2. BazaarTakes(t, call[t].of) \/ UNCHANGED bazaar
      BY <2>1 DEF AttemptSent, AttemptLost
    <3> QED
      BY <3>1, <3>2 DEF BazaarTakes, BazaarMoves
  <2>2. CASE UNCHANGED bazaar
    BY <2>2 DEF BazaarMoves
  <2> QED
    BY <1>2, <2>1, <2>2 DEF SendStep, ReserveReply, MarkUnverified, AttemptRefused, CommitReply, Claims
<1>3. ASSUME NEW t \in Threads, NEW by \in {"buyer", "auto", "seller"}, Writes(t, by)
      PROVE  BazaarMoves
  BY <1>3 DEF Writes, BazaarMoves
<1>4. ASSUME NEW t \in Threads, Blocks(t)
      PROVE  BazaarMoves
  BY <1>4 DEF Blocks, BazaarMoves
<1>5. ASSUME NEW t \in Threads, Links(t) \/ NudgeDelivered(t) \/ Escalates(t) \/ SellerAnswers(t)
      PROVE  BazaarMoves
  BY <1>5 DEF Links, NudgeDelivered, Escalates, SellerAnswers, BazaarMoves
<1>6. ASSUME NEW i \in Intents, Ages(i) \/ Sweep(i)
      PROVE  BazaarMoves
  BY <1>6 DEF Ages, Sweep, BazaarMoves
<1>7. CASE Rings \/ Dies \/ UNCHANGED vars
  BY <1>7 DEF Rings, Dies, vars, BazaarMoves
<1> QED
  BY <1>1, <1>2, <1>3, <1>4, <1>5, <1>6, <1>7 DEF Next

\* So bazaar loses nothing it holds and takes back nothing it listed.
LEMMA BazaarGrows ==
    ASSUME RailTypes, BazaarMoves
    PROVE  /\ \A u \in Threads : /\ Len(mail[u]) \in Nat /\ Len(mail'[u]) \in Nat
                                 /\ Len(mail[u]) <= Len(mail'[u])
                                 /\ DOMAIN mail[u] = 1..Len(mail[u])
                                 /\ DOMAIN mail'[u] = 1..Len(mail'[u])
                                 /\ \A n \in 1..Len(mail[u]) : mail'[u][n] = mail[u][n]
           /\ Len(changes) \in Nat /\ Len(changes') \in Nat /\ Len(changes) <= Len(changes')
           /\ DOMAIN changes = 1..Len(changes) /\ DOMAIN changes' = 1..Len(changes')
           /\ \A k \in 1..Len(changes) : changes'[k] = changes[k]
           /\ Stored \subseteq Stored' /\ blocked \subseteq blocked'
<1>1. /\ \A u \in Threads : mail[u] \in Seq(Letter) /\ Len(mail[u]) \in Nat
                            /\ DOMAIN mail[u] = 1..Len(mail[u])
      /\ changes \in Seq(Change) /\ Len(changes) \in Nat /\ DOMAIN changes = 1..Len(changes)
  BY DEF RailTypes
<1>2. CASE UNCHANGED bazaar
  BY <1>1, <1>2 DEF bazaar, Stored
<1>3. ASSUME NEW t \in Threads, NEW by \in {"buyer", "auto", "seller", "agent"},
             NEW i \in Intents \cup {None}, Lands(t, by, i)
      PROVE  /\ \A u \in Threads : /\ Len(mail[u]) \in Nat /\ Len(mail'[u]) \in Nat
                                   /\ Len(mail[u]) <= Len(mail'[u])
                                   /\ DOMAIN mail[u] = 1..Len(mail[u])
                                   /\ DOMAIN mail'[u] = 1..Len(mail'[u])
                                   /\ \A n \in 1..Len(mail[u]) : mail'[u][n] = mail[u][n]
             /\ Len(changes) \in Nat /\ Len(changes') \in Nat /\ Len(changes) <= Len(changes')
             /\ DOMAIN changes = 1..Len(changes) /\ DOMAIN changes' = 1..Len(changes')
             /\ \A k \in 1..Len(changes) : changes'[k] = changes[k]
             /\ Stored \subseteq Stored' /\ blocked \subseteq blocked'
  <2>1. /\ mail' \in [Threads -> Seq(Letter)] /\ changes' \in Seq(Change)
        /\ \A u \in Threads : /\ DOMAIN mail[u] \subseteq DOMAIN mail'[u]
                              /\ Len(mail[u]) <= Len(mail'[u])
                              /\ \A n \in DOMAIN mail[u] : mail'[u][n] = mail[u][n]
        /\ \/ UNCHANGED changes
           \/ changes' = Append(changes, <<t, Len(mail[t]) + 1>>)
        /\ UNCHANGED blocked
    BY <1>3, LandsIs
  <2>2. \A u \in Threads : Len(mail'[u]) \in Nat /\ DOMAIN mail'[u] = 1..Len(mail'[u])
    BY <2>1
  <2>3. <<t, Len(mail[t]) + 1>> \in Change
    BY <1>1 DEF Change, Numbers
  <2>4. Len(changes') \in Nat /\ DOMAIN changes' = 1..Len(changes')
    BY <2>1
  <2>5. Len(changes) <= Len(changes') /\ \A k \in 1..Len(changes) : changes'[k] = changes[k]
    BY <1>1, <2>1, <2>3
  <2>6. Stored \subseteq Stored'
    BY <2>1 DEF Stored
  <2> QED
    BY <1>1, <2>1, <2>2, <2>4, <2>5, <2>6
<1>4. ASSUME NEW t \in Threads, blocked' = blocked \cup {t}, changes' = Append(changes, <<t, 0>>),
             UNCHANGED mail
      PROVE  /\ Len(changes') \in Nat /\ Len(changes) <= Len(changes')
             /\ DOMAIN changes' = 1..Len(changes')
             /\ \A k \in 1..Len(changes) : changes'[k] = changes[k]
             /\ Stored \subseteq Stored' /\ blocked \subseteq blocked'
  <2>1. <<t, 0>> \in Change
    BY DEF Change, Numbers
  <2>2. Stored' = Stored
    BY <1>4 DEF Stored
  <2>3. changes' \in Seq(Change) /\ Len(changes') = Len(changes) + 1
        /\ \A k \in 1..Len(changes) : changes'[k] = changes[k]
    BY <1>1, <1>4, <2>1
  <2> QED
    BY <1>1, <1>4, <2>2, <2>3
<1>5. CASE \E t \in Threads : \E by \in {"buyer", "auto", "seller"} : Lands(t, by, None)
  BY <1>3, <1>5
<1>6. CASE \E t \in Threads : \E i \in Intents : Lands(t, "agent", i)
  BY <1>3, <1>6
<1>7. CASE \E t \in Threads : /\ Relay /\ mail[t] # <<>>
                              /\ blocked' = blocked \cup {t}
                              /\ changes' = Append(changes, <<t, 0>>) /\ UNCHANGED mail
  BY <1>1, <1>4, <1>7
<1>8. CASE ~Relay /\ blocked \subseteq blocked' /\ UNCHANGED <<mail, changes>>
  <2>1. Stored' = Stored
    BY <1>8 DEF Stored
  <2> QED
    BY <1>1, <1>8, <2>1
<1> QED
  BY <1>2, <1>5, <1>6, <1>7, <1>8 DEF BazaarMoves

-----------------------------------------------------------------------------
(* What the lane is at stays in step with what bazaar and the rows hold.   *)

LEMMA LaneKept ==
    ASSUME RailTypes, RailTypes', SendInv, BazaarMoves, RowsGrow,
           UNCHANGED <<lane, cursor, kind>>
    PROVE  Retries' /\ Reading'
<1>1. /\ Reading /\ Retries /\ Fates
      /\ lane.next \in Nat /\ lane.got \in Nat /\ cursor \in Nat
  BY DEF SendInv, RailTypes, LaneRow, Numbers
<1>2. /\ \A u \in Threads : Len(mail[u]) \in Nat /\ Len(mail'[u]) \in Nat
                            /\ Len(mail[u]) <= Len(mail'[u])
      /\ Len(changes) \in Nat /\ Len(changes') \in Nat /\ Len(changes) <= Len(changes')
      /\ \A k \in 1..Len(changes) : changes'[k] = changes[k]
      /\ Stored \subseteq Stored'
  BY BazaarGrows
<1>3. Retries'
  <2>1. ASSUME lane.at \in {"sends", "settle"}, NEW e \in On(lane.page)
        PROVE  e[2] \in Intents /\ intent'[e[2]].age >= 1 /\ intent'[e[2]].on = e[1]
    <3>1. e[2] \in Intents /\ intent[e[2]].age >= 1 /\ intent[e[2]].on = e[1]
      BY <1>1, <2>1 DEF Retries
    <3>2. intent[e[2]].age \in Nat
      BY <3>1 DEF RailTypes, Row, Numbers
    <3>3. intent[e[2]].age # 0
      BY <3>1, <3>2
    <3>4. intent[e[2]].st # "unborn"
      BY <1>1, <3>1, <3>3 DEF Fates, FateOK
    <3>5. intent'[e[2]].on = intent[e[2]].on /\ intent'[e[2]].age >= intent[e[2]].age
      BY <3>1, <3>4 DEF RowsGrow
    <3>6. intent'[e[2]].age \in Nat
      BY <3>1 DEF RailTypes, Row, Numbers
    <3>7. intent'[e[2]].age >= 1
      BY <3>1, <3>2, <3>5, <3>6
    <3> QED
      BY <3>1, <3>5, <3>7
  <2>2. lane.at = "settle" => lane.page # <<>> /\ Retrying \in Stored'
    BY <1>1, <1>2 DEF Retries
  <2>3. lane' = lane /\ Retrying' = Retrying /\ On(lane.page)' = On(lane.page)
    BY DEF Retrying, On
  <2> QED
    BY <2>1, <2>2, <2>3 DEF Retries
<1>4. Reading'
  <2>1. cursor' <= Len(changes') /\ (lane'.at # "idle" => lane'.next <= Len(changes'))
    BY <1>1, <1>2 DEF Reading
  <2>2. ASSUME AtThread', lane'.got # 0 PROVE lane'.got <= Len(mail'[Here'])
    <3>1. AtThread /\ lane.got # 0 /\ Here' = Here /\ lane' = lane
      BY <2>2 DEF AtThread, Here, Relay
    <3>2. Here \in Threads
      BY <3>1, PageTypes DEF AtThread
    <3>3. lane.got <= Len(mail[Here])
      BY <1>1, <3>1 DEF Reading
    <3> QED
      BY <1>1, <1>2, <3>1, <3>2, <3>3
  <2>3. ASSUME lane.at \in {"page", "mark"}, NEW e \in On(lane.page)
        PROVE  \E k \in 1..lane.next : e = changes'[k]
    <3>1. PICK k \in 1..lane.next : e = changes[k]
      BY <1>1, <2>3 DEF Reading
    <3>2. k \in 1..Len(changes)
      BY <1>1, <1>2, <2>3, <3>1 DEF Reading
    <3> QED
      BY <1>2, <3>1, <3>2
  <2>4. On(lane.page)' = On(lane.page) /\ lane' = lane /\ Relay' = Relay
    BY DEF On, Relay
  <2> QED
    BY <1>1, <2>1, <2>2, <2>3, <2>4 DEF Reading
<1> QED
  BY <1>3, <1>4

\* The lane's own steps: what it will retry.
LEMMA RetriesStep ==
    ASSUME RailTypes, SendInv, LaneStep, RowsGrow
    PROVE  Retries'
<1>1. lane \in LaneRow /\ Retries /\ Fates
  BY DEF SendInv, RailTypes
<1>2. CASE lane'.at \notin {"sends", "settle"}
  BY <1>2 DEF Retries
<1>3. CASE ListPage \/ GetThread \/ RecordMessage \/ AppendMail \/ SetCursor
  <2>1. lane'.at \notin {"sends", "settle"}
    <3>1. CASE ListPage
      BY <1>1, <3>1 DEF ListPage, LaneRow
    <3>2. CASE GetThread \/ RecordMessage
      BY <1>1, <3>2 DEF GetThread, RecordMessage, AtThread, LaneRow
    <3>3. CASE AppendMail \/ SetCursor
      BY <1>1, <3>3 DEF AppendMail, SetCursor, LaneRow
    <3> QED
      BY <1>3, <3>1, <3>2, <3>3
  <2> QED
    BY <1>2, <2>1
<1>4. CASE LeaveUnplaced \/ GetThreadFails \/ FinishThread
  <2>1. lane' = Turn(lane.at) /\ lane.page # <<>> /\ lane.at \in {"page", "reread"}
    BY <1>4 DEF LeaveUnplaced, GetThreadFails, FinishThread, AtThread
  <2>2. lane'.at = lane.at
    BY <2>1 DEF Turn
  <2> QED
    BY <1>2, <2>1, <2>2
<1>5. CASE SkipMail \/ MarkSeen
  BY <1>2, <1>5 DEF SkipMail, MarkSeen, Turn
<1>6. CASE Nudges \/ LaneFails
  BY <1>2, <1>6, RestingIs DEF Nudges, LaneFails
<1>7. CASE ToSends
  <2>1. PICK due \in {{}, Retried} :
          lane' = [lane EXCEPT !.at = "sends", !.page = SetToSeq({<<intent[i].on, i>> : i \in due})]
    BY <1>7 DEF ToSends
  <2> DEFINE page == SetToSeq({<<intent[i].on, i>> : i \in due})
  <2>2. \A e \in On(page) : e[2] \in Intents /\ intent[e[2]].age >= 1 /\ intent[e[2]].on = e[1]
    BY <1>1, SendsList
  <2> HIDE DEF page
  <2>3. lane' = [lane EXCEPT !.at = "sends", !.page = page]
    BY <2>1 DEF page
  <2>4. lane'.at = "sends" /\ lane'.page = page
    BY <1>1, <2>3 DEF LaneRow
  <2>5. intent' = intent
    BY <1>7 DEF ToSends, sends
  <2> QED
    BY <2>2, <2>4, <2>5 DEF Retries
<1>8. CASE RetryTaken
  <2>1. lane.at = "sends" /\ lane.page # <<>> /\ lane' = [lane EXCEPT !.at = "settle"]
        /\ BazaarTakes(Here, Retrying) /\ intent' = intent
    BY <1>8 DEF RetryTaken, sends
  <2>2. lane'.page = lane.page /\ lane'.at = "settle"
    BY <1>1, <2>1 DEF LaneRow
  <2>3. Here \in Threads /\ Retrying \in Intents
    BY <1>1, <2>1, PageTypes DEF Retries, Retrying
  <2>4. Retrying \in Stored'
    BY <2>1, <2>3, TakesIs
  <2>5. Retrying' = Retrying
    BY <2>2 DEF Retrying
  <2> QED
    BY <1>1, <2>1, <2>2, <2>4, <2>5 DEF Retries
<1>9. CASE RetrySettles \/ RetryRefused
  <2>1. lane.at \in {"sends", "settle"} /\ lane.page # <<>> /\ lane' = Turn("sends")
    BY <1>1, <1>9 DEF RetrySettles, RetryRefused, Retries
  <2>2. lane'.page = Tail(lane.page) /\ lane'.at = "sends"
    BY <2>1 DEF Turn
  <2>3. On(Tail(lane.page)) \subseteq On(lane.page)
    <3>1. lane.page \in Seq(Entry)
      BY PageTypes
    <3> QED
      BY <2>1, <3>1, ListTail
  <2>4. ASSUME NEW e \in On(lane.page)
        PROVE  e[2] \in Intents /\ intent'[e[2]].age >= 1 /\ intent'[e[2]].on = e[1]
    <3>1. e[2] \in Intents /\ intent[e[2]].age >= 1 /\ intent[e[2]].on = e[1]
      BY <1>1, <2>1 DEF Retries
    <3>2. \A i \in Intents : intent'[i].age = intent[i].age /\ intent'[i].on = intent[i].on
      <4>1. CASE UNCHANGED intent
        BY <4>1
      <4>2. CASE ~UNCHANGED intent
        <5>1. Retrying \in Intents
          BY <1>1, <2>1, PageTypes DEF Retries, Retrying
        <5>2. \E s \in States : intent' = [intent EXCEPT ![Retrying].st = s]
          BY <1>9, <4>2 DEF RetrySettles, RetryRefused, Commits, Drop, States
        <5> QED
          BY <5>1, <5>2, StateSet
      <4> QED
        BY <4>1, <4>2
    <3> QED
      BY <3>1, <3>2
  <2> QED
    BY <2>2, <2>3, <2>4 DEF Retries
<1> QED
  BY <1>3, <1>4, <1>5, <1>6, <1>7, <1>8, <1>9 DEF LaneStep

\* The lane's own steps: what it reads.
LEMMA ReadingStep ==
    ASSUME RailTypes, SendInv, BazaarMoves, LaneStep
    PROVE  Reading'
<1>1. /\ lane \in LaneRow /\ Reading /\ lane.next \in Nat /\ lane.got \in Nat /\ cursor \in Nat
      /\ lane.page \in Seq(Entry)
  BY DEF SendInv, RailTypes, LaneRow, Numbers
<1>2. /\ Len(changes) \in Nat /\ Len(changes') \in Nat /\ Len(changes) <= Len(changes')
      /\ changes \in Seq(Change)
  BY BazaarGrows DEF RailTypes
\* A step with one mail or thread less to look at.
<1>3. ASSUME NEW to \in {"page", "reread", "sends"}, lane.page # <<>>, lane' = Turn(to),
             UNCHANGED <<changes, cursor, kind>>, lane.at # "idle",
             to = "page" => lane.at \in {"page", "mark"}
      PROVE  Reading'
  <2>1. /\ lane'.at = to /\ lane'.page = Tail(lane.page) /\ lane'.next = lane.next /\ lane'.got = 0
    BY <1>3 DEF Turn
  <2>2. On(Tail(lane.page)) \subseteq On(lane.page)
    BY <1>1, <1>3, ListTail
  <2>3. ASSUME to = "page", NEW e \in On(lane.page)' PROVE \E k \in 1..lane'.next : e = changes'[k]
    <3>1. e \in On(lane.page)
      BY <2>1, <2>2, <2>3 DEF On
    <3> QED
      BY <1>1, <1>3, <2>1, <2>3, <3>1 DEF Reading
  <2> QED
    BY <1>1, <1>3, <2>1, <2>3 DEF Reading
\* A step after which nothing lies before the lane.
<1>4. ASSUME lane'.at \in {"idle", "list"}, lane'.page = <<>>, lane'.got = 0, UNCHANGED changes,
             cursor' <= Len(changes), lane'.next <= Len(changes) \/ lane'.at = "idle"
      PROVE  Reading'
  BY <1>4 DEF Reading, AtThread
<1>5. CASE ListPage
  <2> DEFINE page == SubSeq(changes, lane.next + 1, Min({Len(changes), lane.next + PageSize}))
  <2>1. /\ lane.at = "list" /\ UNCHANGED <<changes, cursor, kind>>
        /\ lane' = [lane EXCEPT !.at = "page", !.page = page, !.full = Len(page) = PageSize,
                                !.next = lane.next + Len(page)]
    BY <1>5 DEF ListPage, bazaar, marks, fixed
  <2>2. /\ lane.next \in Nat /\ lane.next <= Len(changes) /\ lane.got = 0
        /\ changes \in Seq(Change) /\ PageSize \in Nat \ {0}
    BY <1>1, <1>2, <2>1, MailAssumption DEF Reading
  <2>3. /\ page \in Seq(Change) /\ Len(page) \in Nat /\ DOMAIN page = 1..Len(page)
        /\ lane.next + Len(page) <= Len(changes)
        /\ \A k \in 1..Len(page) : page[k] = changes[lane.next + k]
    <3>1. PageOf(page, Change, changes, lane.next)
      BY <2>2, PageIs
    <3> HIDE DEF page
    <3> QED
      BY <3>1 DEF PageOf
  <2> HIDE DEF page
  <2>4. /\ lane'.at = "page" /\ lane'.page = page /\ lane'.got = 0
        /\ lane'.next = lane.next + Len(page)
    BY <1>1, <2>1, <2>2 DEF LaneRow
  <2>5. ASSUME NEW e \in On(lane.page)' PROVE \E k \in 1..lane'.next : e = changes'[k]
    <3>1. PICK k \in 1..Len(page) : e = page[k]
      BY <2>3, <2>4, <2>5 DEF On
    <3>2. lane.next + k \in 1..lane'.next /\ e = changes'[lane.next + k]
      BY <1>1, <2>1, <2>3, <2>4, <3>1
    <3> QED
      BY <3>2
  <2> QED
    BY <1>1, <2>1, <2>3, <2>4, <2>5 DEF Reading
<1>6. CASE LeaveUnplaced \/ GetThreadFails \/ FinishThread
  <2>1. /\ lane' = Turn(lane.at) /\ lane.page # <<>> /\ lane.at \in {"page", "reread"}
        /\ UNCHANGED <<changes, cursor, kind>>
    BY <1>6 DEF LeaveUnplaced, GetThreadFails, FinishThread, AtThread, bazaar, fixed
  <2> QED
    BY <1>3, <2>1
<1>7. CASE SkipMail \/ MarkSeen
  <2>1. /\ lane' = Turn("page") /\ lane.page # <<>> /\ lane.at \in {"page", "mark"}
        /\ UNCHANGED <<changes, cursor, kind>>
    BY <1>1, <1>7 DEF SkipMail, MarkSeen, bazaar, fixed, Reading
  <2> QED
    BY <1>3, <2>1
<1>8. CASE RetrySettles \/ RetryRefused
  <2>1. /\ lane' = Turn("sends") /\ lane.page # <<>> /\ lane.at \in {"settle", "sends"}
        /\ UNCHANGED <<changes, cursor, kind>>
    BY <1>8 DEF RetrySettles, RetryRefused, bazaar, marks, fixed, SendInv, Retries
  <2> QED
    BY <1>3, <2>1
<1>9. CASE Nudges \/ LaneFails
  <2>1. lane' = Resting /\ UNCHANGED <<changes, cursor>>
    BY <1>9 DEF Nudges, LaneFails, bazaar, marks
  <2> QED
    BY <1>1, <1>4, <2>1, RestingIs DEF Reading
\* A step that stays at the same mail or thread.
<1>10. CASE GetThread
  <2>1. /\ AtThread /\ lane' = [lane EXCEPT !.got = Len(mail[Here]), !.blk = Here \in blocked]
        /\ UNCHANGED <<mail, changes, cursor, kind>>
    BY <1>10 DEF GetThread, bazaar, marks, fixed
  <2>2. /\ lane'.at = lane.at /\ lane'.page = lane.page /\ lane'.next = lane.next
        /\ lane'.got = Len(mail[Here])
    BY <1>1, <2>1 DEF LaneRow
  <2>3. Here' = Here /\ lane.page # <<>> /\ lane.at \in {"page", "reread"} /\ Relay' = Relay
    BY <2>1, <2>2 DEF Here, AtThread, Relay
  <2>4. Len(mail[Here]) <= Len(mail[Here])
    <3>1. Here \in Threads
      BY <2>3, PageTypes
    <3>2. Len(mail[Here]) \in Nat
      BY <3>1, BazaarGrows
    <3> QED
      BY <3>2
  <2>5. On(lane.page)' = On(lane.page)
    BY <2>2 DEF On
  <2> QED
    BY <1>1, <2>1, <2>2, <2>3, <2>4, <2>5 DEF Reading
<1>11. CASE RecordMessage
  <2>1. /\ AtThread /\ lane' = [lane EXCEPT !.n = lane.n + 1]
        /\ UNCHANGED <<mail, changes, cursor, kind>>
    BY <1>11 DEF RecordMessage, bazaar, marks, fixed
  <2>2. /\ lane'.at = lane.at /\ lane'.page = lane.page /\ lane'.next = lane.next
        /\ lane'.got = lane.got
    BY <1>1, <2>1 DEF LaneRow
  <2>3. Here' = Here /\ Relay' = Relay /\ On(lane.page)' = On(lane.page) /\ AtThread' = AtThread
    BY <2>1, <2>2 DEF Here, AtThread, Relay, On
  <2> QED
    BY <1>1, <2>1, <2>2, <2>3 DEF Reading
<1>12. CASE AppendMail
  <2>1. /\ ~Relay /\ lane.at = "page" /\ lane.page # <<>> /\ lane' = [lane EXCEPT !.at = "mark"]
        /\ UNCHANGED <<mail, changes, cursor, kind>>
    BY <1>12 DEF AppendMail, bazaar, marks, fixed
  <2>2. /\ lane'.at = "mark" /\ lane'.page = lane.page /\ lane'.next = lane.next
        /\ lane'.got = lane.got
    BY <1>1, <2>1 DEF LaneRow
  <2>3. Relay' = Relay /\ On(lane.page)' = On(lane.page)
    BY <2>1, <2>2 DEF Relay, On
  <2> QED
    BY <1>1, <2>1, <2>2, <2>3 DEF Reading, AtThread
<1>13. CASE SetCursor
  <2>1. lane.at = "page" /\ lane.page = <<>> /\ cursor' = lane.next /\ UNCHANGED <<changes, mail>>
    BY <1>13 DEF SetCursor, bazaar
  <2>2. lane.next <= Len(changes) /\ lane.got = 0
    BY <1>1, <2>1 DEF Reading
  <2>3. /\ lane'.next = lane.next /\ lane'.got = 0
        /\ \/ lane'.at = "list" /\ lane'.page = <<>>
           \/ lane'.at = "reread"
    <3>1. CASE lane.full
      BY <1>1, <1>13, <2>1, <2>2, <3>1 DEF SetCursor, LaneRow
    <3>2. CASE ~lane.full
      BY <1>1, <1>13, <2>1, <2>2, <3>2 DEF SetCursor, LaneRow
    <3> QED
      BY <3>1, <3>2
  <2> QED
    BY <1>1, <2>1, <2>2, <2>3 DEF Reading
<1>14. CASE ToSends
  <2>1. lane.at = "reread" /\ lane.page = <<>> /\ UNCHANGED <<changes, cursor>>
    BY <1>14 DEF ToSends, bazaar, marks
  <2>2. lane'.at = "sends" /\ lane'.next = lane.next /\ lane'.got = lane.got
    BY <1>1, <1>14 DEF ToSends, LaneRow
  <2> QED
    BY <1>1, <2>1, <2>2 DEF Reading, AtThread
<1>15. CASE RetryTaken
  <2>1. lane.at = "sends" /\ lane.page # <<>> /\ UNCHANGED cursor /\ lane' = [lane EXCEPT !.at = "settle"]
    BY <1>15 DEF RetryTaken, marks
  <2>2. lane'.at = "settle" /\ lane'.next = lane.next /\ lane'.page = lane.page
    BY <1>1, <2>1 DEF LaneRow
  <2> QED
    BY <1>1, <1>2, <2>1, <2>2 DEF Reading, AtThread
<1> QED
  BY <1>5, <1>6, <1>7, <1>8, <1>9, <1>10, <1>11, <1>12, <1>13, <1>14, <1>15 DEF LaneStep

LEMMA SendInvInit == Init => SendInv
<1> SUFFICES ASSUME Init PROVE SendInv
  OBVIOUS
<1>1. Stored = {}
  BY DEF Init, Stored
<1>2. /\ \A t \in Threads : call[t] = NoCall /\ mail[t] = <<>>
      /\ \A i \in Intents : intent[i] = Unborn
      /\ lane = Resting /\ cursor = 0 /\ changes = <<>> /\ Len(changes) = 0
  BY DEF Init
<1>3. Calls
  BY <1>1, <1>2, NoCallIs DEF Calls, CallOK
<1>4. Fates
  BY <1>1, <1>2 DEF Fates, FateOK, Unborn
<1>5. Letters
  BY <1>2 DEF Letters
<1>6. Retries /\ Reading
  BY <1>2, RestingIs DEF Retries, Reading, AtThread
<1> QED
  BY <1>3, <1>4, <1>5, <1>6 DEF SendInv

LEMMA SendInvStep ==
    ASSUME RailTypes, SendInv, [Next]_vars
    PROVE  SendInv'
<1>1. SendCore' /\ RailTypes' /\ RowsGrow /\ BazaarMoves
  BY SendCoreStep, RailTypesStep, RowsStep, BazaarStep
<1>2. CASE LaneStep
  BY <1>1, <1>2, RetriesStep, ReadingStep DEF SendInv, SendCore
<1>3. CASE UNCHANGED <<lane, cursor, kind>>
  BY <1>1, <1>3, LaneKept DEF SendInv, SendCore
<1>4. CASE Rings \/ Dies
  <2>1. /\ UNCHANGED <<changes, cursor>> /\ cursor \in Nat /\ Reading
    BY <1>4 DEF Rings, Dies, bazaar, marks, SendInv, RailTypes, Numbers
  <2>2. lane' = [Resting EXCEPT !.at = "list", !.items = linked, !.next = cursor] \/ lane' = Resting
    BY <1>4 DEF Rings, Dies, Started
  <2>3. /\ lane'.at \in {"idle", "list"} /\ lane'.page = <<>> /\ lane'.got = 0
        /\ lane'.at = "list" => lane'.next = cursor
    BY <2>2, RestingIs DEF Resting
  <2>4. Retries' /\ Reading'
    BY <2>1, <2>3 DEF Retries, Reading, AtThread
  <2> QED
    BY <1>1, <2>4 DEF SendInv, SendCore
<1>5. \/ LaneStep \/ Rings \/ Dies \/ UNCHANGED <<lane, cursor, kind>>
  BY DEF Next, Writes, Blocks, Links, SendStep, ReserveReply, MarkUnverified, AttemptSent,
     AttemptLost, AttemptRefused, CommitReply, Claims, NudgeDelivered, Escalates, SellerAnswers,
     Ages, Sweep, vars, fixed, marks
<1> QED
  BY <1>2, <1>3, <1>4, <1>5

\* A call and its send belong together, what was stored was sent, what was dropped is not
\* stored and cannot be, a retry has had its time, and the lane reads only what there is.
THEOREM SendsHeld == Spec => [](RailTypes /\ SendInv)
<1>1. Init => RailTypes /\ SendInv
  BY RailTypesInit, SendInvInit
<1>2. RailTypes /\ SendInv /\ [Next]_vars => (RailTypes /\ SendInv)'
  BY RailTypesStep, SendInvStep
<1> QED
  BY <1>1, <1>2, PTL DEF Spec

-----------------------------------------------------------------------------
(* What MailPromise says of a reply is kept.                               *)

FatesNow == [i \in Intents |-> Fate(intent[i].st)]
BuyersNow == [i \in Intents |-> intent[i].on]
SeenNow == <<FatesNow, BuyersNow, Stored>>

LEMMA FateIs ==
    /\ Fate("unborn") = "unborn" /\ Fate("pending") = "owed" /\ Fate("unverified") = "owed"
    /\ Fate("unconfirmed") = "asked" /\ Fate("committed") = "sent" /\ Fate("dropped") = "refused"
  BY DEF Fate

LEMMA PromiseStep ==
    ASSUME NEW i \in Intents,
           \/ \E b \in Threads : Promise!HandIn(i, b)
           \/ Promise!Deliver(i) \/ Promise!Confirm(i) \/ Promise!Refuse(i) \/ Promise!Ask(i)
    PROVE  Promise!Next
  BY DEF Promise!Next

\* A send's new state is a step of the promise, or none that can be seen.
LEMMA StatePromise ==
    ASSUME RailTypes, NEW i \in Intents, NEW s \in States, UNCHANGED mail,
           intent' = [intent EXCEPT ![i].st = s],
           \/ s = intent[i].st
           \/ s = "unverified" /\ intent[i].st = "pending"
           \/ s = "committed" /\ intent[i].st \in Unsettled /\ i \in Stored
           \/ s = "dropped" /\ intent[i].st \in {"pending", "unverified"} /\ i \notin Stored
           \/ s = "unconfirmed" /\ intent[i].st \in {"pending", "unverified"}
    PROVE  Promise!Next \/ UNCHANGED SeenNow
<1>1. /\ intent'[i].st = s
      /\ \A j \in Intents : /\ intent'[j].on = intent[j].on
                            /\ j # i => intent'[j].st = intent[j].st
  BY StateSet
<1>2. Stored' = Stored
  BY DEF Stored
<1>3. BuyersNow' = BuyersNow
  BY <1>1 DEF BuyersNow
<1>4. FatesNow' = [FatesNow EXCEPT ![i] = Fate(s)] /\ FatesNow[i] = Fate(intent[i].st)
  <2>1. \A j \in Intents : j # i => Fate(intent'[j].st) = Fate(intent[j].st)
    BY <1>1
  <2>2. Fate(intent'[i].st) = Fate(s)
    BY <1>1
  <2>3. FatesNow' = [j \in Intents |-> Fate(intent'[j].st)]
    BY DEF FatesNow, Fate
  <2> QED
    BY <2>1, <2>2, <2>3 DEF FatesNow
<1>5. CASE Fate(s) = Fate(intent[i].st)
  <2>1. FatesNow' = FatesNow
    BY <1>4, <1>5 DEF FatesNow
  <2> QED
    BY <1>2, <1>3, <2>1 DEF SeenNow
<1>6. CASE s = "committed" /\ intent[i].st \in Unsettled /\ i \in Stored
  <2>1. FatesNow[i] \in {"owed", "asked"} /\ Fate(s) = "sent"
    BY <1>4, <1>6, FateIs DEF Unsettled
  <2>2. Promise!Confirm(i)
    BY <1>2, <1>3, <1>4, <1>6, <2>1 DEF Promise!Confirm, FatesNow, BuyersNow
  <2> QED
    BY <2>2, PromiseStep
<1>7. CASE s = "dropped" /\ intent[i].st \in {"pending", "unverified"} /\ i \notin Stored
  <2>1. FatesNow[i] = "owed" /\ Fate(s) = "refused"
    BY <1>4, <1>7, FateIs
  <2>2. Promise!Refuse(i)
    BY <1>2, <1>3, <1>4, <1>7, <2>1 DEF Promise!Refuse, FatesNow, BuyersNow
  <2> QED
    BY <2>2, PromiseStep
<1>8. CASE s = "unconfirmed" /\ intent[i].st \in {"pending", "unverified"}
  <2>1. FatesNow[i] = "owed" /\ Fate(s) = "asked"
    BY <1>4, <1>8, FateIs
  <2>2. Promise!Ask(i)
    BY <1>2, <1>3, <1>4, <2>1 DEF Promise!Ask, FatesNow, BuyersNow
  <2> QED
    BY <2>2, PromiseStep
<1>9. CASE s = intent[i].st \/ (s = "unverified" /\ intent[i].st = "pending")
  BY <1>5, <1>9, FateIs
<1> QED
  BY <1>6, <1>7, <1>8, <1>9

\* A reply bazaar takes is delivered, or had been.
LEMMA TakenPromise ==
    ASSUME RailTypes, NEW i \in Intents, NEW t \in Threads, BazaarTakes(t, i), UNCHANGED intent,
           i \notin Stored => intent[i].st \in Unsettled
    PROVE  Promise!Next \/ UNCHANGED SeenNow
<1>1. FatesNow' = FatesNow /\ BuyersNow' = BuyersNow
  BY DEF FatesNow, BuyersNow
<1>2. Stored' = Stored \cup {i}
  BY TakesIs
<1>3. CASE i \in Stored
  <2>1. Stored' = Stored
    BY <1>2, <1>3
  <2> QED
    BY <1>1, <2>1 DEF SeenNow
<1>4. CASE i \notin Stored
  <2>1. FatesNow[i] \in {"owed", "asked"}
    BY <1>4, FateIs DEF FatesNow, Unsettled
  <2>2. Promise!Deliver(i)
    BY <1>1, <1>2, <1>4, <2>1 DEF Promise!Deliver, FatesNow, BuyersNow
  <2> QED
    BY <2>2, PromiseStep
<1> QED
  BY <1>3, <1>4

LEMMA SeenStill ==
    ASSUME \A i \in Intents : intent'[i].st = intent[i].st /\ intent'[i].on = intent[i].on,
           Stored' = Stored
    PROVE  UNCHANGED SeenNow
<1>1. FatesNow' = FatesNow /\ BuyersNow' = BuyersNow
  BY DEF FatesNow, BuyersNow
<1> QED
  BY <1>1 DEF SeenNow

LEMMA LanePromise ==
    ASSUME RailTypes, SendInv, LaneStep
    PROVE  Promise!Next \/ UNCHANGED SeenNow
<1> USE DEF fixed, bazaar, threads, sends, marks
<1>1. Fates /\ Calls /\ Letters /\ "committed" \in States /\ "dropped" \in States
  BY DEF SendInv, States
<1>2. CASE UNCHANGED <<intent, mail>>
  BY <1>2, SeenStill DEF Stored
<1>3. CASE RecordMessage
  <2> DEFINE i == mail[Here][lane.n + 1].of
  <2>1. Here \in Threads /\ lane.n + 1 \in DOMAIN mail[Here] /\ i \in Intents \cup {None}
    BY <1>3, NextLetter DEF SendInv, Letter
  <2>2. CASE i # None /\ intent[i].st \in Unsettled
    <3>1. i \in Intents /\ i \in Stored
      BY <2>1, <2>2 DEF Stored
    <3>2. intent' = [intent EXCEPT ![i].st = "committed"] /\ UNCHANGED mail
      BY <1>3, <2>2 DEF RecordMessage, Commits
    <3> HIDE DEF i
    <3> QED
      BY <1>1, <2>2, <3>1, <3>2, StatePromise
  <2>3. CASE ~(i # None /\ intent[i].st \in Unsettled)
    BY <1>2, <1>3, <2>3 DEF RecordMessage
  <2> QED
    BY <2>2, <2>3
<1>4. CASE RetryTaken
  <2>1. /\ Here \in Threads /\ Retrying \in Intents /\ intent[Retrying].age >= 1
        /\ intent[Retrying].on = Here /\ BazaarTakes(Here, Retrying) /\ UNCHANGED intent
    BY <1>4, PageTypes DEF RetryTaken, SendInv, Retries, Retrying, Here
  <2>2. intent[Retrying].st \in States /\ intent[Retrying].age # 0
    BY <2>1 DEF RailTypes, Row
  <2>3. ASSUME Retrying \notin Stored PROVE intent[Retrying].st \in Unsettled
    <3>1. Here \notin blocked
      BY <2>1, <2>3 DEF BazaarTakes
    <3> QED
      BY <1>1, <2>1, <2>2, <2>3, <3>1 DEF Fates, FateOK, Unsettled, States
  <2> QED
    BY <2>1, <2>3, TakenPromise
<1>5. CASE RetrySettles
  <2>1. Retrying \in Stored /\ Retrying \in Intents
    BY <1>5 DEF RetrySettles, SendInv, Retries, Stored
  <2>2. CASE intent[Retrying].st \in Unsettled
    <3>1. intent' = [intent EXCEPT ![Retrying].st = "committed"] /\ UNCHANGED mail
      BY <1>5, <2>2 DEF RetrySettles, Commits
    <3> QED
      BY <1>1, <2>1, <2>2, <3>1, StatePromise
  <2>3. CASE intent[Retrying].st \notin Unsettled
    BY <1>2, <1>5, <2>3 DEF RetrySettles
  <2> QED
    BY <2>2, <2>3
<1>6. CASE RetryRefused
  <2>1. Retrying \in Intents /\ Retrying \notin Stored
    BY <1>6, PageTypes DEF RetryRefused, SendInv, Retries, Retrying
  <2>2. CASE intent[Retrying].st \in {"pending", "unverified"}
    <3>1. intent' = [intent EXCEPT ![Retrying].st = "dropped"] /\ UNCHANGED mail
      BY <1>6, <2>2 DEF RetryRefused, Drop
    <3> QED
      BY <1>1, <2>1, <2>2, <3>1, StatePromise
  <2>3. CASE intent[Retrying].st \notin {"pending", "unverified"}
    BY <1>2, <1>6, <2>3 DEF RetryRefused
  <2> QED
    BY <2>2, <2>3
<1> QED
  BY <1>2, <1>3, <1>4, <1>5, <1>6 DEF LaneStep, ListPage, LeaveUnplaced, GetThread,
     GetThreadFails, FinishThread, AppendMail, SkipMail, MarkSeen, SetCursor, ToSends, Nudges,
     LaneFails

LEMMA CallPromise ==
    ASSUME RailTypes, SendInv, NEW t \in Threads, SendStep(t) \/ Claims(t)
    PROVE  Promise!Next \/ UNCHANGED SeenNow
<1> USE DEF fixed, bazaar, threads, marks
<1> DEFINE i == call[t].of
<1>1. /\ Fates /\ Calls /\ CallOK(t) /\ intent \in [Intents -> Row]
      /\ "committed" \in States /\ "dropped" \in States /\ "unverified" \in States
  BY DEF SendInv, States, Calls, RailTypes
<1>2. CASE UNCHANGED <<intent, mail>>
  BY <1>2, SeenStill DEF Stored
<1>3. CASE Claims(t)
  <2> DEFINE new == CHOOSE j \in Fresh : TRUE
  <2>1. new \in Intents /\ intent' = [intent EXCEPT ![new].pin = Max(Inbound(t))] /\ UNCHANGED mail
    BY <1>3 DEF Claims, Fresh
  <2> HIDE DEF new
  <2>2. \A j \in Intents : intent'[j].on = intent[j].on /\ intent'[j].st = intent[j].st
    BY <1>1, <2>1 DEF Row
  <2>3. Stored' = Stored
    BY <2>1 DEF Stored
  <2> QED
    BY <2>2, <2>3, SeenStill
<1>4. CASE ReserveReply(t)
  <2>1. call[t].at = "composing" /\ i \in Intents /\ intent[i].st = "unborn" /\ UNCHANGED mail
    BY <1>1, <1>4 DEF ReserveReply, CallOK
  <2>2. CASE stat[t] = "active" /\ ~InDoubt(t)
    <3>1. intent' = [intent EXCEPT ![i] = [intent[i] EXCEPT !.st = "pending", !.on = t]]
      BY <1>1, <1>4, <2>1, <2>2 DEF ReserveReply
    <3> HIDE DEF i
    <3>2. /\ intent'[i].st = "pending" /\ intent'[i].on = t
          /\ \A j \in Intents : j # i => intent'[j] = intent[j]
      BY <1>1, <2>1, <3>1 DEF Row
    <3>3. FatesNow' = [FatesNow EXCEPT ![i] = "owed"] /\ BuyersNow' = [BuyersNow EXCEPT ![i] = t]
      BY <3>2, FateIs DEF FatesNow, BuyersNow
    <3>4. FatesNow[i] = "unborn"
      BY <2>1, FateIs DEF FatesNow
    <3>5. ASSUME NEW j \in Intents, FatesNow[j] = "owed" PROVE BuyersNow[j] # t
      <4>1. intent[j].st \in {"pending", "unverified"}
        <5>1. intent[j].st \in States /\ Fate(intent[j].st) = "owed"
          BY <1>1, <3>5 DEF Row, FatesNow
        <5> QED
          BY <5>1, FateIs DEF States
      <4> QED
        BY <2>2, <4>1 DEF InDoubt, BuyersNow
    <3>6. Stored' = Stored
      BY <2>1 DEF Stored
    <3>7. Promise!HandIn(i, t)
      BY <3>3, <3>4, <3>5, <3>6 DEF Promise!HandIn, FatesNow, BuyersNow
    <3> QED
      BY <2>1, <3>7, PromiseStep
  <2>3. CASE ~(stat[t] = "active" /\ ~InDoubt(t))
    BY <1>2, <1>4, <2>1, <2>3 DEF ReserveReply
  <2> QED
    BY <2>2, <2>3
<1>5. CASE MarkUnverified(t)
  <2> DEFINE s == IF intent[i].st = "pending" THEN "unverified" ELSE intent[i].st
  <2>1. /\ i \in Intents /\ s \in States /\ intent' = [intent EXCEPT ![i].st = s] /\ UNCHANGED mail
        /\ s = intent[i].st \/ (s = "unverified" /\ intent[i].st = "pending")
    BY <1>1, <1>5 DEF MarkUnverified, CallOK, Row
  <2> HIDE DEF i, s
  <2> QED
    BY <2>1, StatePromise
<1>6. CASE AttemptSent(t) \/ AttemptLost(t)
  <2>1. /\ call[t].at = "trying" /\ i \in Intents /\ UNCHANGED intent /\ intent[i].on = t
        /\ intent[i].st # "unborn" /\ (BazaarTakes(t, i) \/ UNCHANGED mail)
    BY <1>1, <1>6 DEF AttemptSent, AttemptLost, CallOK
  <2>2. CASE UNCHANGED mail
    BY <1>2, <2>1, <2>2
  <2>3. CASE BazaarTakes(t, i)
    <3>1. ASSUME i \notin Stored PROVE intent[i].st \in Unsettled
      <4>1. t \notin blocked /\ intent[i].st \in States
        BY <1>1, <2>1, <2>3, <3>1 DEF BazaarTakes, Row
      <4> QED
        BY <1>1, <2>1, <3>1, <4>1 DEF Fates, FateOK, Unsettled, States
    <3> QED
      BY <2>1, <2>3, <3>1, TakenPromise
  <2> QED
    BY <2>1, <2>2, <2>3
<1>7. CASE AttemptRefused(t)
  <2>1. call[t].at = "trying" /\ i \in Intents /\ UNCHANGED mail
    BY <1>1, <1>7 DEF AttemptRefused, CallOK
  <2>2. CASE call[t].tries = 0
    <3>1. /\ intent' = [intent EXCEPT ![i].st = "dropped"] /\ i \notin Stored
          /\ intent[i].st \in {"pending", "unverified"}
      BY <1>1, <1>7, <2>1, <2>2 DEF AttemptRefused, Drop, CallOK
    <3> HIDE DEF i
    <3> QED
      BY <1>1, <2>1, <3>1, StatePromise
  <2>3. CASE call[t].tries # 0
    BY <1>2, <1>7, <2>1, <2>3 DEF AttemptRefused
  <2> QED
    BY <2>2, <2>3
<1>8. CASE CommitReply(t)
  <2>1. /\ i \in Intents /\ i \in Stored /\ intent[i].st # "unborn"
        /\ intent' = [intent EXCEPT ![i].st = "committed"] /\ UNCHANGED mail
    BY <1>1, <1>8 DEF CommitReply, Commits, CallOK
  <2>2. intent[i].st \in Unsettled \/ intent[i].st = "committed"
    <3>1. intent[i].st \in States
      BY <1>1, <2>1 DEF Row
    <3> QED
      BY <1>1, <2>1, <3>1 DEF Fates, FateOK, Unsettled, States
  <2> HIDE DEF i
  <2> QED
    BY <1>1, <2>1, <2>2, StatePromise
<1> QED
  BY <1>3, <1>4, <1>5, <1>6, <1>7, <1>8 DEF SendStep

LEMMA WorldPromise ==
    ASSUME RailTypes, SendInv,
           \/ Rings \/ Dies \/ UNCHANGED vars
           \/ \E t \in Threads :
                \/ \E by \in {"buyer", "auto", "seller"} : Writes(t, by)
                \/ Blocks(t) \/ Links(t) \/ NudgeDelivered(t)
                \/ Escalates(t) \/ SellerAnswers(t)
           \/ \E i \in Intents : Ages(i) \/ Sweep(i)
    PROVE  Promise!Next \/ UNCHANGED SeenNow
<1> USE DEF fixed, bazaar, threads, sends, marks
<1>1. CASE UNCHANGED <<intent, mail>>
  BY <1>1, SeenStill DEF Stored
<1>2. ASSUME NEW t \in Threads, NEW by \in {"buyer", "auto", "seller"}, Writes(t, by)
      PROVE  UNCHANGED SeenNow
  <2>1. Lands(t, by, None) /\ UNCHANGED intent
    BY <1>2 DEF Writes
  <2>2. Stored' = Stored
    BY <2>1, WritesStores
  <2> QED
    BY <2>1, <2>2, SeenStill
<1>3. ASSUME NEW i \in Intents, Ages(i)
      PROVE  UNCHANGED SeenNow
  <2>1. intent' = [intent EXCEPT ![i] = [intent[i] EXCEPT !.age = intent[i].age + 1]]
        /\ intent \in [Intents -> Row] /\ UNCHANGED mail
    BY <1>3 DEF Ages, RailTypes
  <2>2. \A j \in Intents : intent'[j].on = intent[j].on /\ intent'[j].st = intent[j].st
    BY <2>1 DEF Row
  <2>3. Stored' = Stored
    BY <2>1 DEF Stored
  <2> QED
    BY <2>2, <2>3, SeenStill
<1>4. ASSUME NEW i \in Intents, Sweep(i)
      PROVE  Promise!Next \/ UNCHANGED SeenNow
  <2>1. /\ intent[i].st \in {"pending", "unverified"} /\ "unconfirmed" \in States
        /\ intent' = [intent EXCEPT ![i].st = "unconfirmed"] /\ UNCHANGED mail
    BY <1>4 DEF Sweep, States
  <2> QED
    BY <2>1, StatePromise
<1>5. Rings \/ Dies => Promise!Next \/ UNCHANGED SeenNow
  BY <1>1 DEF Rings, Dies
<1>6. UNCHANGED vars => Promise!Next \/ UNCHANGED SeenNow
  BY <1>1 DEF vars
<1>7. \A t \in Threads : Blocks(t) \/ Links(t) \/ NudgeDelivered(t) \/ Escalates(t) \/ SellerAnswers(t)
                           => Promise!Next \/ UNCHANGED SeenNow
  BY <1>1 DEF Blocks, Links, NudgeDelivered, Escalates, SellerAnswers
<1> QED
  BY <1>2, <1>3, <1>4, <1>5, <1>6, <1>7

\* The call with its retries, the lane with its own, the sweep, refusals, lost answers and
\* crashes together keep what MailPromise says of a reply (rail/sink.py, rail/inbox.py,
\* store/send.py): it is stored at most once, counted as sent only when it is, and dropped only
\* when it is not and never will be.
THEOREM PromiseKept == Spec => KeepsPromise
<1>1. Init => Promise!Init
  <2> SUFFICES ASSUME Init PROVE Promise!Init
    OBVIOUS
  <2>1. Stored = {}
    BY DEF Init, Stored
  <2>2. \A i \in Intents : intent[i].st = "unborn" /\ intent[i].on = None
    BY DEF Init, Unborn
  <2> QED
    BY <2>1, <2>2, FateIs DEF Promise!Init
<1>2. RailTypes /\ SendInv /\ [Next]_vars => [Promise!Next]_SeenNow
  BY LanePromise, CallPromise, WorldPromise DEF Next
<1> QED
  BY SendsHeld, <1>1, <1>2, PTL DEF Spec, KeepsPromise, Promise!Spec, SeenNow, FatesNow, BuyersNow

-----------------------------------------------------------------------------
(* A transcript shows a reply once.                                        *)

\* Relay rows are bazaar's own; registration rows are mail that is nobody's reply.
Plain ==
    /\ Relay => \A t \in Threads : folded[t] = {}
    /\ ~Relay =>
         /\ \A t \in Threads : \A n \in known[t] : n \in DOMAIN mail[t] /\ mail[t][n].of = None
         /\ \A k \in DOMAIN changes : /\ changes[k][2] \in DOMAIN mail[changes[k][1]]
                                      /\ mail[changes[k][1]][changes[k][2]].of = None

LEMMA KindStays == ASSUME [Next]_vars PROVE kind' = kind
  BY DEF Next, LaneStep, ListPage, LeaveUnplaced, GetThread, GetThreadFails, RecordMessage,
     FinishThread, AppendMail, SkipMail, MarkSeen, SetCursor, ToSends, RetryTaken, RetrySettles,
     RetryRefused, Nudges, LaneFails, Rings, Writes, Blocks, Links, SendStep, ReserveReply,
     MarkUnverified, AttemptSent, AttemptLost, AttemptRefused, CommitReply, Claims, NudgeDelivered,
     Escalates, SellerAnswers, Ages, Sweep, Dies, vars, fixed

\* What a step may add to the transcripts.
LEMMA TranscriptStep ==
    ASSUME RailTypes, SendInv, [Next]_vars
    PROVE  /\ \A t \in Threads : known[t] \subseteq known'[t]
           /\ Relay => \A t \in Threads : folded'[t] = folded[t]
           /\ ~Relay => \A t \in Threads : \A n \in known'[t] :
                n \in known[t] \/ \E k \in DOMAIN changes : changes[k][1] = t /\ changes[k][2] = n
<1> DEFINE Goal == /\ \A t \in Threads : known[t] \subseteq known'[t]
                   /\ Relay => \A t \in Threads : folded'[t] = folded[t]
                   /\ ~Relay => \A t \in Threads : \A n \in known'[t] :
                        n \in known[t] \/ \E k \in DOMAIN changes : changes[k][1] = t /\ changes[k][2] = n
<1>1. CASE UNCHANGED <<known, folded>>
  BY <1>1
<1>2. ASSUME NEW i \in Intents, NEW t \in Threads, NEW id \in Numbers, NEW upTo,
             Commits(i, t, id, upTo)
      PROVE  Goal
  <2>1. /\ \A u \in Threads : u # t => known'[u] = known[u] /\ folded'[u] = folded[u]
        /\ Relay => known'[t] = known[t] \cup {id} /\ folded'[t] = folded[t]
        /\ ~Relay => known'[t] = known[t]
    BY <1>2, CommitsIs
  <2> QED
    BY <2>1
<1>3. CASE RecordMessage
  <2> DEFINE n == lane.n + 1
             i == mail[Here][n].of
  <2>1. Here \in Threads /\ n \in Numbers /\ i \in Intents \cup {None} /\ Relay
    BY <1>3, NextLetter DEF SendInv, Letter, RecordMessage, AtThread
  <2>2. CASE i # None /\ intent[i].st \in Unsettled
    <3>1. Commits(i, Here, n, LastBuyer(Here, n)) /\ i \in Intents
      BY <1>3, <2>1, <2>2 DEF RecordMessage
    <3> HIDE DEF i, n
    <3> QED
      BY <1>2, <2>1, <3>1
  <2>3. CASE ~(i # None /\ intent[i].st \in Unsettled)
    <3>1. known' = [known EXCEPT ![Here] = known[Here] \cup {n}] /\ UNCHANGED folded
      BY <1>3, <2>3 DEF RecordMessage
    <3>2. \A t \in Threads : known[t] \subseteq known'[t]
      BY <2>1, <3>1 DEF RailTypes
    <3> QED
      BY <2>1, <3>1, <3>2
  <2> QED
    BY <2>2, <2>3
<1>4. CASE AppendMail
  <2>1. /\ ~Relay /\ lane.at = "page" /\ lane.page # <<>> /\ UNCHANGED folded
        /\ known' = [known EXCEPT ![Here] = known[Here] \cup {MailHere[2]}]
    BY <1>4 DEF AppendMail
  <2>2. /\ Here \in Threads
        /\ \E k \in DOMAIN changes : changes[k][1] = Here /\ changes[k][2] = MailHere[2]
    BY <2>1, MailIs DEF SendInv
  <2>3. \A t \in Threads : \/ known'[t] = known[t]
                           \/ t = Here /\ known'[t] = known[t] \cup {MailHere[2]}
    BY <2>1, <2>2 DEF RailTypes
  <2> QED
    BY <2>1, <2>2, <2>3
<1>5. CASE RetrySettles
  <2>1. Here \in Threads /\ Retrying \in Stored /\ Retrying \in Intents /\ intent[Retrying].on = Here
    BY <1>5, PageTypes DEF RetrySettles, SendInv, Retries, Retrying, Here, Stored
  <2>2. IdIn(mail[Here], Retrying) \in Numbers
    BY <2>1, FoundIn DEF SendInv
  <2> QED
    BY <1>1, <1>2, <1>5, <2>1, <2>2 DEF RetrySettles, threads
<1>6. ASSUME NEW t \in Threads, CommitReply(t)
      PROVE  Goal
  <2>1. call[t].of \in Intents /\ call[t].of \in Stored /\ intent[call[t].of].on = t
    BY <1>6 DEF CommitReply, SendInv, Calls, CallOK
  <2>2. IdIn(mail[t], call[t].of) \in Numbers
    BY <2>1, FoundIn DEF SendInv
  <2> QED
    BY <1>2, <1>6, <2>1, <2>2 DEF CommitReply
<1>7. CASE LaneStep
  <2>1. CASE ListPage \/ LeaveUnplaced \/ GetThread \/ GetThreadFails \/ FinishThread \/ SkipMail
             \/ MarkSeen \/ SetCursor \/ ToSends \/ RetryTaken \/ RetryRefused \/ Nudges \/ LaneFails
    BY <1>1, <2>1 DEF ListPage, LeaveUnplaced, GetThread, GetThreadFails, FinishThread,
       SkipMail, MarkSeen, SetCursor, ToSends, RetryTaken, RetryRefused, Nudges, LaneFails, threads
  <2> QED
    BY <1>3, <1>4, <1>5, <1>7, <2>1 DEF LaneStep
<1>8. ASSUME NEW t \in Threads, SendStep(t) \/ Claims(t)
      PROVE  Goal
  BY <1>1, <1>6, <1>8 DEF SendStep, ReserveReply, MarkUnverified, AttemptSent, AttemptLost,
     AttemptRefused, Claims, threads
<1>9. CASE \/ Rings \/ Dies \/ UNCHANGED vars
           \/ \E t \in Threads :
                \/ \E by \in {"buyer", "auto", "seller"} : Writes(t, by)
                \/ Blocks(t) \/ Links(t) \/ NudgeDelivered(t)
                \/ Escalates(t) \/ SellerAnswers(t)
           \/ \E i \in Intents : Ages(i) \/ Sweep(i)
  BY <1>1, <1>9 DEF Rings, Dies, vars, Writes, Blocks, Links, NudgeDelivered, Escalates,
     SellerAnswers, Ages, Sweep, threads
<1> QED
  BY <1>7, <1>8, <1>9 DEF Next

LEMMA PlainStep ==
    ASSUME RailTypes, SendInv, Plain, [Next]_vars
    PROVE  Plain'
<1>1. kind' = kind /\ BazaarMoves
  BY KindStays, BazaarStep
<1>2. CASE Relay
  <2>1. \A t \in Threads : folded'[t] = {}
    BY <1>2, TranscriptStep DEF Plain
  <2> QED
    BY <1>1, <1>2, <2>1 DEF Plain, Relay
<1>3. CASE ~Relay
  <2>1. /\ \A u \in Threads : /\ DOMAIN mail[u] = 1..Len(mail[u]) /\ DOMAIN mail'[u] = 1..Len(mail'[u])
                              /\ Len(mail[u]) \in Nat /\ Len(mail'[u]) \in Nat
                              /\ Len(mail[u]) <= Len(mail'[u])
                              /\ \A n \in 1..Len(mail[u]) : mail'[u][n] = mail[u][n]
        /\ Len(changes) \in Nat /\ Len(changes') \in Nat
        /\ DOMAIN changes = 1..Len(changes) /\ DOMAIN changes' = 1..Len(changes')
        /\ \A k \in 1..Len(changes) : changes'[k] = changes[k]
    BY <1>1, BazaarGrows
  <2>2. \A u \in Threads : \A n \in DOMAIN mail[u] : n \in DOMAIN mail'[u] /\ mail'[u][n] = mail[u][n]
    BY <2>1
  <2>3. \A k \in DOMAIN changes : changes[k][1] \in Threads
    <3>1. \A k \in DOMAIN changes : changes[k] \in Change
      BY DEF RailTypes
    <3> QED
      BY <3>1 DEF Change
  <2>4. ASSUME NEW t \in Threads, NEW n \in known'[t]
        PROVE  n \in DOMAIN mail'[t] /\ mail'[t][n].of = None
    <3>1. n \in DOMAIN mail[t] /\ mail[t][n].of = None
      BY <1>3, <2>4, TranscriptStep DEF Plain
    <3> QED
      BY <2>2, <3>1
  <2>5. ASSUME NEW k \in DOMAIN changes'
        PROVE  /\ changes'[k][2] \in DOMAIN mail'[changes'[k][1]]
               /\ mail'[changes'[k][1]][changes'[k][2]].of = None
    <3>1. CASE k \in DOMAIN changes
      <4>1. changes'[k] = changes[k]
        BY <2>1, <3>1
      <4> QED
        BY <1>3, <2>2, <2>3, <3>1, <4>1 DEF Plain
    <3>2. CASE k \notin DOMAIN changes
      <4>1. \E t \in Threads : \E by \in {"buyer", "auto"} :
              Lands(t, by, None) /\ changes' = Append(changes, <<t, Len(mail[t]) + 1>>)
        <5>1. changes' # changes
          BY <3>2
        <5>2. ASSUME NEW t \in Threads, NEW i \in Intents, Lands(t, "agent", i) PROVE FALSE
          BY <1>3, <5>1, <5>2, LandsIs
        <5>3. ASSUME NEW t \in Threads, NEW by \in {"buyer", "auto", "seller"}, Lands(t, by, None)
              PROVE  by \in {"buyer", "auto"} /\ changes' = Append(changes, <<t, Len(mail[t]) + 1>>)
          BY <1>3, <5>1, <5>3, LandsIs
        <5> QED
          BY <1>1, <1>3, <5>1, <5>2, <5>3 DEF BazaarMoves, bazaar
      <4>2. PICK t \in Threads, by \in {"buyer", "auto"} :
              Lands(t, by, None) /\ changes' = Append(changes, <<t, Len(mail[t]) + 1>>)
        BY <4>1
      <4>3. /\ DOMAIN mail'[t] = 1..(Len(mail[t]) + 1)
            /\ mail'[t][Len(mail[t]) + 1] = [by |-> by, of |-> None]
        BY <4>2, LandsIs
      <4>4. <<t, Len(mail[t]) + 1>> \in Change /\ changes \in Seq(Change)
        BY <2>1 DEF Change, Numbers, RailTypes
      <4>5. changes'[k] = <<t, Len(mail[t]) + 1>>
        <5>1. Len(changes') = Len(changes) + 1
              /\ changes'[Len(changes) + 1] = <<t, Len(mail[t]) + 1>>
          BY <4>2, <4>4
        <5>2. k = Len(changes) + 1
          BY <2>1, <3>2, <5>1
        <5> QED
          BY <5>1, <5>2
      <4> QED
        BY <2>1, <4>3, <4>5
    <3> QED
      BY <3>1, <3>2
  <2> QED
    BY <1>1, <1>3, <2>4, <2>5 DEF Plain, Relay
<1> QED
  BY <1>2, <1>3

LEMMA PlainInit == Init => Plain
  BY DEF Init, Plain

\* A transcript shows a reply of ours once, whichever of the call, the lane's retry and the
\* lane's reading records it, and in which order (store/threads.py append_thread_message,
\* store/send.py commit_reply).
THEOREM ShownOnce == Spec => []SpokenOnce
<1>1. RailTypes /\ Plain => SpokenOnce
  <2> SUFFICES ASSUME RailTypes, Plain, NEW t \in Threads, NEW i \in folded[t], NEW n \in known[t],
                      mail[t][n].of = i
               PROVE  FALSE
    BY DEF SpokenOnce
  <2>1. i \in Intents
    BY DEF RailTypes
  <2>2. i # None
    BY <2>1, MailAssumption DEF None
  <2> QED
    BY <2>2 DEF Plain
<1>2. RailTypes /\ SendInv /\ Plain /\ [Next]_vars => Plain'
  BY PlainStep
<1> QED
  BY SendsHeld, PlainInit, <1>1, <1>2, PTL DEF Spec

-----------------------------------------------------------------------------
(* A thread and what it waits for.                                         *)

AskedOK(t) ==
    /\ ask[t].kind # None <=> stat[t] = "escalated"
    /\ ask[t].from # "escalated"
    /\ ask[t].kind = None => ask[t].from = None

Asked == \A t \in Threads : AskedOK(t)

Same(t) == stat'[t] = stat[t] /\ ask'[t].kind = ask[t].kind /\ ask'[t].from = ask[t].from
Starts(t) == /\ stat'[t] \in {"active", "closed"} /\ stat[t] # "escalated"
             /\ stat[t] = "closed" => stat'[t] = "closed"
             /\ ask'[t].kind = ask[t].kind /\ ask'[t].from = ask[t].from
AsksOf(t) == /\ ask[t].kind = None /\ stat'[t] = "escalated"
             /\ ask'[t].kind # None /\ ask'[t].from = stat[t]
Answers(t) == ask[t].kind # None /\ stat'[t] = ask[t].from /\ ask'[t] = NoAsk

LEMMA StatusStep ==
    ASSUME RailTypes, SendInv, [Next]_vars, NEW t \in Threads
    PROVE  Same(t) \/ Starts(t) \/ AsksOf(t) \/ Answers(t)
<1> DEFINE Goal == Same(t) \/ Starts(t) \/ AsksOf(t) \/ Answers(t)
<1>1. CASE UNCHANGED <<stat, ask>>
  BY <1>1 DEF Same
<1>2. ASSUME NEW i \in Intents, NEW u \in Threads, NEW id \in Numbers, NEW upTo,
             Commits(i, u, id, upTo)
      PROVE  Goal
  BY <1>2, CommitsIs DEF Same, Answers
<1>3. ASSUME NEW u \in Threads, NEW s \in {"active", "closed"}, UNCHANGED ask,
             stat' = [stat EXCEPT ![u] = s], stat[u] # "escalated", stat[u] = "closed" => s = "closed"
      PROVE  Goal
  <2>1. CASE u = t
    BY <1>3, <2>1 DEF RailTypes, Starts
  <2>2. CASE u # t
    BY <1>3, <2>2 DEF RailTypes, Same
  <2> QED
    BY <2>1, <2>2
<1>4. ASSUME NEW u \in Threads, NEW what \in {"question", "unconfirmed_send"}, Opens(u, what)
      PROVE  Goal
  <2>1. what # None
    BY DEF None
  <2>2. CASE u = t /\ ask[t].kind = None
    BY <1>4, <2>1, <2>2 DEF Opens, RailTypes, AsksOf, NoAsk
  <2>3. CASE ~(u = t /\ ask[t].kind = None)
    BY <1>4, <2>3 DEF Opens, RailTypes, Same
  <2> QED
    BY <2>2, <2>3
<1>5. CASE LaneStep
  <2>1. CASE GetThread
    <3>1. Here \in Threads /\ UNCHANGED ask
          /\ stat' = [stat EXCEPT ![Here] = IF stat[Here] = "none" THEN "active" ELSE stat[Here]]
      BY <2>1, PageTypes DEF GetThread, AtThread
    <3>2. CASE stat[Here] = "none"
      <4>1. stat' = [stat EXCEPT ![Here] = "active"]
        BY <3>1, <3>2
      <4> QED
        BY <1>3, <3>1, <3>2, <4>1
    <3>3. CASE stat[Here] # "none"
      <4>1. stat' = stat
        BY <3>1, <3>3 DEF RailTypes
      <4> QED
        BY <1>1, <3>1, <4>1
    <3> QED
      BY <3>2, <3>3
  <2>2. CASE RecordMessage
    <3> DEFINE n == lane.n + 1
               i == mail[Here][n].of
    <3>1. Here \in Threads /\ n \in Numbers /\ i \in Intents \cup {None}
      BY <2>2, NextLetter DEF SendInv, Letter
    <3>2. CASE i # None /\ intent[i].st \in Unsettled
      <4>1. Commits(i, Here, n, LastBuyer(Here, n)) /\ i \in Intents
        BY <2>2, <3>1, <3>2 DEF RecordMessage
      <4> HIDE DEF i, n
      <4> QED
        BY <1>2, <3>1, <4>1
    <3>3. CASE ~(i # None /\ intent[i].st \in Unsettled)
      BY <1>1, <2>2, <3>3 DEF RecordMessage
    <3> QED
      BY <3>2, <3>3
  <2>3. CASE FinishThread
    <3>1. Here \in Threads /\ UNCHANGED ask
      BY <2>3, PageTypes DEF FinishThread, AtThread
    <3>2. CASE lane.blk /\ stat[Here] # "escalated"
      <4>1. stat' = [stat EXCEPT ![Here] = "closed"]
        BY <2>3, <3>2 DEF FinishThread
      <4> QED
        BY <1>3, <3>1, <3>2, <4>1
    <3>3. CASE ~(lane.blk /\ stat[Here] # "escalated")
      <4>1. stat' = stat
        BY <2>3, <3>1, <3>3 DEF FinishThread, RailTypes
      <4> QED
        BY <1>1, <3>1, <4>1
    <3> QED
      BY <3>2, <3>3
  <2>4. CASE AppendMail
    <3>1. Here \in Threads /\ UNCHANGED ask
          /\ stat' = [stat EXCEPT ![Here] = IF stat[Here] = "none" THEN "active" ELSE stat[Here]]
      BY <2>4, PageTypes DEF AppendMail
    <3>2. CASE stat[Here] = "none"
      <4>1. stat' = [stat EXCEPT ![Here] = "active"]
        BY <3>1, <3>2
      <4> QED
        BY <1>3, <3>1, <3>2, <4>1
    <3>3. CASE stat[Here] # "none"
      <4>1. stat' = stat
        BY <3>1, <3>3 DEF RailTypes
      <4> QED
        BY <1>1, <3>1, <4>1
    <3> QED
      BY <3>2, <3>3
  <2>5. CASE RetrySettles
    <3>1. /\ Here \in Threads /\ Retrying \in Stored /\ Retrying \in Intents
          /\ intent[Retrying].on = Here
      BY <2>5, PageTypes DEF RetrySettles, SendInv, Retries, Retrying, Here, Stored
    <3>2. IdIn(mail[Here], Retrying) \in Numbers
      BY <3>1, FoundIn DEF SendInv
    <3> QED
      BY <1>1, <1>2, <2>5, <3>1, <3>2 DEF RetrySettles, threads
  <2>6. CASE Nudges
    <3>1. /\ stat' = stat
          /\ ask' = [u \in Threads |->
               IF Relay /\ ask[u].kind # None /\ ~ask[u].queued /\ News(u) # {}
               THEN [ask[u] EXCEPT !.told = Max(News(u)), !.queued = TRUE] ELSE ask[u]]
      BY <2>6 DEF Nudges, threads
    <3>2. ask[t] \in AskRow
      BY DEF RailTypes
    <3>3. \A a : [ask[t] EXCEPT !.told = a, !.queued = TRUE].kind = ask[t].kind
                 /\ [ask[t] EXCEPT !.told = a, !.queued = TRUE].from = ask[t].from
      BY <3>2 DEF AskRow
    <3>4. \/ ask'[t] = ask[t]
          \/ ask'[t] = [ask[t] EXCEPT !.told = Max(News(t)), !.queued = TRUE]
      BY <3>1
    <3>5. ask'[t].kind = ask[t].kind /\ ask'[t].from = ask[t].from
      BY <3>3, <3>4
    <3> QED
      BY <3>1, <3>5 DEF Same
  <2>7. CASE ListPage \/ LeaveUnplaced \/ GetThreadFails \/ SkipMail \/ MarkSeen \/ SetCursor
             \/ ToSends \/ RetryTaken \/ RetryRefused \/ LaneFails
    BY <1>1, <2>7 DEF ListPage, LeaveUnplaced, GetThreadFails, SkipMail, MarkSeen, SetCursor,
       ToSends, RetryTaken, RetryRefused, LaneFails, threads
  <2> QED
    BY <1>5, <2>1, <2>2, <2>3, <2>4, <2>5, <2>6, <2>7 DEF LaneStep
<1>6. ASSUME NEW u \in Threads, SendStep(u) \/ Claims(u)
      PROVE  Goal
  <2>1. CASE CommitReply(u)
    <3>1. call[u].of \in Intents /\ call[u].of \in Stored /\ intent[call[u].of].on = u
      BY <2>1 DEF CommitReply, SendInv, Calls, CallOK
    <3>2. IdIn(mail[u], call[u].of) \in Numbers
      BY <3>1, FoundIn DEF SendInv
    <3> QED
      BY <1>2, <2>1, <3>1, <3>2 DEF CommitReply
  <2> QED
    BY <1>1, <1>6, <2>1 DEF SendStep, ReserveReply, MarkUnverified, AttemptSent, AttemptLost,
       AttemptRefused, Claims, threads
<1>7. ASSUME NEW u \in Threads, NudgeDelivered(u)
      PROVE  Goal
  <2>1. stat' = stat /\ ask' = [ask EXCEPT ![u] = [ask[u] EXCEPT !.queued = FALSE]]
        /\ ask[u] \in AskRow
    BY <1>7 DEF NudgeDelivered, threads, RailTypes
  <2>2. [ask[u] EXCEPT !.queued = FALSE].kind = ask[u].kind
        /\ [ask[u] EXCEPT !.queued = FALSE].from = ask[u].from
    BY <2>1 DEF AskRow
  <2> QED
    BY <2>1, <2>2 DEF Same, RailTypes
<1>8. ASSUME NEW u \in Threads, SellerAnswers(u)
      PROVE  Goal
  <2>1. CASE u = t
    BY <1>8, <2>1 DEF SellerAnswers, RailTypes, Answers
  <2>2. CASE u # t
    BY <1>8, <2>2 DEF SellerAnswers, RailTypes, Same
  <2> QED
    BY <2>1, <2>2
<1>9. ASSUME NEW u \in Threads, Escalates(u)
      PROVE  Goal
  BY <1>4, <1>9 DEF Escalates
<1>10. ASSUME NEW i \in Intents, Sweep(i)
       PROVE  Goal
  <2>1. intent[i].on \in Threads /\ Opens(intent[i].on, "unconfirmed_send")
    BY <1>10 DEF Sweep, SendInv, Fates, FateOK
  <2> QED
    BY <1>4, <2>1
<1>11. CASE \/ Rings \/ Dies \/ UNCHANGED vars
            \/ \E u \in Threads : \/ \E by \in {"buyer", "auto", "seller"} : Writes(u, by)
                                  \/ Blocks(u) \/ Links(u)
            \/ \E i \in Intents : Ages(i)
  BY <1>1, <1>11 DEF Rings, Dies, vars, Writes, Blocks, Links, Ages, threads
<1> QED
  BY <1>5, <1>6, <1>7, <1>8, <1>9, <1>10, <1>11 DEF Next

LEMMA NoAskIs == NoAsk.kind = None /\ NoAsk.from = None /\ None # "escalated"
  BY DEF NoAsk, None

LEMMA AskedInit == Init => Asked
<1>1. "none" # "escalated"
  OBVIOUS
<1> QED
  BY <1>1, NoAskIs DEF Init, Asked, AskedOK

LEMMA AskedStep ==
    ASSUME RailTypes, SendInv, Asked, [Next]_vars
    PROVE  Asked'
<1> SUFFICES ASSUME NEW t \in Threads PROVE AskedOK(t)'
  BY DEF Asked
<1>1. AskedOK(t)
  BY DEF Asked
<1>2. Same(t) \/ Starts(t) \/ AsksOf(t) \/ Answers(t)
  BY StatusStep
<1> QED
  BY <1>1, <1>2, NoAskIs DEF AskedOK, Same, Starts, AsksOf, Answers

\* A closed thread stays closed, or waits on the seller to be closed again.
Closed(t) == "closed" \in {stat[t], ask[t].from}

LEMMA ClosedStays ==
    ASSUME RailTypes, SendInv, Asked, [Next]_vars, NEW t \in Threads, Closed(t)
    PROVE  Closed(t)'
<1>1. AskedOK(t) /\ None # "closed"
  BY DEF Asked, None
<1>2. Same(t) \/ Starts(t) \/ AsksOf(t) \/ Answers(t)
  BY StatusStep
<1> QED
  BY <1>1, <1>2 DEF AskedOK, Same, Starts, AsksOf, Answers, Closed

-----------------------------------------------------------------------------
(* The cursor never runs ahead of what was read.                           *)

\* bazaar lists what there is.
ListedOK(k) == /\ changes[k][1] \in Threads /\ changes[k][2] \in Nat
               /\ changes[k][2] <= Len(mail[changes[k][1]])
               /\ changes[k][2] = 0 => changes[k][1] \in blocked

Listed == \A k \in 1..Len(changes) : ListedOK(k)

LEMMA ListedStep ==
    ASSUME RailTypes, SendInv, Listed, [Next]_vars
    PROVE  Listed'
<1>1. BazaarMoves
  BY BazaarStep
<1>2. /\ \A u \in Threads : /\ Len(mail[u]) \in Nat /\ Len(mail'[u]) \in Nat
                            /\ Len(mail[u]) <= Len(mail'[u])
      /\ Len(changes) \in Nat /\ Len(changes') \in Nat
      /\ \A k \in 1..Len(changes) : changes'[k] = changes[k]
      /\ blocked \subseteq blocked' /\ changes \in Seq(Change)
  BY <1>1, BazaarGrows DEF RailTypes
<1>3. ASSUME NEW k \in 1..Len(changes) PROVE ListedOK(k)'
  <2>1. ListedOK(k) /\ changes'[k] = changes[k]
    BY <1>2, <1>3 DEF Listed
  <2> QED
    BY <1>2, <2>1 DEF ListedOK
<1>4. ASSUME NEW t \in Threads, NEW n \in Nat, changes' = Append(changes, <<t, n>>),
             n <= Len(mail'[t]), n = 0 => t \in blocked'
      PROVE  Listed'
  <2>1. <<t, n>> \in Change
    BY DEF Change, Numbers
  <2>2. Len(changes') = Len(changes) + 1 /\ changes'[Len(changes) + 1] = <<t, n>>
    BY <1>2, <1>4, <2>1
  <2>3. ASSUME NEW k \in 1..Len(changes'), k \notin 1..Len(changes)
        PROVE  ListedOK(k)'
    <3>1. k = Len(changes) + 1
      BY <1>2, <2>2, <2>3
    <3>2. changes'[k][1] = t /\ changes'[k][2] = n
      BY <2>2, <3>1
    <3> QED
      BY <1>4, <3>2 DEF ListedOK
  <2> QED
    BY <1>3, <2>3 DEF Listed
<1>5. CASE UNCHANGED changes
  BY <1>3, <1>5 DEF Listed
<1>6. ASSUME NEW t \in Threads, NEW by \in {"buyer", "auto", "seller", "agent"},
             NEW i \in Intents \cup {None}, Lands(t, by, i)
      PROVE  Listed'
  <2>1. /\ \/ UNCHANGED changes
           \/ changes' = Append(changes, <<t, Len(mail[t]) + 1>>)
        /\ DOMAIN mail'[t] = 1..(Len(mail[t]) + 1) /\ mail' \in [Threads -> Seq(Letter)]
    BY <1>6, LandsIs
  <2>2. Len(mail[t]) \in Nat /\ Len(mail'[t]) \in Nat /\ DOMAIN mail'[t] = 1..Len(mail'[t])
    BY <1>2, <2>1
  <2>3. Len(mail'[t]) = Len(mail[t]) + 1
    BY <2>1, <2>2
  <2>4. Len(mail[t]) + 1 \in Nat /\ Len(mail[t]) + 1 # 0 /\ Len(mail[t]) + 1 <= Len(mail'[t])
    BY <2>2, <2>3
  <2> QED
    BY <1>4, <1>5, <2>1, <2>4
<1>7. ASSUME NEW t \in Threads, blocked' = blocked \cup {t}, changes' = Append(changes, <<t, 0>>)
      PROVE  Listed'
  <2>1. t \in blocked' /\ 0 <= Len(mail'[t]) /\ 0 \in Nat
    BY <1>2, <1>7
  <2> QED
    BY <1>4, <1>7, <2>1
<1> QED
  BY <1>1, <1>5, <1>6, <1>7 DEF BazaarMoves, bazaar

\* What the cursor may leave behind.
Read(k) ==
    LET t == changes[k][1]
        n == changes[k][2]
    IN  IF ~Relay THEN changes[k] \in handled
        ELSE rereads[t] # "no" \/ n \in known[t] \/ (n = 0 /\ Closed(t))

Ahead == lane.at \in {"page", "mark"}      \* a page lies before the lane

Covers ==
    /\ \A k \in 1..cursor : Read(k)
    /\ lane.at # "idle" =>
         /\ cursor <= lane.next
         /\ \A k \in 1..lane.next : Read(k) \/ (Ahead /\ changes[k] \in On(lane.page))

\* Of the thread it is reading, the lane knows all that it listed.
Abreast ==
    /\ lane.got = 0 => lane.n = 0
    /\ AtThread /\ lane.got # 0 =>
         /\ lane.n <= lane.got /\ \A m \in 1..lane.n : m \in known[Here]
         /\ \A k \in 1..lane.next : changes[k][1] = Here =>
              changes[k][2] <= lane.got /\ (changes[k][2] = 0 => lane.blk)

\* What a page's step leaves of a thread that is kept for another look, or of a mail handled.
LEMMA ReadStays ==
    ASSUME RailTypes, SendInv, Asked, Listed, [Next]_vars, NEW k \in 1..Len(changes), Read(k),
           handled \subseteq handled',
           rereads'[changes[k][1]] # "no" \/ rereads'[changes[k][1]] = rereads[changes[k][1]]
    PROVE  Read(k)'
<1>1. BazaarMoves /\ Relay' = Relay
  BY BazaarStep, KindStays DEF Relay
<1>2. changes'[k] = changes[k] /\ changes[k][1] \in Threads
  BY <1>1, BazaarGrows DEF Listed, ListedOK
<1>3. known[changes[k][1]] \subseteq known'[changes[k][1]]
  BY <1>2, TranscriptStep
<1>4. Closed(changes[k][1]) => Closed(changes[k][1])'
  BY <1>2, ClosedStays
<1>5. Closed(changes[k][1])' <=> "closed" \in {stat'[changes'[k][1]], ask'[changes'[k][1]].from}
  BY <1>2 DEF Closed
<1>6. CASE ~Relay
  BY <1>1, <1>2, <1>6 DEF Read
<1>7. CASE Relay
  <2>1. Read(k)' <=> \/ rereads'[changes[k][1]] # "no" \/ changes[k][2] \in known'[changes[k][1]]
                     \/ changes[k][2] = 0 /\ "closed" \in {stat'[changes[k][1]], ask'[changes[k][1]].from}
    BY <1>1, <1>2, <1>7 DEF Read, Closed
  <2> QED
    BY <1>2, <1>3, <1>4, <1>5, <1>7, <2>1 DEF Read
<1> QED
  BY <1>6, <1>7

LEMMA LaneHeldStep ==
    ASSUME RailTypes, SendInv, Asked, Listed, Covers, Abreast, [Next]_vars,
           UNCHANGED <<lane, cursor, rereads, handled>>
    PROVE  Covers' /\ Abreast'
<1>1. /\ BazaarMoves /\ Relay' = Relay /\ Reading /\ lane' = lane /\ On(lane.page)' = On(lane.page)
      /\ lane.next \in Nat /\ lane.n \in Nat /\ lane.got \in Nat /\ cursor \in Nat
  BY BazaarStep, KindStays DEF Relay, SendInv, On, RailTypes, LaneRow, Numbers
<1>2. /\ Len(changes) \in Nat /\ \A k \in 1..Len(changes) : changes'[k] = changes[k]
  BY <1>1, BazaarGrows
<1>3. \A k \in 1..Len(changes) : Read(k) => Read(k)'
  BY ReadStays
<1>4. cursor <= Len(changes) /\ (lane.at # "idle" => lane.next <= Len(changes))
  BY <1>1 DEF Reading
<1>5. \A k \in 1..cursor : Read(k)'
  BY <1>1, <1>2, <1>3, <1>4 DEF Covers
<1>6. ASSUME lane.at # "idle", NEW k \in 1..lane.next
      PROVE  Read(k)' \/ (Ahead /\ changes'[k] \in On(lane.page))
  <2>1. k \in 1..Len(changes)
    BY <1>1, <1>2, <1>4, <1>6
  <2> QED
    BY <1>2, <1>3, <1>6, <2>1 DEF Covers
<1>7. Covers'
  BY <1>1, <1>5, <1>6 DEF Covers, Ahead
<1>8. Abreast'
  <2>1. Here' = Here /\ AtThread' = AtThread
    BY <1>1 DEF Here, AtThread
  <2>2. ASSUME AtThread, lane.got # 0
        PROVE  /\ \A m \in 1..lane.n : m \in known'[Here]
               /\ \A k \in 1..lane.next : changes'[k][1] = Here =>
                    changes'[k][2] <= lane.got /\ (changes'[k][2] = 0 => lane.blk)
    <3>1. Here \in Threads /\ lane.at # "idle"
      BY <2>2, PageTypes DEF AtThread
    <3>2. known[Here] \subseteq known'[Here]
      BY <3>1, TranscriptStep
    <3>3. \A k \in 1..lane.next : changes'[k] = changes[k]
      BY <1>1, <1>2, <1>4, <3>1
    <3> QED
      BY <2>2, <3>2, <3>3 DEF Abreast
  <2> QED
    BY <1>1, <2>1, <2>2 DEF Abreast
<1> QED
  BY <1>7, <1>8

\* A thread that is left, kept for another look or read to its end.
LEMMA TurnCovers ==
    ASSUME RailTypes, SendInv, Asked, Listed, Covers, Abreast, [Next]_vars, UNCHANGED cursor,
           lane.page # <<>>, lane.at # "idle", NEW to \in {"page", "reread", "sends"},
           lane' = Turn(to), Ahead => to = "page",
           \A k \in 1..lane.next : Read(k) => Read(k)',
           \A k \in 1..lane.next : Ahead /\ changes[k] = lane.page[1] => Read(k)'
    PROVE  Covers' /\ Abreast'
<1>1. /\ lane'.at = to /\ lane'.page = Tail(lane.page) /\ lane'.next = lane.next
      /\ lane'.got = 0 /\ lane'.n = 0
  BY DEF Turn
<1>2. /\ lane.page \in Seq(Entry) /\ BazaarMoves /\ Reading
      /\ lane.next \in Nat /\ cursor \in Nat /\ lane.next <= Len(changes)
  BY BazaarStep DEF RailTypes, SendInv, Reading, LaneRow, Numbers
<1>3. /\ Len(changes) \in Nat /\ \A k \in 1..Len(changes) : changes'[k] = changes[k]
  BY <1>2, BazaarGrows
<1>4. \A x \in On(lane.page) : x = lane.page[1] \/ x \in On(Tail(lane.page))
  BY <1>2, ListTail
<1>5. On(lane.page)' = On(Tail(lane.page))
  BY <1>1 DEF On
<1>6. cursor <= lane.next
  BY DEF Covers
<1>7. \A k \in 1..cursor : Read(k)'
  BY <1>2, <1>6 DEF Covers
<1>8. ASSUME NEW k \in 1..lane.next
      PROVE  Read(k)' \/ (Ahead' /\ changes'[k] \in On(lane.page)')
  <2>1. changes'[k] = changes[k]
    BY <1>2, <1>3, <1>8
  <2>2. CASE Read(k)
    BY <1>8, <2>2
  <2>3. CASE Ahead /\ changes[k] \in On(lane.page)
    <3>1. Ahead'
      BY <1>1, <2>3 DEF Ahead
    <3> QED
      BY <1>4, <1>5, <1>8, <2>1, <2>3, <3>1
  <2> QED
    BY <1>8, <2>2, <2>3 DEF Covers
<1> QED
  BY <1>1, <1>6, <1>7, <1>8 DEF Covers, Abreast

\* Nothing lies before the lane and all it listed is read.
LEMMA LeftCovers ==
    ASSUME Abreast, Covers, \A k \in 1..cursor : Read(k)', UNCHANGED cursor,
           lane' = Resting \/ lane' = Started, cursor \in Nat
    PROVE  Covers' /\ Abreast'
<1>1. /\ lane'.at \in {"idle", "list"} /\ lane'.got = 0 /\ lane'.n = 0
      /\ lane'.at = "list" => lane'.next = cursor
  BY RestingIs DEF Started, Resting
<1> QED
  BY <1>1 DEF Covers, Abreast, AtThread

\* A step that stays at the same mail or thread.
LEMMA StayCovers ==
    ASSUME RailTypes, SendInv, Asked, Listed, Covers, [Next]_vars,
           UNCHANGED <<cursor, rereads, handled>>, lane.at # "idle",
           lane'.page = lane.page, lane'.next = lane.next, lane'.at # "idle", Ahead => Ahead'
    PROVE  Covers'
<1>1. /\ BazaarMoves /\ Reading /\ On(lane.page)' = On(lane.page)
      /\ lane.next \in Nat /\ cursor \in Nat /\ lane.next <= Len(changes)
  BY BazaarStep DEF SendInv, Reading, On, RailTypes, LaneRow, Numbers
<1>2. /\ Len(changes) \in Nat /\ \A k \in 1..Len(changes) : changes'[k] = changes[k]
  BY <1>1, BazaarGrows
<1>3. \A k \in 1..Len(changes) : Read(k) => Read(k)'
  BY ReadStays
<1>4. cursor <= lane.next
  BY DEF Covers
<1>5. \A k \in 1..lane.next : k \in 1..Len(changes)
  BY <1>1, <1>2
<1>6. \A k \in 1..cursor : Read(k)'
  BY <1>1, <1>2, <1>3, <1>4, <1>5 DEF Covers
<1>7. \A k \in 1..lane.next : Read(k)' \/ (Ahead' /\ changes'[k] \in On(lane.page)')
  BY <1>1, <1>2, <1>3, <1>5 DEF Covers
<1> QED
  BY <1>4, <1>6, <1>7 DEF Covers

LEMMA LaneCoversStep ==
    ASSUME RailTypes, SendInv, Asked, Listed, Covers, Abreast, LaneStep
    PROVE  Covers' /\ Abreast'
<1> USE DEF fixed, bazaar, threads, sends, marks
<1>1. /\ [Next]_vars /\ BazaarMoves /\ Relay' = Relay /\ Reading /\ lane \in LaneRow
      /\ lane.next \in Nat /\ lane.n \in Nat /\ lane.got \in Nat /\ cursor \in Nat
      /\ cursor <= Len(changes)
  <2>1. [Next]_vars
    BY DEF Next
  <2> QED
    BY <2>1, BazaarStep, KindStays DEF Relay, SendInv, Reading, RailTypes, LaneRow, Numbers
<1>2. /\ Len(changes) \in Nat /\ \A k \in 1..Len(changes) : changes'[k] = changes[k]
  BY <1>1, BazaarGrows
<1>3. ASSUME UNCHANGED <<rereads, handled>>, NEW k \in 1..Len(changes), Read(k)
      PROVE  Read(k)'
  BY <1>1, <1>3, ReadStays
<1>4. lane.at # "idle" => lane.next <= Len(changes) /\ \A k \in 1..lane.next : k \in 1..Len(changes)
  BY <1>1, <1>2 DEF Reading
<1>5. \A k \in 1..cursor : k \in 1..Len(changes) /\ Read(k)
  BY <1>1, <1>2 DEF Covers
\* A thread or mail passed: what the cursor counts on is still so.
<1>6. CASE LeaveUnplaced \/ GetThreadFails
  <2>1. /\ AtThread /\ lane' = Turn(lane.at) /\ UNCHANGED <<cursor, handled>>
        /\ \E how \in {"unplaced", "placed"} : rereads' = [rereads EXCEPT ![Here] = how]
    BY <1>6 DEF LeaveUnplaced, GetThreadFails, Reread
  <2>2. /\ lane.at \in {"page", "reread"} /\ lane.page # <<>> /\ Here \in Threads /\ Relay
        /\ lane.at # "idle"
    BY <2>1, PageTypes DEF AtThread
  <2>3. /\ rereads'[Here] # "no"
        /\ \A t \in Threads : rereads'[t] # "no" \/ rereads'[t] = rereads[t]
    BY <2>1, <2>2 DEF RailTypes
  <2>4. \A k \in 1..lane.next : changes[k][1] \in Threads
    BY <1>4, <2>2 DEF Listed, ListedOK
  <2>5. \A k \in 1..lane.next : Read(k) => Read(k)'
    BY <1>1, <1>4, <2>1, <2>2, <2>3, <2>4, ReadStays
  <2>6. ASSUME NEW k \in 1..lane.next, changes[k] = lane.page[1] PROVE Read(k)'
    <3>1. changes'[k] = changes[k] /\ changes[k][1] = Here
      BY <1>2, <1>4, <2>2, <2>6 DEF Here
    <3> QED
      BY <1>1, <2>2, <2>3, <3>1 DEF Read
  <2>7. Ahead => lane.at = "page"
    BY <2>2 DEF Ahead
  <2> QED
    BY <1>1, <2>1, <2>2, <2>5, <2>6, <2>7, TurnCovers
<1>7. CASE FinishThread
  <2> DEFINE settled == ~lane.blk \/ stat[Here] # "escalated"
  <2>1. /\ AtThread /\ lane.got # 0 /\ lane.n = lane.got /\ lane' = Turn(lane.at)
        /\ UNCHANGED <<cursor, handled, known, ask>>
        /\ rereads' = [rereads EXCEPT ![Here] = IF settled THEN "no" ELSE "placed"]
        /\ stat' = [stat EXCEPT ![Here] = IF lane.blk /\ settled THEN "closed" ELSE stat[Here]]
    BY <1>7 DEF FinishThread, Reread
  <2>2. /\ lane.at \in {"page", "reread"} /\ lane.page # <<>> /\ Here \in Threads /\ Relay
        /\ lane.at # "idle"
    BY <2>1, PageTypes DEF AtThread
  <2>3. /\ rereads'[Here] = IF settled THEN "no" ELSE "placed"
        /\ \A t \in Threads : t # Here => rereads'[t] = rereads[t]
        /\ lane.blk /\ settled => stat'[Here] = "closed"
    BY <2>1, <2>2 DEF RailTypes
  <2>4. /\ \A m \in 1..lane.n : m \in known[Here]
        /\ \A k \in 1..lane.next : changes[k][1] = Here =>
             changes[k][2] <= lane.got /\ (changes[k][2] = 0 => lane.blk)
    BY <2>1 DEF Abreast
  <2>5. ASSUME NEW k \in 1..lane.next, changes[k][1] = Here PROVE Read(k)'
    <3>1. changes'[k] = changes[k] /\ changes[k][2] \in Nat
      BY <1>2, <1>4, <2>2 DEF Listed, ListedOK
    <3>2. CASE ~settled
      <4>1. rereads'[changes'[k][1]] # "no"
        BY <2>3, <2>5, <3>1, <3>2
      <4> QED
        BY <1>1, <2>2, <4>1 DEF Read
    <3>3. CASE changes[k][2] # 0
      <4>1. changes[k][2] \in 1..lane.n
        BY <1>1, <2>1, <2>4, <2>5, <3>1, <3>3
      <4>2. changes'[k][2] \in known'[changes'[k][1]]
        BY <2>1, <2>4, <2>5, <3>1, <4>1
      <4> QED
        BY <1>1, <2>2, <4>2 DEF Read
    <3>4. CASE settled /\ changes[k][2] = 0
      <4>1. stat'[changes'[k][1]] = "closed"
        BY <2>3, <2>4, <2>5, <3>1, <3>4
      <4>2. changes'[k][2] = 0
        BY <3>1, <3>4
      <4> QED
        BY <1>1, <2>2, <4>1, <4>2 DEF Read, Closed
    <3> QED
      BY <3>2, <3>3, <3>4
  <2>6. ASSUME NEW k \in 1..lane.next, changes[k][1] # Here, Read(k) PROVE Read(k)'
    <3>1. changes[k][1] \in Threads /\ k \in 1..Len(changes)
      BY <1>4, <2>2, <2>6 DEF Listed, ListedOK
    <3>2. rereads'[changes[k][1]] = rereads[changes[k][1]]
      BY <2>3, <2>6, <3>1
    <3> QED
      BY <1>1, <2>1, <2>6, <3>1, <3>2, ReadStays
  <2>7. \A k \in 1..lane.next : Read(k) => Read(k)'
    BY <2>5, <2>6
  <2>8. \A k \in 1..lane.next : changes[k] = lane.page[1] => Read(k)'
    BY <2>5 DEF Here
  <2>9. Ahead => lane.at = "page"
    BY <2>2 DEF Ahead
  <2> QED
    BY <1>1, <2>1, <2>2, <2>7, <2>8, <2>9, TurnCovers
<1>8. CASE SkipMail \/ MarkSeen
  <2>1. /\ ~Relay /\ lane.page # <<>> /\ lane.at \in {"page", "mark"} /\ lane' = Turn("page")
        /\ handled' = handled \cup {lane.page[1]} /\ UNCHANGED <<cursor, rereads>>
    BY <1>1, <1>8 DEF SkipMail, MarkSeen, Reading, MailHere
  <2>2. lane.at # "idle" /\ handled \subseteq handled'
    BY <2>1
  <2>3. \A k \in 1..lane.next : Read(k) => Read(k)'
    BY <1>1, <1>4, <2>1, <2>2, ReadStays
  <2>4. ASSUME NEW k \in 1..lane.next, changes[k] = lane.page[1] PROVE Read(k)'
    <3>1. changes'[k] = lane.page[1]
      BY <1>2, <1>4, <2>2, <2>4
    <3> QED
      BY <1>1, <2>1, <3>1 DEF Read
  <2> QED
    BY <1>1, <2>1, <2>2, <2>3, <2>4, TurnCovers
<1>9. CASE RetrySettles \/ RetryRefused
  <2>1. /\ lane.page # <<>> /\ lane.at \in {"sends", "settle"} /\ lane' = Turn("sends")
        /\ UNCHANGED <<cursor, rereads, handled>>
    BY <1>9 DEF RetrySettles, RetryRefused, SendInv, Retries
  <2>2. lane.at # "idle" /\ ~Ahead
    BY <2>1 DEF Ahead
  <2>3. \A k \in 1..lane.next : Read(k) => Read(k)'
    BY <1>3, <1>4, <2>1, <2>2
  <2> QED
    BY <1>1, <2>1, <2>2, <2>3, TurnCovers
<1>10. CASE Nudges \/ LaneFails
  <2>1. lane' = Resting /\ UNCHANGED <<cursor, rereads, handled>>
    BY <1>10 DEF Nudges, LaneFails
  <2>2. \A k \in 1..cursor : Read(k)'
    BY <1>3, <1>5, <2>1
  <2> QED
    BY <1>1, <2>1, <2>2, LeftCovers
<1>11. CASE GetThread
  <2>1. /\ AtThread /\ lane.got = 0 /\ UNCHANGED <<cursor, rereads, handled, changes, known>>
        /\ lane' = [lane EXCEPT !.got = Len(mail[Here]), !.blk = Here \in blocked]
    BY <1>11 DEF GetThread
  <2>2. /\ lane'.at = lane.at /\ lane'.page = lane.page /\ lane'.next = lane.next
        /\ lane'.n = lane.n /\ lane'.got = Len(mail[Here]) /\ lane'.blk = (Here \in blocked)
    BY <1>1, <2>1 DEF LaneRow
  <2>3. lane.at # "idle" /\ Here' = Here /\ Here \in Threads /\ (Ahead => Ahead')
    BY <2>1, <2>2, PageTypes DEF AtThread, Here, Ahead
  <2>4. Covers'
    BY <1>1, <2>1, <2>2, <2>3, StayCovers
  <2>5. lane.n = 0
    BY <2>1 DEF Abreast
  <2>6. Len(mail[Here]) \in Nat
    BY <1>1, <2>3, BazaarGrows
  <2>7. ASSUME NEW k \in 1..lane.next, changes[k][1] = Here
        PROVE  changes'[k][2] <= lane'.got /\ (changes'[k][2] = 0 => lane'.blk)
    <3>1. changes[k][2] <= Len(mail[Here]) /\ (changes[k][2] = 0 => Here \in blocked)
      BY <1>4, <2>3, <2>7 DEF Listed, ListedOK
    <3> QED
      BY <2>1, <2>2, <3>1
  <2>8. Abreast'
    <3>1. lane'.n = 0 /\ 0 <= lane'.got /\ \A m \in 1..lane'.n : m \in known'[Here]
      BY <2>2, <2>5, <2>6
    <3>2. lane'.next = lane.next /\ Here' = Here /\ changes' = changes
      BY <2>1, <2>2, <2>3
    <3> QED
      BY <2>7, <3>1, <3>2 DEF Abreast
  <2> QED
    BY <2>4, <2>8
<1>12. CASE RecordMessage
  <2>1. /\ AtThread /\ lane.n < lane.got /\ UNCHANGED <<cursor, rereads, handled, changes>>
        /\ lane' = [lane EXCEPT !.n = lane.n + 1]
    BY <1>12 DEF RecordMessage
  <2>2. /\ lane'.at = lane.at /\ lane'.page = lane.page /\ lane'.next = lane.next
        /\ lane'.n = lane.n + 1 /\ lane'.got = lane.got /\ lane'.blk = lane.blk
    BY <1>1, <2>1 DEF LaneRow
  <2>3. /\ lane.at # "idle" /\ Here' = Here /\ Here \in Threads /\ (Ahead => Ahead') /\ lane.got # 0
        /\ AtThread' = AtThread /\ Relay
    BY <1>1, <2>1, <2>2, PageTypes DEF AtThread, Here, Ahead
  <2>4. Covers'
    BY <1>1, <2>1, <2>2, <2>3, StayCovers
  <2>5. known[Here] \subseteq known'[Here]
    BY <1>1, <2>3, TranscriptStep
  <2>6. lane.n + 1 \in known'[Here]
    <3> DEFINE n == lane.n + 1
               i == mail[Here][n].of
    <3>1. n \in Numbers /\ i \in Intents \cup {None}
      BY <1>12, NextLetter DEF SendInv, Letter
    <3>2. CASE i # None /\ intent[i].st \in Unsettled
      <4>1. Commits(i, Here, n, LastBuyer(Here, n)) /\ i \in Intents
        BY <1>12, <3>1, <3>2 DEF RecordMessage
      <4> HIDE DEF i, n
      <4>2. known'[Here] = known[Here] \cup {n}
        BY <2>3, <3>1, <4>1, CommitsIs
      <4> QED
        BY <4>2 DEF n
    <3>3. CASE ~(i # None /\ intent[i].st \in Unsettled)
      <4>1. known' = [known EXCEPT ![Here] = known[Here] \cup {n}]
        BY <1>12, <3>3 DEF RecordMessage
      <4> QED
        BY <2>3, <4>1 DEF RailTypes
    <3> QED
      BY <3>2, <3>3
  <2>7. \A m \in 1..(lane.n + 1) : m \in known'[Here]
    <3>1. \A m \in 1..(lane.n + 1) : m \in 1..lane.n \/ m = lane.n + 1
      BY <1>1
    <3>2. \A m \in 1..lane.n : m \in known[Here]
      BY <2>1, <2>3 DEF Abreast
    <3> QED
      BY <2>5, <2>6, <3>1, <3>2
  <2>8. lane.n + 1 <= lane.got
    BY <1>1, <2>1
  <2>9. Abreast'
    BY <2>1, <2>2, <2>3, <2>7, <2>8 DEF Abreast
  <2> QED
    BY <2>4, <2>9
<1>13. CASE AppendMail \/ RetryTaken
  <2>1. /\ lane.at \in {"page", "sends"} /\ UNCHANGED <<cursor, rereads, handled>>
        /\ \/ lane.at = "page" /\ ~Relay /\ lane' = [lane EXCEPT !.at = "mark"]
           \/ lane.at = "sends" /\ lane' = [lane EXCEPT !.at = "settle"]
    BY <1>13 DEF AppendMail, RetryTaken
  <2>2. /\ lane'.page = lane.page /\ lane'.next = lane.next /\ lane'.n = lane.n
        /\ lane'.got = lane.got /\ lane'.at \in {"mark", "settle"}
        /\ lane.at = "page" => lane'.at = "mark"
    BY <1>1, <2>1 DEF LaneRow
  <2>3. Covers'
    <3>1. lane.at # "idle" /\ lane'.at # "idle" /\ (Ahead => Ahead')
      BY <2>1, <2>2 DEF Ahead
    <3> QED
      BY <1>1, <2>1, <2>2, <3>1, StayCovers
  <2>4. Abreast'
    BY <2>2 DEF Abreast, AtThread
  <2> QED
    BY <2>3, <2>4
<1>14. CASE SetCursor \/ ToSends
  <2>1. /\ lane.at \in {"page", "reread"} /\ lane.page = <<>> /\ UNCHANGED <<rereads, handled, changes>>
        /\ cursor' = lane.next \/ cursor' = cursor
        /\ lane.at = "reread" => ~Ahead
    BY <1>14 DEF SetCursor, ToSends, Ahead
  <2>2. On(lane.page) = {}
    BY <2>1 DEF On
  <2>3. lane.at # "idle" /\ lane.got = 0 /\ lane.n = 0
    BY <1>1, <2>1 DEF Reading, Abreast
  <2>4. \A k \in 1..lane.next : Read(k)'
    BY <1>3, <1>4, <2>1, <2>2, <2>3 DEF Covers
  <2>5. cursor <= lane.next /\ lane.next <= lane.next
    BY <1>1, <2>3 DEF Covers
  <2>6. lane'.next = lane.next /\ lane'.got = 0 /\ lane'.n = 0
    <3>1. CASE SetCursor
      <4>1. CASE lane.full
        BY <1>1, <2>3, <3>1, <4>1 DEF SetCursor, LaneRow
      <4>2. CASE ~lane.full
        BY <1>1, <2>3, <3>1, <4>2 DEF SetCursor, LaneRow
      <4> QED
        BY <4>1, <4>2
    <3>2. CASE ToSends
      BY <1>1, <2>3, <3>2 DEF ToSends, LaneRow
    <3> QED
      BY <1>14, <3>1, <3>2
  <2>7. \A k \in 1..cursor' : k \in 1..lane.next
    BY <1>1, <2>1, <2>5
  <2> QED
    BY <2>1, <2>4, <2>5, <2>6, <2>7 DEF Covers, Abreast
<1>15. CASE ListPage
  <2> DEFINE page == SubSeq(changes, lane.next + 1, Min({Len(changes), lane.next + PageSize}))
  <2>1. /\ lane.at = "list" /\ UNCHANGED <<changes, cursor, rereads, handled>>
        /\ lane' = [lane EXCEPT !.at = "page", !.page = page, !.full = Len(page) = PageSize,
                                !.next = lane.next + Len(page)]
    BY <1>15 DEF ListPage
  <2>2. /\ lane.next <= Len(changes) /\ lane.got = 0 /\ lane.n = 0 /\ ~Ahead
        /\ changes \in Seq(Change) /\ PageSize \in Nat \ {0}
    BY <1>1, <2>1, MailAssumption DEF Reading, Abreast, Ahead, RailTypes
  <2>3. PageOf(page, Change, changes, lane.next)
    BY <1>1, <2>2, PageIs
  <2> HIDE DEF page
  <2>4. /\ Len(page) \in Nat /\ DOMAIN page = 1..Len(page)
        /\ \A k \in 1..Len(page) : page[k] = changes[lane.next + k]
    BY <2>3 DEF PageOf
  <2>5. /\ lane'.at = "page" /\ lane'.page = page /\ lane'.got = 0 /\ lane'.n = 0
        /\ lane'.next = lane.next + Len(page)
    BY <1>1, <2>1, <2>2 DEF LaneRow
  <2>6. \A k \in 1..cursor : Read(k)'
    BY <1>3, <1>5, <2>1
  <2>7. cursor <= lane.next /\ cursor <= lane'.next
    BY <1>1, <2>1, <2>4, <2>5 DEF Covers
  <2>8. ASSUME NEW k \in 1..lane'.next
        PROVE  Read(k)' \/ (Ahead' /\ changes'[k] \in On(lane.page)')
    <3>1. CASE k \in 1..lane.next
      BY <1>3, <1>4, <2>1, <2>2, <3>1 DEF Covers
    <3>2. CASE k \notin 1..lane.next
      <4>1. k - lane.next \in 1..Len(page) /\ lane.next + (k - lane.next) = k
        BY <1>1, <2>4, <2>5, <2>8, <3>2
      <4>2. page[k - lane.next] = changes[k]
        BY <2>4, <4>1
      <4> QED
        BY <2>1, <2>4, <2>5, <4>1, <4>2 DEF On, Ahead
    <3> QED
      BY <3>1, <3>2
  <2>9. Covers'
    BY <2>1, <2>6, <2>7, <2>8 DEF Covers
  <2> QED
    BY <2>5, <2>9 DEF Abreast
<1> QED
  BY <1>6, <1>7, <1>8, <1>9, <1>10, <1>11, <1>12, <1>13, <1>14, <1>15 DEF LaneStep

CoverInv == Asked /\ Listed /\ Covers /\ Abreast

LEMMA CoverInvStep ==
    ASSUME RailTypes, SendInv, CoverInv, [Next]_vars
    PROVE  CoverInv'
<1>1. Asked /\ Listed /\ Covers /\ Abreast
  BY DEF CoverInv
<1>2. Asked' /\ Listed'
  BY <1>1, AskedStep, ListedStep
<1>3. CASE LaneStep
  BY <1>1, <1>2, <1>3, LaneCoversStep DEF CoverInv
<1>4. CASE UNCHANGED <<lane, cursor, rereads, handled>>
  BY <1>1, <1>2, <1>4, LaneHeldStep DEF CoverInv
<1>5. CASE Rings \/ Dies
  <2>1. /\ UNCHANGED <<cursor, rereads, handled>> /\ cursor \in Nat /\ cursor <= Len(changes)
        /\ Len(changes) \in Nat
    BY <1>5 DEF Rings, Dies, marks, SendInv, Reading, RailTypes, Numbers
  <2>2. \A k \in 1..cursor : k \in 1..Len(changes) /\ Read(k)
    BY <1>1, <2>1 DEF Covers
  <2>3. \A k \in 1..cursor : Read(k)'
    BY <1>1, <2>1, <2>2, ReadStays
  <2>4. lane' = Resting \/ lane' = Started
    BY <1>5 DEF Rings, Dies
  <2> QED
    BY <1>1, <1>2, <2>1, <2>3, <2>4, LeftCovers DEF CoverInv
<1>6. \/ LaneStep \/ Rings \/ Dies \/ UNCHANGED <<lane, cursor, rereads, handled>>
  BY DEF Next, Writes, Blocks, Links, SendStep, ReserveReply, MarkUnverified, AttemptSent,
     AttemptLost, AttemptRefused, CommitReply, Claims, NudgeDelivered, Escalates, SellerAnswers,
     Ages, Sweep, vars, marks
<1> QED
  BY <1>3, <1>4, <1>5, <1>6

LEMMA CoverInvInit == Init => CoverInv
<1> SUFFICES ASSUME Init PROVE CoverInv
  OBVIOUS
<1>1. cursor = 0 /\ Len(changes) = 0 /\ lane = Resting
  BY DEF Init
<1>2. 1..0 = {}
  OBVIOUS
<1> QED
  BY <1>1, <1>2, AskedInit, RestingIs DEF CoverInv, Listed, Covers, Abreast, AtThread

\* What bazaar will not list again has been read: stored, or its thread is kept to be read
\* again; a registration mail is stored or was about a post nobody managed.  Through crashes
\* between any two transactions and threads that fail to read (rail/inbox.py relay_lane,
\* rail/registration.py registration_lane).
THEOREM CursorCovered == Spec => []CursorCovers
<1>1. RailTypes /\ CoverInv => CursorCovers
  BY DEF CoverInv, Covers, Read, Closed, CursorCovers
<1>2. RailTypes /\ SendInv /\ CoverInv /\ [Next]_vars => CoverInv'
  BY CoverInvStep
<1> QED
  BY SendsHeld, CoverInvInit, <1>1, <1>2, PTL DEF Spec
=============================================================================
