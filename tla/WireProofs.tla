----------------------------- MODULE WireProofs -----------------------------
(***************************************************************************)
(* Proofs about ChannelWire, for any bots of the two services, any number  *)
(* of connects, crashes and words: who is listened to, how often a bot     *)
(* greets and, where the seller keeps to one Telegram bot, that nothing    *)
(* they said to it is discarded unread.                                    *)
(***************************************************************************)
EXTENDS ChannelWire, TLAPS

Numbers == Nat
Rows    == [bot : Bots \cup {None}, chat : {None, Seller}, offset : Numbers, nonce : Numbers,
            welcomed : BOOLEAN, menu : BOOLEAN]
Polls   == [at : {"idle", "menu", "asked", "got", "greet"}, bot : Bots \cup {None},
            chat : {None, Seller}, nonce : Numbers, offset : Numbers, last : Numbers]
Gates   == [at : {"down", "up", "greet"}, bot : Bots \cup {None}]
Words   == [from : People, nonce : Numbers, under : Numbers]

\* What the wire's variables may hold.
WireTypes ==
    /\ row \in Rows /\ poll \in Polls
    /\ armed \in Numbers /\ lapsed \subseteq 1..armed
    /\ token \in [{"telegram", "discord"} -> Bots \cup {None}]
    /\ token["telegram"] \in TelegramBots \cup {None}
    /\ token["discord"] \in DiscordBots \cup {None}
    /\ connecting \in [at : {"none", "written", "armed"}, bot : Bots \cup {None}]
    /\ connecting.at # "none" => connecting.bot \in Bots
    /\ updates \in [TelegramBots -> Seq(Words)]
    /\ acked \in [TelegramBots -> Numbers]
    /\ \A e \in stored : e.bot \in Bots /\ e.from \in People

\* A tick in flight asked a Telegram bot; an open session is a Discord bot's.
WireEnds ==
    /\ poll.at \in {"menu", "asked", "got"} => poll.bot \in TelegramBots
    /\ poll.at = "got" =>
         /\ Base[poll.bot] < poll.offset /\ poll.last <= Last(poll.bot)
         /\ poll.offset <= poll.last
    /\ gate \in Gates /\ (gate.at # "down" => gate.bot \in DiscordBots)
    /\ \A b \in TelegramBots : Base[b] <= acked[b]

\* Whoever presents the armed nonce while it is worth something is the seller.
NonceIsSellers ==
    /\ row.nonce <= armed
    /\ \A b \in TelegramBots : \A i \in DOMAIN updates[b] :
         /\ updates[b][i].nonce <= armed
         /\ NonceLive(row) /\ updates[b][i].nonce = row.nonce => updates[b][i].from = Seller

StrangerInv == WireTypes /\ WireEnds /\ NonceIsSellers /\ NeverAStranger

\* Every word said was said before, or has just been said.
LEMMA SaysOne ==
    ASSUME WireTypes, NEW b \in TelegramBots, NEW w \in Words,
           updates' = [updates EXCEPT ![b] = Append(@, w)]
    PROVE  /\ updates' \in [TelegramBots -> Seq(Words)]
           /\ Len(updates'[b]) = Len(updates[b]) + 1
           /\ \A c \in TelegramBots : c # b => updates'[c] = updates[c]
           /\ \A i \in DOMAIN updates[b] : updates'[b][i] = updates[b][i]
           /\ \A i \in DOMAIN updates'[b] :
                i \in DOMAIN updates[b] \/ (i = Len(updates[b]) + 1 /\ updates'[b][i] = w)
<1>1. updates \in [TelegramBots -> Seq(Words)] /\ updates[b] \in Seq(Words)
  BY DEF WireTypes
<1>2. updates'[b] = Append(updates[b], w)
  BY <1>1
<1>3. updates'[b] \in Seq(Words) /\ Len(updates'[b]) = Len(updates[b]) + 1
  BY <1>1, <1>2
<1>4. /\ DOMAIN updates[b] = 1..Len(updates[b]) /\ Len(updates[b]) \in Nat
      /\ DOMAIN updates'[b] = 1..(Len(updates[b]) + 1)
  BY <1>1, <1>3
<1>5. \A i \in DOMAIN updates[b] : updates'[b][i] = updates[b][i]
  BY <1>1, <1>2, <1>4
<1>6. updates'[b][Len(updates[b]) + 1] = w
  BY <1>1, <1>2
<1>7. \A c \in TelegramBots : c # b => updates'[c] = updates[c]
  BY <1>1
<1>8. updates' \in [TelegramBots -> Seq(Words)]
  BY <1>1, <1>2, <1>3
<1>9. \A i \in DOMAIN updates'[b] : i \in DOMAIN updates[b] \/ i = Len(updates[b]) + 1
  BY <1>4
<1> QED
  BY <1>3, <1>5, <1>6, <1>7, <1>8, <1>9

LEMMA WordsAreWords ==
    ASSUME WireTypes, NEW b \in TelegramBots
    PROVE  /\ Len(updates[b]) \in Nat /\ DOMAIN updates[b] = 1..Len(updates[b])
           /\ \A i \in DOMAIN updates[b] : updates[b][i] \in Words
<1>1. updates[b] \in Seq(Words)
  BY DEF WireTypes
<1> QED
  BY <1>1

\* An update a tick has read is one of those said.
LEMMA InBatch ==
    ASSUME WireTypes, WireEnds, poll.at = "got", NEW n \in Batch
    PROVE  /\ n - Base[poll.bot] \in DOMAIN updates[poll.bot] /\ n \in Nat
           /\ Update(poll.bot, n) \in Words
<1>1. poll.bot \in TelegramBots /\ Base[poll.bot] \in Nat
  BY WireAssumption DEF WireEnds
<1>2. poll.offset \in Nat /\ poll.last \in Nat /\ n \in Nat
  BY DEF WireTypes, Polls, Batch, Numbers
<1>3. n - Base[poll.bot] \in 1..Len(updates[poll.bot])
  <2>1. Base[poll.bot] < n /\ n <= Last(poll.bot) /\ Len(updates[poll.bot]) \in Nat
    <3>1. /\ Base[poll.bot] < poll.offset /\ poll.last <= Last(poll.bot)
          /\ Len(updates[poll.bot]) \in Nat
      BY <1>1, WordsAreWords DEF WireEnds
    <3>2. poll.offset <= n /\ n <= poll.last
      BY <1>2 DEF Batch
    <3> QED
      BY <1>1, <1>2, <3>1, <3>2 DEF Last
  <2> QED
    BY <2>1, <1>1, <1>2 DEF Last
<1> QED
  BY <1>1, <1>2, <1>3, WordsAreWords DEF Update

LEMMA StrangerInit == Init => StrangerInv
<1> SUFFICES ASSUME Init PROVE StrangerInv
  OBVIOUS
<1> USE DEF Init
<1>1. WireTypes
  <2>1. row \in Rows /\ poll \in Polls
    BY DEF BlankRow, IdlePoll, Rows, Polls, Numbers
  <2>2. acked \in [TelegramBots -> Numbers] /\ updates \in [TelegramBots -> Seq(Words)]
    BY WireAssumption DEF Numbers
  <2>3. connecting \in [at : {"none", "written", "armed"}, bot : Bots \cup {None}]
    BY DEF NoCall
  <2> QED
    BY <2>1, <2>2, <2>3 DEF WireTypes, Numbers, NoCall
<1>2. WireEnds
  <2>1. \A b \in TelegramBots : Base[b] <= acked[b]
    BY WireAssumption
  <2> QED
    BY <2>1 DEF WireEnds, IdlePoll, Quiet, Gates
<1>3. NonceIsSellers /\ NeverAStranger
  BY DEF NonceIsSellers, NeverAStranger, BlankRow
<1> QED
  BY <1>1, <1>2, <1>3 DEF StrangerInv

\* The row's operations keep its fields.
LEMMA RowFields ==
    ASSUME row \in Rows, armed \in Numbers
    PROVE  /\ \A b \in Bots :
                /\ Armed(b) \in Rows
                /\ Armed(b).bot = b /\ Armed(b).chat = None /\ Armed(b).offset = 0
                /\ Armed(b).nonce = armed + 1
                /\ Armed(b).welcomed = (row.bot = b /\ row.welcomed)
           /\ \A chat \in {None, Seller}, n \in Numbers :
                /\ CompleteBind(chat, n) \in Rows
                /\ CompleteBind(chat, n).chat = chat /\ CompleteBind(chat, n).nonce = 0
                /\ CompleteBind(chat, n).offset = n
                /\ CompleteBind(chat, n).bot = row.bot
                /\ CompleteBind(chat, n).welcomed = row.welcomed
           /\ \A n \in Numbers :
                /\ AdvanceOffset(n) \in Rows
                /\ AdvanceOffset(n).offset \in {row.offset, n}
                /\ AdvanceOffset(n).bot = row.bot /\ AdvanceOffset(n).chat = row.chat
                /\ AdvanceOffset(n).nonce = row.nonce
                /\ AdvanceOffset(n).welcomed = row.welcomed
           /\ NonceLive(row) <=> row.nonce # 0 /\ row.nonce \notin lapsed
<1>1. \A b \in Bots : row.bot = b /\ row.welcomed \in BOOLEAN /\ row.menu \in BOOLEAN
        => TRUE
  OBVIOUS
<1>2. row.offset \in Nat /\ row.nonce \in Nat /\ armed + 1 \in Nat
  BY DEF Rows, Numbers
<1>3. ASSUME NEW b \in Bots
      PROVE  /\ Armed(b) \in Rows
             /\ Armed(b).bot = b /\ Armed(b).chat = None /\ Armed(b).offset = 0
             /\ Armed(b).nonce = armed + 1
             /\ Armed(b).welcomed = (row.bot = b /\ row.welcomed)
  BY <1>2 DEF Armed, Rows, Numbers
<1>4. ASSUME NEW chat \in {None, Seller}, NEW n \in Numbers
      PROVE  /\ CompleteBind(chat, n) \in Rows
             /\ CompleteBind(chat, n).chat = chat /\ CompleteBind(chat, n).nonce = 0
             /\ CompleteBind(chat, n).offset = n
             /\ CompleteBind(chat, n).bot = row.bot
             /\ CompleteBind(chat, n).welcomed = row.welcomed
  BY DEF CompleteBind, Rows, Numbers
<1>5. ASSUME NEW n \in Numbers
      PROVE  /\ AdvanceOffset(n) \in Rows
             /\ AdvanceOffset(n).offset \in {row.offset, n}
             /\ AdvanceOffset(n).bot = row.bot /\ AdvanceOffset(n).chat = row.chat
             /\ AdvanceOffset(n).nonce = row.nonce
             /\ AdvanceOffset(n).welcomed = row.welcomed
  BY <1>2 DEF AdvanceOffset, Rows, Numbers
<1> QED
  BY <1>3, <1>4, <1>5 DEF NonceLive

\* What a binding tick binds, the seller said.
LEMMA BindsSeller ==
    ASSUME StrangerInv, poll.at = "got", Starts # {}, CanBind(poll.nonce),
           NEW n \in Starts
    PROVE  Update(poll.bot, n).from = Seller
<1>1. n \in Batch /\ Update(poll.bot, n).nonce = poll.nonce
  BY DEF Starts
<1>2. row.nonce = poll.nonce /\ NonceLive(row)
  BY DEF CanBind
<1>3. poll.bot \in TelegramBots /\ n - Base[poll.bot] \in DOMAIN updates[poll.bot]
  BY <1>1, InBatch DEF StrangerInv, WireEnds
<1> QED
  BY <1>1, <1>2, <1>3 DEF StrangerInv, NonceIsSellers, Update

\* Only the seller knows a nonce that is worth something.
LEMMA KnowsNonce ==
    ASSUME WireTypes, NEW who \in People, NEW b, NEW n \in Known(who, b), n # 0,
           row.nonce = n, NonceLive(row)
    PROVE  who = Seller /\ b = row.bot
  BY DEF Known, NonceLive

\* Every variable keeps its type.
LEMMA TypesStep ==
    ASSUME StrangerInv, [Next]_vars
    PROVE  WireTypes'
<1> USE DEF StrangerInv
<1>1. row \in Rows /\ poll \in Polls /\ armed \in Numbers /\ WireTypes /\ WireEnds
  BY DEF WireTypes
<1>2. row.offset \in Nat /\ row.nonce \in Nat /\ row.chat \in {None, Seller} /\ armed \in Nat
  BY <1>1 DEF Rows, Numbers
<1>3. poll.offset \in Nat /\ poll.last \in Nat /\ poll.chat \in {None, Seller}
  BY <1>1 DEF Polls, Numbers
<1>4. IdlePoll \in Polls /\ [IdlePoll EXCEPT !.at = "greet"] \in Polls
  BY DEF IdlePoll, Polls, Numbers
<1>5. NoCall \in [at : {"none", "written", "armed"}, bot : Bots \cup {None}] /\ NoCall.at = "none"
  BY DEF NoCall
\* What changes of the row, the tick and the store; the rest stands.
<1>6. ASSUME row' \in Rows, poll' \in Polls, UNCHANGED <<lapsed, armed, token, connecting, updates>>,
             \A e \in stored' : e.bot \in Bots /\ e.from \in People,
             acked' \in [TelegramBots -> Numbers]
      PROVE  WireTypes'
  BY <1>1, <1>6 DEF WireTypes
<1>7. (\A e \in stored : e.bot \in Bots /\ e.from \in People) /\ acked \in [TelegramBots -> Numbers]
  BY DEF WireTypes
<1>8. CASE \E b \in Bots : ConnectWritesToken(b)
  <2>1. PICK b \in Bots : ConnectWritesToken(b)
    BY <1>8
  <2>2. Via(b) \in {"telegram", "discord"} /\ (Via(b) = "telegram" <=> b \in TelegramBots)
    BY DEF Via
  <2>3. token' = [token EXCEPT ![Via(b)] = b] /\ connecting' = [at |-> "written", bot |-> b]
    BY <2>1 DEF ConnectWritesToken
  <2>4. UNCHANGED <<row, lapsed, armed, poll, updates, acked, stored>>
    BY <2>1 DEF ConnectWritesToken, ends, said
  <2>5. /\ token' \in [{"telegram", "discord"} -> Bots \cup {None}]
        /\ token'["telegram"] \in TelegramBots \cup {None}
        /\ token'["discord"] \in DiscordBots \cup {None}
    BY <2>2, <2>3 DEF WireTypes, Bots
  <2>6. connecting' \in [at : {"none", "written", "armed"}, bot : Bots \cup {None}]
        /\ connecting'.bot \in Bots
    BY <2>3
  <2> QED
    BY <1>1, <2>4, <2>5, <2>6 DEF WireTypes
<1>9. CASE ConnectArms
  <2>1. connecting.bot \in Bots
    BY <1>9 DEF ConnectArms, WireTypes
  <2>2. row' \in Rows /\ armed' \in Numbers /\ armed' = armed + 1
    BY <1>1, <1>2, <1>9, <2>1, RowFields DEF ConnectArms, Numbers
  <2>3. connecting' \in [at : {"none", "written", "armed"}, bot : Bots \cup {None}]
        /\ connecting'.bot \in Bots
    BY <1>9, <2>1 DEF ConnectArms, WireTypes
  <2>4. lapsed' \subseteq 1..armed'
    BY <1>2, <1>9, <2>2 DEF ConnectArms, WireTypes
  <2>5. UNCHANGED <<token, poll, updates, acked, stored>>
    BY <1>9 DEF ConnectArms, ends, said
  <2> QED
    BY <1>1, <2>2, <2>3, <2>4, <2>5 DEF WireTypes
<1>10. CASE ConnectRegisters
  BY <1>1, <1>5, <1>10 DEF ConnectRegisters, said, WireTypes
<1>11. CASE NonceLapses
  <2>1. lapsed' \subseteq 1..armed
    <3>1. row.nonce \in 1..armed
      BY <1>2, <1>11 DEF NonceLapses, NonceLive, NonceIsSellers
    <3>2. lapsed \subseteq 1..armed
      BY DEF WireTypes
    <3> QED
      BY <1>11, <3>1, <3>2 DEF NonceLapses
  <2> QED
    BY <1>1, <1>11, <2>1 DEF NonceLapses, ends, said, WireTypes
<1>12. CASE RetireLapsedNonce
  <2>1. row' \in Rows
    BY <1>1, <1>12 DEF RetireLapsedNonce, Rows, Numbers
  <2> QED
    BY <1>1, <1>6, <1>7, <1>12, <2>1 DEF RetireLapsedNonce, ends, said
<1>13. CASE PollAsks
  <2>2. poll' \in Polls
    <3>1. token.telegram \in Bots \cup {None}
      BY DEF WireTypes
    <3> QED
      BY <1>1, <1>2, <1>13, <3>1 DEF PollAsks, Polls, Rows, Numbers
  <2> QED
    BY <1>1, <1>6, <1>7, <1>13, <2>2 DEF PollAsks, wire, said
<1>26. CASE RegisterMenu
  <2>1. row' \in Rows /\ poll' \in Polls
    BY <1>1, <1>26 DEF RegisterMenu, Rows, Polls
  <2> QED
    BY <1>1, <1>6, <1>7, <1>26, <2>1 DEF RegisterMenu, said
<1>14. CASE PollAnswered
  <2>1. poll.bot \in TelegramBots
    BY <1>14 DEF PollAnswered, WireEnds
  <2>2. Base[poll.bot] \in Nat /\ acked[poll.bot] \in Nat /\ Base[poll.bot] <= acked[poll.bot]
        /\ Last(poll.bot) \in Nat
    BY <1>7, <2>1, WireAssumption, WordsAreWords DEF WireEnds, Numbers, Last
  <2> DEFINE from == IF poll.offset > acked[poll.bot] THEN poll.offset ELSE acked[poll.bot] + 1
  <2>3. from \in Nat /\ from - 1 \in Nat
    BY <1>3, <2>2
  <2>4. acked' \in [TelegramBots -> Numbers]
    BY <1>7, <1>14, <2>3 DEF PollAnswered, Numbers
  <2>5. [poll EXCEPT !.at = "got", !.offset = from, !.last = Last(poll.bot)] \in Polls
    BY <1>1, <2>2, <2>3 DEF Polls, Numbers
  <2>6. poll' \in Polls
    BY <1>4, <1>14, <2>5 DEF PollAnswered
  <2> QED
    BY <1>1, <1>6, <1>7, <1>14, <2>4, <2>6 DEF PollAnswered, wire
<1>15. CASE PollFails \/ MenuFails
  BY <1>1, <1>4, <1>6, <1>7, <1>15 DEF PollFails, MenuFails, wire, said
<1>16. CASE ApplyAwaiting
  <2>1. row' \in Rows
    <3>1. CASE row' = AdvanceOffset(poll.last + 1)
      BY <1>1, <1>3, <3>1, RowFields DEF Numbers
    <3>2. ASSUME NEW n \in Starts, row' = AdvanceOffset(n + 1)
          PROVE  row' \in Rows
      <4>1. n + 1 \in Nat
        BY <1>16, InBatch DEF ApplyAwaiting, Starts
      <4> QED
        BY <1>1, <3>2, <4>1, RowFields DEF Numbers
    <3>3. ASSUME NEW n \in Starts, CanBind(poll.nonce),
                 row' = CompleteBind(Update(poll.bot, n).from, n + 1)
          PROVE  row' \in Rows
      <4>1. n + 1 \in Nat
        BY <1>16, InBatch DEF ApplyAwaiting, Starts
      <4>2. Update(poll.bot, n).from = Seller
        BY <1>16, <3>3, BindsSeller DEF ApplyAwaiting
      <4> QED
        BY <1>1, <3>3, <4>1, <4>2, RowFields DEF Numbers
    <3> QED
      BY <1>16, <3>1, <3>2, <3>3 DEF ApplyAwaiting
  <2>2. poll' \in Polls
    BY <1>4, <1>16 DEF ApplyAwaiting
  <2> QED
    BY <1>6, <1>7, <1>16, <2>1, <2>2 DEF ApplyAwaiting, said
<1>17. CASE ApplyBound
  <2>1. row' \in Rows
    BY <1>1, <1>3, <1>17 DEF ApplyBound, Rows, Numbers
  <2>2. poll.bot \in Bots
    BY <1>17 DEF ApplyBound, WireEnds, Bots
  <2>3. \A n \in Batch : n \in Numbers /\ Update(poll.bot, n).from \in People
    BY <1>17, InBatch DEF ApplyBound, Words, Numbers
  <2>4. \A e \in stored' : e.bot \in Bots /\ e.from \in People
    BY <1>7, <1>17, <2>2, <2>3 DEF ApplyBound
  <2> QED
    BY <1>4, <1>6, <1>7, <1>17, <2>1, <2>4 DEF ApplyBound
<1>18. CASE PollGreets
  <2>1. row' \in Rows
    BY <1>1, <1>18 DEF PollGreets, QueueWelcome, Rows
  <2> QED
    BY <1>4, <1>6, <1>7, <1>18, <2>1 DEF PollGreets, said
<1>19. CASE GateOpens \/ GateDrops \/ GateRefused
  BY <1>1, <1>6, <1>7, <1>19 DEF GateOpens, GateDrops, GateRefused, wire, said
<1>20. CASE GateGreets
  <2>1. row' \in Rows
    BY <1>1, <1>20 DEF GateGreets, QueueWelcome, Rows
  <2> QED
    BY <1>1, <1>6, <1>7, <1>20, <2>1 DEF GateGreets, said
<1>21. ASSUME NEW who \in People, NEW n \in 0..MaxArms, Dm(who, n)
       PROVE  WireTypes'
  <2>1. n \in Known(who, gate.bot) /\ GateHears(who, n)
    BY <1>21 DEF Dm
  <2>2. row' \in Rows
    <3>1. CASE row.chat = None
      <4>1. n # 0 /\ CanBind(n) /\ row' = CompleteBind(who, 0)
        BY <2>1, <3>1 DEF GateHears
      <4>2. who = Seller
        BY <1>1, <2>1, <4>1, KnowsNonce DEF CanBind
      <4> QED
        BY <1>1, <4>1, <4>2, RowFields DEF Numbers
    <3> QED
      BY <1>1, <2>1, <3>1 DEF GateHears
  <2>3. \A e \in stored' : e.bot \in Bots /\ e.from \in People
    <3>1. gate.bot \in Bots
      BY <2>1 DEF GateHears, WireEnds, Bots
    <3> QED
      BY <1>7, <2>1, <3>1 DEF GateHears
  <2> QED
    BY <1>1, <1>6, <1>7, <2>1, <2>2, <2>3 DEF GateHears
<1>22. ASSUME NEW b \in TelegramBots, NEW who \in People, NEW n \in 0..MaxArms, SaysTo(b, who, n)
       PROVE  WireTypes'
  <2> DEFINE w == [from |-> who, nonce |-> n, under |-> IF row.bot = b /\ row.chat = who THEN armed ELSE 0]
  <2>1. w \in Words
    BY <1>2, WireAssumption DEF Words, Numbers
  <2>2. updates' = [updates EXCEPT ![b] = Append(@, w)] /\ UNCHANGED <<wire, ends, acked, stored>>
    BY <1>22 DEF SaysTo
  <2>3. updates' \in [TelegramBots -> Seq(Words)]
    BY <1>1, <2>1, <2>2, SaysOne
  <2> QED
    BY <1>1, <2>2, <2>3 DEF wire, ends, WireTypes
<1>23. CASE Dies
  BY <1>1, <1>4, <1>5, <1>23 DEF Dies, said, WireTypes
<1>24. CASE Restarts
  BY <1>1, <1>24 DEF Restarts, ends, said, WireTypes
<1>25. CASE UNCHANGED vars
  BY <1>1, <1>25 DEF vars, wire, ends, said, WireTypes
<1> QED
  BY <1>8, <1>9, <1>10, <1>11, <1>12, <1>13, <1>14, <1>15, <1>16, <1>17, <1>18, <1>19, <1>20,
     <1>21, <1>22, <1>23, <1>24, <1>25, <1>26 DEF Next

\* Ticks ask Telegram bots, sessions are Discord bots', nothing is discarded before it is said.
LEMMA EndsStep ==
    ASSUME StrangerInv, [Next]_vars
    PROVE  WireEnds'
<1> USE DEF StrangerInv
<1>1. WireTypes /\ WireEnds /\ poll \in Polls
  BY DEF WireTypes
\* Nothing said is unsaid.
<1>2. \A b \in TelegramBots : Last(b) \in Nat /\ Base[b] \in Nat /\ acked[b] \in Nat
  BY <1>1, WireAssumption, WordsAreWords DEF Last, WireTypes, Numbers
<1>3. ASSUME UNCHANGED <<poll, gate, acked, updates>>
      PROVE  WireEnds'
  BY <1>1, <1>3 DEF WireEnds, Last
<1>4. ASSUME UNCHANGED <<gate, acked, updates>>, poll'.at \in {"idle", "greet"}
      PROVE  WireEnds'
  BY <1>1, <1>4 DEF WireEnds
<1>5. IdlePoll.at = "idle" /\ [IdlePoll EXCEPT !.at = "greet"].at = "greet"
  BY DEF IdlePoll
<1>6. ASSUME UNCHANGED <<poll, acked, updates>>,
             gate' \in Gates,
             gate'.at # "down" => gate'.bot \in DiscordBots
      PROVE  WireEnds'
  BY <1>1, <1>6 DEF WireEnds, Last
<1>7. CASE (\E b \in Bots : ConnectWritesToken(b)) \/ ConnectArms \/ NonceLapses \/ RetireLapsedNonce
           \/ Restarts \/ UNCHANGED vars
  BY <1>3, <1>7 DEF ConnectWritesToken, ConnectArms, NonceLapses, RetireLapsedNonce,
                    Restarts, vars, ends, said
<1>8. CASE ConnectRegisters
  BY <1>1, <1>6, <1>8 DEF ConnectRegisters, Quiet, Gates, said, WireEnds
<1>9. CASE PollAsks
  <2>1. token.telegram \in TelegramBots
    BY <1>1, <1>9 DEF PollAsks, StateOf, WireTypes
  <2>2. poll'.at # "got" /\ poll'.bot \in TelegramBots /\ UNCHANGED <<gate, acked, updates>>
    BY <1>9, <2>1 DEF PollAsks, said
  <2> QED
    BY <1>1, <2>2 DEF WireEnds
<1>26. CASE RegisterMenu
  <2>1. poll'.at = "asked" /\ poll'.bot = poll.bot /\ poll.at = "menu"
        /\ UNCHANGED <<gate, acked, updates>>
    BY <1>1, <1>26 DEF RegisterMenu, said, WireTypes, Polls
  <2> QED
    BY <1>1, <2>1 DEF WireEnds
<1>10. CASE PollAnswered
  <2>0. PICK b : b = poll.bot
    OBVIOUS
  <2> DEFINE from == IF poll.offset > acked[b] THEN poll.offset ELSE acked[b] + 1
  <2>1. b \in TelegramBots /\ poll.offset \in Nat
    BY <1>1, <1>10, <2>0 DEF PollAnswered, WireEnds, Polls, Numbers
  <2>2. from \in Nat /\ Base[b] < from
    BY <1>1, <1>2, <2>1 DEF WireEnds
  <2>3. acked' = [acked EXCEPT ![b] = from - 1] /\ UNCHANGED <<gate, updates>>
    BY <1>10, <2>0 DEF PollAnswered
  <2>4. \A c \in TelegramBots : Base[c] <= acked'[c]
    <3>1. acked \in [TelegramBots -> Numbers] /\ Base[b] <= from - 1
      BY <1>1, <1>2, <2>1, <2>2 DEF WireTypes
    <3> QED
      BY <1>1, <2>3, <3>1 DEF WireEnds
  <2>5. \/ poll'.at = "idle"
        \/ poll'.at = "got" /\ poll'.bot = b /\ poll'.offset = from /\ poll'.last = Last(b)
           /\ from <= Last(b)
    BY <1>1, <1>2, <1>5, <1>10, <2>0, <2>1, <2>2 DEF PollAnswered, Polls
  <2>6. \A c : Last(c)' = Last(c)
    BY <2>3 DEF Last
  <2>7. poll'.at = "got" => poll'.offset <= poll'.last /\ Base[b] < poll'.offset
    BY <2>2, <2>5
  <2>8. poll'.at = "got" => poll'.bot = b /\ poll'.last <= Base[b] + Len(updates'[b])
    <3>1. poll'.at = "got" => poll'.bot = b /\ poll'.last <= Last(b)
      BY <1>2, <2>1, <2>5
    <3> QED
      BY <2>3, <3>1 DEF Last
  <2>9. poll'.at \notin {"menu", "asked"} /\ (poll'.at = "got" => poll'.bot \in TelegramBots)
    BY <2>1, <2>5
  <2> QED
    BY <1>1, <2>3, <2>4, <2>7, <2>8, <2>9 DEF WireEnds, Last
<1>11. CASE PollFails \/ MenuFails \/ ApplyAwaiting \/ ApplyBound \/ PollGreets
  BY <1>4, <1>5, <1>11 DEF PollFails, MenuFails, ApplyAwaiting, ApplyBound, PollGreets, said
<1>12. CASE GateOpens
  <2>1. token.discord \in DiscordBots
    BY <1>1, <1>12 DEF GateOpens, StateOf, WireTypes
  <2> QED
    BY <1>6, <1>12, <2>1 DEF GateOpens, Gates, Bots, said
<1>13. CASE GateDrops \/ GateRefused
  BY <1>6, <1>13 DEF GateDrops, GateRefused, Quiet, Gates, said
<1>14. CASE GateGreets
  BY <1>1, <1>6, <1>14 DEF GateGreets, Gates, said, WireEnds
<1>15. ASSUME NEW who \in People, NEW n \in 0..MaxArms, Dm(who, n)
       PROVE  WireEnds'
  <2>1. gate.at = "up" /\ gate' \in {gate, [gate EXCEPT !.at = "greet"]}
        /\ UNCHANGED <<poll, acked, updates>>
    BY <1>15 DEF Dm, GateHears
  <2>2. gate.bot \in DiscordBots
    BY <1>1, <2>1 DEF WireEnds
  <2>3. CASE gate' = gate
    BY <1>1, <1>6, <2>1, <2>2, <2>3 DEF WireEnds
  <2>4. CASE gate' = [gate EXCEPT !.at = "greet"]
    BY <1>1, <1>6, <2>1, <2>2, <2>4 DEF Gates, WireEnds
  <2> QED
    BY <2>1, <2>3, <2>4
<1>16. ASSUME NEW b \in TelegramBots, NEW who \in People, NEW n \in 0..MaxArms, SaysTo(b, who, n)
       PROVE  WireEnds'
  <2> DEFINE w == [from |-> who, nonce |-> n, under |-> IF row.bot = b /\ row.chat = who THEN armed ELSE 0]
  <2>1. w \in Words
    BY WireAssumption DEF Words, Numbers, WireTypes
  <2>2. updates' = [updates EXCEPT ![b] = Append(@, w)] /\ UNCHANGED <<poll, gate, acked>>
    BY <1>16 DEF SaysTo, ends
  <2>3. \A c \in TelegramBots : Last(c) <= Base[c] + Len(updates'[c])
    <3>1. Len(updates'[b]) = Len(updates[b]) + 1
          /\ \A c \in TelegramBots : c # b => updates'[c] = updates[c]
      BY <1>1, <2>1, <2>2, SaysOne
    <3>2. \A c \in TelegramBots : Len(updates[c]) \in Nat
      BY <1>1, WordsAreWords
    <3>3. TAKE c \in TelegramBots
    <3>4. Base[c] \in Nat /\ Len(updates[c]) \in Nat
      BY <1>2, <3>2
    <3>5. CASE c = b
      BY <3>1, <3>4, <3>5 DEF Last
    <3>6. CASE c # b
      BY <3>1, <3>4, <3>6 DEF Last
    <3> QED
      BY <3>5, <3>6
  <2>4. ASSUME poll.at = "got"
        PROVE  poll.last <= Base[poll.bot] + Len(updates'[poll.bot])
    <3>1. poll.bot \in TelegramBots /\ poll.last \in Nat /\ poll.last <= Last(poll.bot)
      BY <1>1, <2>4 DEF WireEnds, Polls, Numbers
    <3>2. Base[poll.bot] + Len(updates'[poll.bot]) \in Nat
      <4>1. WireTypes'
        BY <1>16, TypesStep DEF Next
      <4>2. Len(updates'[poll.bot]) \in Nat
        BY <3>1, <4>1 DEF WireTypes
      <4> QED
        BY <1>2, <3>1, <4>2
    <3>3. Last(poll.bot) <= Base[poll.bot] + Len(updates'[poll.bot])
      BY <2>3, <3>1
    <3> QED
      BY <1>2, <3>1, <3>2, <3>3
  <2> QED
    BY <1>1, <2>2, <2>4 DEF WireEnds, Last
<1>17. CASE Dies
  BY <1>1, <1>17 DEF Dies, IdlePoll, Quiet, Gates, said, WireEnds
<1> QED
  BY <1>7, <1>8, <1>9, <1>10, <1>11, <1>12, <1>13, <1>14, <1>15, <1>16, <1>17,
     <1>26 DEF Next

\* A nonce is known to others only once it is worth nothing: each step.
LEMMA NonceStep ==
    ASSUME StrangerInv, [Next]_vars
    PROVE  NonceIsSellers'
<1> USE DEF StrangerInv
<1>1. WireTypes /\ NonceIsSellers /\ row \in Rows /\ armed \in Nat /\ row.nonce \in Nat
  BY DEF WireTypes, Rows, Numbers
<1>2. \A b \in TelegramBots : \A i \in DOMAIN updates[b] : updates[b][i].nonce \in Nat
  BY WordsAreWords DEF Words, Numbers
\* A nonce that stays, is spent, or lapses.
<1>3. ASSUME UNCHANGED <<armed, updates>>, lapsed \subseteq lapsed', row'.nonce \in {0, row.nonce}
      PROVE  NonceIsSellers'
  BY <1>1, <1>3 DEF NonceIsSellers, NonceLive
<1>4. CASE (\E b \in Bots : ConnectWritesToken(b)) \/ ConnectRegisters \/ NonceLapses
           \/ PollAnswered \/ PollFails \/ MenuFails \/ ApplyBound \/ GateOpens \/ GateDrops
           \/ GateRefused \/ Dies \/ Restarts \/ UNCHANGED vars
  <2>1. UNCHANGED <<armed, updates>> /\ lapsed \subseteq lapsed'
    BY <1>4 DEF ConnectWritesToken, ConnectRegisters, NonceLapses, PollAnswered, PollFails,
         MenuFails, ApplyBound, GateOpens, GateDrops, GateRefused, Dies, Restarts, vars, wire,
         ends, said
  <2>2. row' = row \/ row' = [row EXCEPT !.offset = poll.last + 1]
    BY <1>4 DEF ConnectWritesToken, ConnectRegisters, NonceLapses, PollAnswered, PollFails,
         MenuFails, ApplyBound, GateOpens, GateDrops, GateRefused, Dies, Restarts, vars, wire
  <2>3. row'.nonce = row.nonce
    BY <1>1, <2>2 DEF Rows
  <2> QED
    BY <1>3, <2>1, <2>3
<1>5. CASE RetireLapsedNonce \/ PollAsks \/ RegisterMenu \/ PollGreets \/ GateGreets
  <2>1. UNCHANGED <<armed, updates, lapsed>>
    BY <1>5 DEF RetireLapsedNonce, PollAsks, RegisterMenu, PollGreets, GateGreets, wire, said
  <2>2. row'.nonce \in {0, row.nonce}
    BY <1>1, <1>5 DEF RetireLapsedNonce, PollAsks, RegisterMenu, PollGreets, GateGreets, QueueWelcome,
                        wire, Rows
  <2> QED
    BY <1>3, <2>1, <2>2
<1>6. CASE ConnectArms
  <2>1. connecting.bot \in Bots
    BY <1>6 DEF ConnectArms, WireTypes
  <2>2. row'.nonce = armed + 1 /\ armed' = armed + 1 /\ UNCHANGED updates
    BY <1>1, <1>6, <2>1, RowFields DEF ConnectArms, said, WireTypes
  <2>3. \A b \in TelegramBots : \A i \in DOMAIN updates[b] :
          updates[b][i].nonce <= armed + 1 /\ updates[b][i].nonce # armed + 1
    BY <1>1, <1>2 DEF NonceIsSellers
  <2>4. \A b \in TelegramBots : \A i \in DOMAIN updates'[b] :
          updates'[b][i].nonce <= armed' /\ updates'[b][i].nonce # row'.nonce
    BY <2>2, <2>3
  <2>5. row'.nonce <= armed'
    BY <1>1, <2>2
  <2> QED
    BY <2>4, <2>5 DEF NonceIsSellers
<1>7. CASE ApplyAwaiting
  <2>1. UNCHANGED <<armed, updates, lapsed>>
    BY <1>7 DEF ApplyAwaiting, said
  <2>2. row'.nonce \in {0, row.nonce}
    <3>1. poll.last + 1 \in Numbers
      BY DEF WireTypes, Polls, Numbers
    <3>2. \A n \in Starts : n + 1 \in Numbers
      BY <1>7, InBatch DEF ApplyAwaiting, Starts, Numbers
    <3>3. ASSUME NEW n \in Starts, CanBind(poll.nonce)
          PROVE  Update(poll.bot, n).from = Seller
      BY <1>7, <3>3, BindsSeller DEF ApplyAwaiting
    <3> QED
      BY <1>1, <1>7, <3>1, <3>2, <3>3, RowFields DEF ApplyAwaiting, WireTypes
  <2> QED
    BY <1>3, <2>1, <2>2
<1>8. ASSUME NEW who \in People, NEW n \in 0..MaxArms, Dm(who, n)
      PROVE  NonceIsSellers'
  <2>1. UNCHANGED <<armed, updates, lapsed>> /\ GateHears(who, n) /\ n \in Known(who, gate.bot)
    BY <1>8 DEF Dm, GateHears
  <2>2. row'.nonce \in {0, row.nonce}
    <3>1. CASE row.chat = None
      <4>1. n # 0 /\ CanBind(n) /\ row' = CompleteBind(who, 0)
        BY <2>1, <3>1 DEF GateHears
      <4>2. who = Seller
        BY <1>1, <2>1, <4>1, KnowsNonce DEF CanBind
      <4> QED
        BY <1>1, <4>1, <4>2, RowFields DEF Numbers, WireTypes
    <3> QED
      BY <2>1, <3>1 DEF GateHears
  <2> QED
    BY <1>3, <2>1, <2>2
<1>9. ASSUME NEW b \in TelegramBots, NEW who \in People, NEW n \in 0..MaxArms, SaysTo(b, who, n)
      PROVE  NonceIsSellers'
  <2> DEFINE w == [from |-> who, nonce |-> n, under |-> IF row.bot = b /\ row.chat = who THEN armed ELSE 0]
  <2>1. w \in Words
    BY <1>1, WireAssumption DEF Words, Numbers
  <2>2. updates' = [updates EXCEPT ![b] = Append(@, w)] /\ UNCHANGED <<row, lapsed, armed>>
        /\ n \in Known(who, b)
    BY <1>9 DEF SaysTo, wire
  <2>3. n <= armed /\ (NonceLive(row) /\ n = row.nonce => who = Seller)
    BY <1>1, <2>2 DEF Known, NonceLive
  <2>4. /\ \A c \in TelegramBots : c # b => updates'[c] = updates[c]
        /\ \A i \in DOMAIN updates'[b] :
             \/ i \in DOMAIN updates[b] /\ updates'[b][i] = updates[b][i]
             \/ updates'[b][i] = w
    BY <1>1, <2>1, <2>2, SaysOne
  <2>5. w.nonce = n /\ w.from = who
    OBVIOUS
  <2> HIDE DEF w
  <2>6. NonceLive(row)' = NonceLive(row)
    BY <2>2 DEF NonceLive
  <2>7. ASSUME NEW c \in TelegramBots, NEW i \in DOMAIN updates'[c]
        PROVE  /\ updates'[c][i].nonce <= armed
               /\ NonceLive(row) /\ updates'[c][i].nonce = row.nonce
                    => updates'[c][i].from = Seller
    <3>1. \/ i \in DOMAIN updates[c] /\ updates'[c][i] = updates[c][i]
          \/ updates'[c][i] = w
      BY <2>4
    <3> QED
      BY <1>1, <2>3, <2>5, <3>1 DEF NonceIsSellers
  <2> QED
    BY <1>1, <2>2, <2>6, <2>7 DEF NonceIsSellers
<1> QED
  BY <1>4, <1>5, <1>6, <1>7, <1>8, <1>9 DEF Next

\* Only the seller is bound, and only what the bound chat said is stored.
LEMMA StrangerStep ==
    ASSUME StrangerInv, [Next]_vars
    PROVE  NeverAStranger'
<1> USE DEF StrangerInv
<1>1. WireTypes' /\ row'.chat \in {None, Seller}
  BY TypesStep DEF WireTypes, Rows
<1>2. CASE ApplyBound
  <2>1. poll.chat = Seller
    BY <1>2 DEF ApplyBound, WireTypes, Polls
  <2>2. \A e \in stored' : e \in stored \/ e.from = poll.chat
    BY <1>2 DEF ApplyBound
  <2> QED
    BY <1>1, <2>1, <2>2 DEF NeverAStranger
<1>3. ASSUME NEW who \in People, NEW n \in 0..MaxArms, Dm(who, n)
      PROVE  NeverAStranger'
  <2>1. \A e \in stored' : e \in stored \/ (row.chat # None /\ e.from = row.chat)
    BY <1>3 DEF Dm, GateHears
  <2> QED
    BY <1>1, <2>1 DEF NeverAStranger
<1>4. ASSUME UNCHANGED stored
      PROVE  NeverAStranger'
  BY <1>1, <1>4 DEF NeverAStranger
<1> QED
  BY <1>2, <1>3, <1>4 DEF Next, ConnectWritesToken, ConnectArms, ConnectRegisters, NonceLapses,
     RetireLapsedNonce, PollAsks, RegisterMenu, PollAnswered, PollFails, ApplyAwaiting, PollGreets,
     MenuFails,
     GateOpens, GateDrops, GateRefused, GateGreets, SaysTo, Dies, Restarts, vars, said

\* Whoever holds a nonce that is worth nothing, polls in flight across re-arms and deadlines
\* included, is neither bound nor listened to.
THEOREM StrangersUnheard == Spec => []NeverAStranger
<1>1. StrangerInv /\ [Next]_vars => StrangerInv'
  BY TypesStep, EndsStep, NonceStep, StrangerStep DEF StrangerInv
<1>2. StrangerInv => NeverAStranger
  BY DEF StrangerInv
<1> QED
  BY StrangerInit, <1>1, <1>2, PTL DEF Spec

\* The greeting and its stamp go together.
LEMMA GreetStep ==
    ASSUME StrangerInv, GreetedOnce, [Next]_vars
    PROVE  GreetedOnce'
<1> USE DEF StrangerInv
<1>1. WireTypes /\ row \in Rows /\ row.welcomed \in BOOLEAN
  BY DEF WireTypes, Rows
<1>2. ASSUME UNCHANGED greeted, row'.welcomed = row.welcomed
      PROVE  GreetedOnce'
  BY <1>2 DEF GreetedOnce
<1>3. CASE (\E b \in Bots : ConnectWritesToken(b)) \/ ConnectRegisters \/ NonceLapses
           \/ PollAnswered \/ PollFails \/ MenuFails \/ GateOpens \/ GateDrops \/ GateRefused
           \/ Dies \/ Restarts \/ UNCHANGED vars
           \/ (\E b \in TelegramBots, who \in People, n \in 0..MaxArms : SaysTo(b, who, n))
  <2>1. UNCHANGED <<greeted, row>>
    BY <1>3 DEF ConnectWritesToken, ConnectRegisters, NonceLapses, PollAnswered, PollFails,
         MenuFails, GateOpens, GateDrops, GateRefused, Dies, Restarts, SaysTo, vars, wire
  <2> QED
    BY <1>2, <2>1
<1>4. CASE RetireLapsedNonce \/ PollAsks \/ RegisterMenu \/ ApplyBound
  <2>1. row'.welcomed = row.welcomed /\ UNCHANGED greeted
    BY <1>1, <1>4 DEF RetireLapsedNonce, PollAsks, RegisterMenu, ApplyBound, wire, Rows
  <2> QED
    BY <1>2, <2>1
<1>5. CASE ConnectArms
  <2>1. connecting.bot \in Bots
    BY <1>5 DEF ConnectArms, WireTypes
  <2>2. row'.welcomed = (row.bot = connecting.bot /\ row.welcomed)
    BY <1>1, <1>5, <2>1, RowFields DEF ConnectArms, WireTypes
  <2>3. greeted' = IF row.bot = connecting.bot THEN greeted ELSE 0
    BY <1>5 DEF ConnectArms
  <2>4. CASE row.bot = connecting.bot
    BY <1>1, <2>2, <2>3, <2>4 DEF GreetedOnce
  <2>5. CASE row.bot # connecting.bot
    <3>1. row'.welcomed = FALSE /\ greeted' = 0
      BY <2>2, <2>3, <2>5
    <3> QED
      BY <3>1 DEF GreetedOnce
  <2> QED
    BY <2>4, <2>5
<1>6. CASE ApplyAwaiting
  <2>1. row'.welcomed = row.welcomed
    <3>1. poll.last + 1 \in Numbers
      BY DEF WireTypes, Polls, Numbers
    <3>2. \A n \in Starts : n + 1 \in Numbers
      BY <1>6, InBatch DEF ApplyAwaiting, Starts, Numbers
    <3>3. ASSUME NEW n \in Starts, CanBind(poll.nonce)
          PROVE  Update(poll.bot, n).from = Seller
      BY <1>6, <3>3, BindsSeller DEF ApplyAwaiting
    <3> QED
      BY <1>1, <1>6, <3>1, <3>2, <3>3, RowFields DEF ApplyAwaiting, WireTypes
  <2> QED
    BY <1>2, <1>6, <2>1 DEF ApplyAwaiting
<1>7. CASE PollGreets \/ GateGreets
  <2>1. row'.welcomed = TRUE /\ greeted' = IF row.welcomed THEN greeted ELSE greeted + 1
    BY <1>1, <1>7 DEF PollGreets, GateGreets, QueueWelcome, Rows
  <2> QED
    BY <1>1, <2>1 DEF GreetedOnce
<1>8. ASSUME NEW who \in People, NEW n \in 0..MaxArms, Dm(who, n)
      PROVE  GreetedOnce'
  <2>1. UNCHANGED greeted /\ GateHears(who, n) /\ n \in Known(who, gate.bot)
    BY <1>8 DEF Dm, GateHears
  <2>2. CASE row.chat = None
    <3>1. n # 0 /\ CanBind(n) /\ row' = CompleteBind(who, 0)
      BY <2>1, <2>2 DEF GateHears
    <3>2. who = Seller
      BY <1>1, <2>1, <3>1, KnowsNonce DEF CanBind
    <3>3. row'.welcomed = row.welcomed
      BY <1>1, <3>1, <3>2, RowFields DEF Numbers, WireTypes
    <3> QED
      BY <1>2, <2>1, <3>3
  <2>3. CASE row.chat # None
    BY <1>2, <2>1, <2>3 DEF GateHears
  <2> QED
    BY <2>2, <2>3
<1> QED
  BY <1>3, <1>4, <1>5, <1>6, <1>7, <1>8 DEF Next

\* Through re-connects, retried polls and crashes, a bot greets once while it is the
\* connected one, and its greeting is stamped only with the words queued.
THEOREM GreetsOnce == Spec => []GreetedOnce
<1>1. StrangerInv /\ [Next]_vars => StrangerInv'
  BY TypesStep, EndsStep, NonceStep, StrangerStep DEF StrangerInv
<1>2. Init => GreetedOnce
  BY DEF Init, BlankRow, GreetedOnce
<1>3. StrangerInv /\ GreetedOnce /\ [Next]_vars => GreetedOnce'
  BY GreetStep
<1> QED
  BY StrangerInit, <1>1, <1>2, <1>3, PTL DEF Spec

-----------------------------------------------------------------------------
(* Nothing the seller said is discarded unread, where they keep to one     *)
(* Telegram bot.  Two bots share the one cursor of the row, and a crash    *)
(* between a connect's two writes can leave one's numbers for the other.   *)

OneBot == \A b, c \in TelegramBots : b = c

Heard(b, i) == \E e \in stored : e.bot = b /\ e.id = Base[b] + i
Asking == poll.at \in {"menu", "asked", "got"}

\* A tick in flight listens for whoever is bound, and no cursor is past what was said.
OnPace ==
    /\ row.bot \in TelegramBots /\ row.chat # None /\ Asking => poll.chat = row.chat
    /\ \A b \in TelegramBots :
         /\ acked[b] <= Last(b) /\ row.offset <= Last(b) + 1
         /\ poll.at \in {"menu", "asked"} => poll.offset <= Last(b) + 1

\* What is owed was said under the binding there is, and is stored or ahead of every cursor.
IsOwed(b, i) ==
    /\ row.bot = b /\ row.chat # None /\ row.chat = updates[b][i].from
    /\ \/ Heard(b, i)
       \/ /\ row.offset <= Base[b] + i /\ acked[b] < Base[b] + i
          /\ Asking => poll.offset <= Base[b] + i

Owes ==
    \A b \in TelegramBots : \A i \in DOMAIN updates[b] :
      /\ updates[b][i].under <= armed
      /\ updates[b][i].under = armed /\ armed # 0 => IsOwed(b, i)

\* The tick in flight asked the one bot, and read only what was said to it.
LEMMA OneTick ==
    ASSUME OneBot, StrangerInv, NEW b \in TelegramBots
    PROVE  /\ Asking => poll.bot = b
           /\ poll.at = "got" => poll.offset <= poll.last /\ poll.last <= Last(b)
           /\ Last(b) \in Nat /\ Base[b] \in Nat /\ acked[b] \in Nat
           /\ row.offset \in Nat /\ poll.offset \in Nat /\ poll.last \in Nat
           /\ \A i \in DOMAIN updates[b] : i \in Nat /\ Base[b] + i <= Last(b)
           /\ gate.at # "down" => gate.bot \notin TelegramBots
<1>1. WireTypes /\ WireEnds /\ row \in Rows /\ poll \in Polls
  BY DEF StrangerInv, WireTypes
<1>2. row.offset \in Nat /\ poll.offset \in Nat /\ poll.last \in Nat
  BY <1>1 DEF Rows, Polls, Numbers
<1>3. Base[b] \in Nat /\ Len(updates[b]) \in Nat /\ DOMAIN updates[b] = 1..Len(updates[b])
  BY <1>1, WireAssumption, WordsAreWords
<1>4. acked[b] \in Nat
  BY <1>1 DEF WireTypes, Numbers
<1>5. Asking => poll.bot = b
  BY <1>1 DEF Asking, WireEnds, OneBot
<1>6. poll.at = "got" => poll.offset <= poll.last /\ poll.last <= Last(b)
  BY <1>1, <1>5 DEF Asking, WireEnds
<1>7. gate.at # "down" => gate.bot \notin TelegramBots
  BY <1>1, WireAssumption DEF WireEnds
<1> QED
  BY <1>2, <1>3, <1>4, <1>5, <1>6, <1>7 DEF Last

\* What the gateway binds is not the Telegram bot.
LEMMA GateKeepsOff ==
    ASSUME OneBot, StrangerInv, NEW who \in People, NEW n, Dm(who, n)
    PROVE  \/ row' = row
           \/ /\ row.bot \notin TelegramBots /\ row.chat = None
              /\ row'.bot = row.bot /\ row'.offset = 0
<1>1. n \in Known(who, gate.bot) /\ GateHears(who, n) /\ gate.at = "up"
  BY DEF Dm, GateHears
<1>2. CASE row.chat = None
  <2>1. n # 0 /\ CanBind(n) /\ row' = CompleteBind(who, 0)
    BY <1>1, <1>2 DEF GateHears
  <2>2. who = Seller /\ gate.bot = row.bot
    BY <1>1, <2>1, KnowsNonce DEF CanBind, StrangerInv
  <2>3. row'.bot = row.bot /\ row'.offset = 0
    BY <2>1, <2>2, RowFields DEF Numbers, StrangerInv, WireTypes
  <2>4. gate.bot \notin TelegramBots
    BY <1>1, WireAssumption DEF StrangerInv, WireEnds
  <2> QED
    BY <1>2, <2>2, <2>3, <2>4
<1>3. CASE row.chat # None
  BY <1>1, <1>3 DEF GateHears
<1> QED
  BY <1>2, <1>3

LEMMA AwaitingMoves ==
    ASSUME OneBot, StrangerInv, ApplyAwaiting, NEW b \in TelegramBots
    PROVE  /\ row'.bot = row.bot /\ poll'.at \in {"idle", "greet"}
           /\ row'.offset <= row.offset \/ row'.offset <= Last(b) + 1
<1>1. /\ row.offset \in Nat /\ poll.last \in Nat /\ Last(b) \in Nat
      /\ poll.last <= Last(b) /\ poll.at = "got"
  BY OneTick DEF ApplyAwaiting
<1>2. poll.last + 1 \in Numbers /\ row \in Rows /\ armed \in Numbers
  BY <1>1 DEF Numbers, StrangerInv, WireTypes
<1>3. \A n \in Starts : n \in Nat /\ n + 1 \in Numbers /\ n <= poll.last
  <2>1. \A n \in Starts : n \in Batch /\ n \in Nat
    BY <1>1, InBatch DEF Starts, StrangerInv
  <2>2. poll.offset \in Nat
    BY OneTick
  <2> QED
    BY <1>1, <2>1, <2>2 DEF Batch, Numbers
<1>4. poll'.at \in {"idle", "greet"}
  BY DEF ApplyAwaiting, IdlePoll
<1>5. CASE row' = AdvanceOffset(poll.last + 1)
  <2>1. row'.bot = row.bot /\ row'.offset \in {row.offset, poll.last + 1}
    BY <1>2, <1>5, RowFields
  <2>2. row'.offset <= row.offset \/ row'.offset <= Last(b) + 1
    BY <1>1, <2>1
  <2> QED
    BY <1>4, <2>1, <2>2
<1>6. ASSUME NEW n \in Starts, row' = AdvanceOffset(n + 1)
      PROVE  row'.bot = row.bot /\ (row'.offset <= row.offset \/ row'.offset <= Last(b) + 1)
  <2>1. row'.bot = row.bot /\ row'.offset \in {row.offset, n + 1}
    BY <1>2, <1>3, <1>6, RowFields
  <2> QED
    BY <1>1, <1>3, <2>1
<1>7. ASSUME NEW n \in Starts, CanBind(poll.nonce),
             row' = CompleteBind(Update(poll.bot, n).from, n + 1)
      PROVE  row'.bot = row.bot /\ (row'.offset <= row.offset \/ row'.offset <= Last(b) + 1)
  <2>1. Update(poll.bot, n).from = Seller
    BY <1>1, <1>7, BindsSeller
  <2>2. row'.bot = row.bot /\ row'.offset = n + 1
    BY <1>2, <1>3, <1>7, <2>1, RowFields
  <2> QED
    BY <1>1, <1>3, <2>2
<1> QED
  BY <1>5, <1>6, <1>7, <1>4 DEF ApplyAwaiting

\* The tick listens for whoever is bound, and no cursor runs ahead of what was said.
LEMMA PaceStep ==
    ASSUME OneBot, StrangerInv, OnPace, [Next]_vars
    PROVE  OnPace'
<1>1. row \in Rows /\ poll \in Polls /\ WireTypes
  BY DEF StrangerInv, WireTypes
<1>2. row.bot \in TelegramBots /\ row.chat # None /\ Asking => poll.chat = row.chat
  BY DEF OnPace
\* The ends are checked at the one bot.
<1>3. ASSUME UNCHANGED updates,
             row'.bot \in TelegramBots /\ row'.chat # None /\ Asking' => poll'.chat = row'.chat,
             \A b \in TelegramBots :
                /\ acked'[b] <= Last(b) /\ row'.offset <= Last(b) + 1
                /\ poll'.at \in {"menu", "asked"} => poll'.offset <= Last(b) + 1
      PROVE  OnPace'
  BY <1>3 DEF OnPace, Last
\* Nothing but the tick, and it stops.
<1>4. ASSUME UNCHANGED <<updates, acked>>, poll'.at \in {"idle", "greet"} \/ poll' = poll,
             \/ row'.bot = row.bot /\ row'.chat = row.chat /\ row'.offset = row.offset
             \/ row'.chat = None /\ row'.offset = 0
      PROVE  OnPace'
  <2>1. \A b \in TelegramBots : Last(b) \in Nat
    BY OneTick
  <2>2. \A b \in TelegramBots : row'.offset <= Last(b) + 1
    BY <1>4, <2>1 DEF OnPace
  <2>3. row'.bot \in TelegramBots /\ row'.chat # None /\ Asking' => poll'.chat = row'.chat
    BY <1>2, <1>4 DEF Asking
  <2>4. \A b \in TelegramBots : poll'.at \in {"menu", "asked"} => poll'.offset <= Last(b) + 1
    BY <1>4 DEF OnPace
  <2> QED
    BY <1>3, <1>4, <2>2, <2>3, <2>4 DEF OnPace
<1>5. IdlePoll.at = "idle"
  BY DEF IdlePoll
<1>6. CASE (\E b \in Bots : ConnectWritesToken(b)) \/ ConnectRegisters \/ NonceLapses
           \/ PollFails \/ MenuFails \/ GateOpens \/ GateDrops \/ GateRefused
           \/ Dies \/ Restarts \/ UNCHANGED vars
  <2>1. UNCHANGED <<updates, acked, row>> /\ (poll' = IdlePoll \/ poll' = poll)
    BY <1>6 DEF ConnectWritesToken, ConnectRegisters, NonceLapses, PollFails, MenuFails,
         GateOpens, GateDrops, GateRefused, Dies, Restarts, vars, wire, ends, said
  <2> QED
    BY <1>4, <1>5, <2>1
<1>7. CASE RetireLapsedNonce \/ PollGreets \/ GateGreets
  <2>1. UNCHANGED <<updates, acked>> /\ (poll' = IdlePoll \/ poll' = poll)
    BY <1>7 DEF RetireLapsedNonce, PollGreets, GateGreets, ends, said
  <2>2. row'.bot = row.bot /\ row'.chat = row.chat /\ row'.offset = row.offset
    BY <1>1, <1>7 DEF RetireLapsedNonce, PollGreets, GateGreets, QueueWelcome, Rows
  <2> QED
    BY <1>4, <1>5, <2>1, <2>2
<1>8. CASE ConnectArms
  <2>1. connecting.bot \in Bots
    BY <1>1, <1>8 DEF ConnectArms, WireTypes
  <2>2. row'.chat = None /\ row'.offset = 0 /\ UNCHANGED <<updates, acked, poll>>
    BY <1>1, <1>8, <2>1, RowFields DEF ConnectArms, ends, said, WireTypes
  <2> QED
    BY <1>4, <2>2
<1>9. CASE PollAsks
  <2>1. row'.bot = row.bot /\ row'.chat = row.chat /\ row'.offset = row.offset
    BY <1>1, <1>9 DEF PollAsks, wire, Rows
  <2>2. poll'.chat = row.chat /\ poll'.offset = row.offset /\ UNCHANGED <<updates, acked>>
    BY <1>9 DEF PollAsks, said
  <2> QED
    BY <1>3, <2>1, <2>2 DEF OnPace
<1>26. CASE RegisterMenu
  <2>1. row'.bot = row.bot /\ row'.chat = row.chat /\ row'.offset = row.offset
    BY <1>1, <1>26 DEF RegisterMenu, Rows
  <2>2. /\ poll.at = "menu" /\ poll'.chat = poll.chat /\ poll'.offset = poll.offset
        /\ UNCHANGED <<updates, acked>>
    BY <1>1, <1>26 DEF RegisterMenu, said, WireTypes, Polls
  <2> QED
    BY <1>3, <2>1, <2>2 DEF OnPace, Asking
<1>10. CASE PollAnswered
  <2>1. UNCHANGED <<row, updates>> /\ poll.at = "asked"
    BY <1>10 DEF PollAnswered, wire
  <2>2. poll'.at \notin {"menu", "asked"} /\ (poll'.at = "got" => poll'.chat = poll.chat)
    BY <1>1, <1>5, <1>10 DEF PollAnswered, Polls
  <2>3. Asking
    BY <2>1 DEF Asking
  <2>4. row'.bot \in TelegramBots /\ row'.chat # None /\ Asking' => poll'.chat = row'.chat
    BY <1>2, <2>1, <2>2, <2>3 DEF Asking
  <2>5. ASSUME NEW b \in TelegramBots
        PROVE  acked'[b] <= Last(b)
    <3> DEFINE from == IF poll.offset > acked[b] THEN poll.offset ELSE acked[b] + 1
    <3>1. poll.bot = b /\ acked \in [TelegramBots -> Numbers]
      BY <1>1, <2>3, OneTick DEF WireTypes
    <3>2. acked' = [acked EXCEPT ![b] = from - 1]
      BY <1>10, <3>1 DEF PollAnswered
    <3>3. from - 1 <= Last(b)
      <4>1. poll.offset \in Nat /\ acked[b] \in Nat /\ Last(b) \in Nat
        BY OneTick
      <4>2. poll.offset <= Last(b) + 1 /\ acked[b] <= Last(b)
        BY <2>1 DEF OnPace
      <4> QED
        BY <4>1, <4>2
    <3> QED
      BY <3>1, <3>2, <3>3
  <2> QED
    BY <1>3, <2>1, <2>2, <2>4, <2>5 DEF OnPace
<1>11. CASE ApplyAwaiting
  <2>1. poll'.at \in {"idle", "greet"} /\ UNCHANGED <<updates, acked>>
    BY <1>11 DEF ApplyAwaiting, IdlePoll, said
  <2>2. ASSUME NEW b \in TelegramBots
        PROVE  row'.offset <= Last(b) + 1
    <3>1. row'.offset <= row.offset \/ row'.offset <= Last(b) + 1
      BY <1>11, AwaitingMoves
    <3>2. row.offset <= Last(b) + 1 /\ row.offset \in Nat /\ Last(b) \in Nat
      BY OneTick DEF OnPace
    <3>3. row'.offset \in Nat
      BY TypesStep DEF WireTypes, Rows, Numbers
    <3> QED
      BY <3>1, <3>2, <3>3
  <2> QED
    BY <1>3, <2>1, <2>2 DEF Asking, OnPace
<1>12. CASE ApplyBound
  <2>1. poll'.at = "idle" /\ UNCHANGED <<updates, acked>> /\ row'.offset = poll.last + 1
    BY <1>1, <1>12 DEF ApplyBound, IdlePoll, Rows
  <2>2. ASSUME NEW b \in TelegramBots
        PROVE  row'.offset <= Last(b) + 1
    BY <1>12, <2>1, OneTick DEF ApplyBound
  <2> QED
    BY <1>3, <2>1, <2>2 DEF Asking, OnPace
<1>13. ASSUME NEW who \in People, NEW n \in 0..MaxArms, Dm(who, n)
       PROVE  OnPace'
  <2>1. UNCHANGED <<poll, updates, acked>>
    BY <1>13 DEF Dm, GateHears
  <2>2. CASE row' = row
    BY <1>4, <2>1, <2>2
  <2>3. CASE row.bot \notin TelegramBots /\ row'.bot = row.bot /\ row'.offset = 0
    <3>1. \A b \in TelegramBots : Last(b) \in Nat
      BY OneTick
    <3> QED
      BY <1>3, <2>1, <2>3, <3>1 DEF OnPace
  <2> QED
    BY <1>13, <2>2, <2>3, GateKeepsOff
<1>14. ASSUME NEW b \in TelegramBots, NEW who \in People, NEW n \in 0..MaxArms, SaysTo(b, who, n)
       PROVE  OnPace'
  <2> DEFINE w == [from |-> who, nonce |-> n, under |-> IF row.bot = b /\ row.chat = who THEN armed ELSE 0]
  <2>1. w \in Words
    BY <1>1, WireAssumption DEF Words, Numbers, WireTypes
  <2>2. updates' = [updates EXCEPT ![b] = Append(@, w)] /\ UNCHANGED <<row, poll, acked>>
    BY <1>14 DEF SaysTo, wire, ends
  <2>3. Len(updates'[b]) = Len(updates[b]) + 1 /\ Len(updates[b]) \in Nat
    BY <1>1, <2>1, <2>2, SaysOne, WordsAreWords
  <2>4. \A c \in TelegramBots : c = b
    BY DEF OneBot
  <2>5. acked[b] <= Last(b) /\ row.offset <= Last(b) + 1
        /\ (poll.at \in {"menu", "asked"} => poll.offset <= Last(b) + 1)
    BY DEF OnPace
  <2>6. acked[b] \in Nat /\ row.offset \in Nat /\ poll.offset \in Nat /\ Base[b] \in Nat
    BY OneTick
  <2>7. Last(b)' = Last(b) + 1
    BY <2>3, <2>6 DEF Last
  <2>8. Last(b) \in Nat
    BY OneTick
  <2>9. acked[b] <= Last(b)' /\ row.offset <= Last(b)' + 1
        /\ (poll.at \in {"menu", "asked"} => poll.offset <= Last(b)' + 1)
    BY <2>5, <2>6, <2>7, <2>8
  <2>10. \A c \in TelegramBots :
           /\ acked[c] <= Last(c)' /\ row.offset <= Last(c)' + 1
           /\ poll.at \in {"menu", "asked"} => poll.offset <= Last(c)' + 1
    BY <2>4, <2>9
  <2> QED
    BY <1>2, <2>2, <2>10 DEF OnPace, Asking
<1> QED
  BY <1>6, <1>7, <1>8, <1>9, <1>10, <1>11, <1>12, <1>13, <1>14, <1>26 DEF Next

\* What was owed is still owed, or has just been stored.
LEMMA OwedStays ==
    ASSUME OneBot, StrangerInv, OnPace, [Next]_vars, UNCHANGED <<updates, armed>>,
           NEW b \in TelegramBots, NEW i \in DOMAIN updates[b], IsOwed(b, i)
    PROVE  IsOwed(b, i)'
<1>1. row \in Rows /\ poll \in Polls /\ WireTypes
  BY DEF StrangerInv, WireTypes
<1>2. /\ row.offset \in Nat /\ poll.offset \in Nat /\ poll.last \in Nat /\ acked[b] \in Nat
      /\ Last(b) \in Nat /\ Base[b] \in Nat /\ i \in Nat /\ Base[b] + i <= Last(b)
      /\ Asking => poll.bot = b
  BY OneTick
<1>3. row.bot = b /\ row.chat # None /\ row.chat = updates[b][i].from
  BY DEF IsOwed
<1>4. stored \subseteq stored'
  BY DEF Next, ConnectWritesToken, ConnectArms, ConnectRegisters, NonceLapses, RetireLapsedNonce,
         PollAsks, RegisterMenu, PollAnswered, PollFails, ApplyAwaiting, ApplyBound, PollGreets,
         MenuFails,
         GateOpens, GateDrops, GateRefused, GateGreets, Dm, GateHears, SaysTo, Dies, Restarts,
         vars, said
<1>5. Heard(b, i) => Heard(b, i)'
  BY <1>4 DEF Heard
<1>6. Asking => poll.chat = row.chat
  BY <1>3 DEF OnPace
\* The row keeps its binding and its cursor.
<1>7. ASSUME row'.bot = row.bot, row'.chat = row.chat, row'.offset = row.offset, UNCHANGED acked,
             Asking' => (Asking /\ poll'.offset = poll.offset) \/ poll'.offset = row.offset
      PROVE  IsOwed(b, i)'
  BY <1>3, <1>5, <1>7 DEF IsOwed
<1>8. IdlePoll.at = "idle"
  BY DEF IdlePoll
<1>9. CASE (\E c \in Bots : ConnectWritesToken(c)) \/ ConnectRegisters \/ NonceLapses
           \/ PollFails \/ MenuFails \/ GateOpens \/ GateDrops \/ GateRefused
           \/ Dies \/ Restarts \/ UNCHANGED vars
           \/ (\E c \in TelegramBots, who \in People, n \in 0..MaxArms : SaysTo(c, who, n))
  <2>1. UNCHANGED <<acked, row>> /\ (poll' = IdlePoll \/ poll' = poll)
    BY <1>9 DEF ConnectWritesToken, ConnectRegisters, NonceLapses, PollFails, MenuFails,
         GateOpens, GateDrops, GateRefused, Dies, Restarts, SaysTo, vars, wire, ends, said
  <2> QED
    BY <1>7, <1>8, <2>1 DEF Asking
<1>10. CASE RetireLapsedNonce \/ PollGreets \/ GateGreets
  <2>1. UNCHANGED acked /\ (poll' = IdlePoll \/ poll' = poll)
    BY <1>10 DEF RetireLapsedNonce, PollGreets, GateGreets, ends, said
  <2>2. row'.bot = row.bot /\ row'.chat = row.chat /\ row'.offset = row.offset
    BY <1>1, <1>10 DEF RetireLapsedNonce, PollGreets, GateGreets, QueueWelcome, Rows
  <2> QED
    BY <1>7, <1>8, <2>1, <2>2 DEF Asking
<1>11. CASE ConnectArms
  BY <1>1, <1>11 DEF ConnectArms, WireTypes, Numbers
<1>12. CASE PollAsks
  <2>1. row'.bot = row.bot /\ row'.chat = row.chat /\ row'.offset = row.offset
    BY <1>1, <1>12 DEF PollAsks, wire, Rows
  <2>2. poll'.offset = row.offset /\ UNCHANGED acked
    BY <1>12 DEF PollAsks, said
  <2> QED
    BY <1>7, <2>1, <2>2
<1>26. CASE RegisterMenu
  <2>1. row'.bot = row.bot /\ row'.chat = row.chat /\ row'.offset = row.offset
    BY <1>1, <1>26 DEF RegisterMenu, Rows
  <2>2. poll.at = "menu" /\ poll'.offset = poll.offset /\ UNCHANGED acked
    BY <1>1, <1>26 DEF RegisterMenu, said, WireTypes, Polls
  <2> QED
    BY <1>7, <2>1, <2>2 DEF Asking
<1>13. CASE PollAnswered
  <2>1. UNCHANGED row /\ poll.at = "asked" /\ poll.bot = b
    BY <1>2, <1>13 DEF PollAnswered, wire, Asking
  <2> DEFINE from == IF poll.offset > acked[b] THEN poll.offset ELSE acked[b] + 1
  <2>2. from \in Nat
    BY <1>2
  <2>3. acked'[b] = from - 1
    BY <1>1, <1>13, <2>1 DEF PollAnswered, WireTypes
  <2>4. Asking' => poll'.offset = from
    BY <1>1, <1>8, <1>13, <2>1 DEF PollAnswered, Polls, Asking
  <2>5. CASE Heard(b, i)
    BY <1>3, <1>5, <2>1, <2>5 DEF IsOwed
  <2>6. CASE ~Heard(b, i)
    <3>1. row.offset <= Base[b] + i /\ acked[b] < Base[b] + i /\ poll.offset <= Base[b] + i
      BY <2>1, <2>6 DEF IsOwed, Asking
    <3>2. from <= Base[b] + i /\ from - 1 < Base[b] + i
      BY <1>2, <3>1
    <3> HIDE DEF from
    <3> QED
      BY <1>3, <2>1, <2>3, <2>4, <3>1, <3>2 DEF IsOwed
  <2> QED
    BY <2>5, <2>6
<1>14. CASE ApplyAwaiting
  BY <1>3, <1>6, <1>14 DEF ApplyAwaiting, Asking
<1>15. CASE ApplyBound
  <2>1. poll.at = "got" /\ poll.bot = b /\ poll.chat = row.chat
    BY <1>2, <1>6, <1>15 DEF ApplyBound, Asking
  <2>2. /\ row'.bot = row.bot /\ row'.chat = row.chat /\ row'.offset = poll.last + 1
        /\ UNCHANGED acked /\ ~Asking'
    BY <1>1, <1>8, <1>15 DEF ApplyBound, Rows, Asking
  <2>3. CASE Heard(b, i)
    BY <1>3, <1>5, <2>2, <2>3 DEF IsOwed
  <2>4. CASE ~Heard(b, i) /\ poll.last < Base[b] + i
    <3>1. acked[b] < Base[b] + i
      BY <2>4 DEF IsOwed
    <3>2. poll.last + 1 <= Base[b] + i
      BY <1>2, <2>4
    <3> QED
      BY <1>3, <2>2, <3>1, <3>2 DEF IsOwed
  <2>5. CASE ~Heard(b, i) /\ Base[b] + i <= poll.last
    <3> DEFINE n == Base[b] + i
    <3>1. n \in Batch
      <4>1. poll.offset <= n
        BY <2>1, <2>5 DEF IsOwed, Asking
      <4> QED
        BY <1>2, <2>5, <4>1 DEF Batch
    <3>2. n - Base[b] = i
      BY <1>2
    <3>3. Update(poll.bot, n).from = poll.chat
      BY <1>3, <2>1, <3>2 DEF Update
    <3>4. n \notin EventIds
      <4>1. \A e \in stored : e.bot \in TelegramBots => e.bot = b
        BY DEF OneBot
      <4> QED
        BY <2>5, <4>1 DEF EventIds, Heard
    <3>5. [bot |-> poll.bot, id |-> n, from |-> Update(poll.bot, n).from] \in stored'
      BY <1>15, <3>1, <3>3, <3>4 DEF ApplyBound
    <3>6. Heard(b, i)'
      BY <2>1, <3>5 DEF Heard
    <3> QED
      BY <1>3, <2>2, <3>6 DEF IsOwed
  <2> QED
    BY <1>2, <2>3, <2>4, <2>5
<1>16. ASSUME NEW who \in People, NEW n \in 0..MaxArms, Dm(who, n)
       PROVE  IsOwed(b, i)'
  <2>1. UNCHANGED <<poll, acked>>
    BY <1>16 DEF Dm, GateHears
  <2>2. row' = row
    BY <1>3, <1>16, GateKeepsOff
  <2> QED
    BY <1>7, <2>1, <2>2 DEF Asking
<1> QED
  BY <1>9, <1>10, <1>11, <1>12, <1>13, <1>14, <1>15, <1>16, <1>26 DEF Next

LEMMA OwesStep ==
    ASSUME OneBot, StrangerInv, OnPace, Owes, [Next]_vars
    PROVE  Owes'
<1>1. WireTypes /\ armed \in Nat
  BY DEF StrangerInv, WireTypes, Numbers
<1>2. \A b \in TelegramBots : \A i \in DOMAIN updates[b] :
        updates[b][i].under \in Nat /\ updates[b][i].under <= armed
  BY <1>1, WordsAreWords DEF Words, Numbers, Owes
<1>3. CASE UNCHANGED <<updates, armed>>
  <2>1. ASSUME NEW b \in TelegramBots, NEW i \in DOMAIN updates[b],
               updates[b][i].under = armed, armed # 0
        PROVE  IsOwed(b, i)'
    <3>1. IsOwed(b, i)
      BY <2>1 DEF Owes
    <3> QED
      BY <1>3, <3>1, OwedStays
  <2> QED
    BY <1>2, <1>3, <2>1 DEF Owes
<1>4. CASE ConnectArms
  <2>1. armed' = armed + 1 /\ UNCHANGED updates
    BY <1>4 DEF ConnectArms, said
  <2>2. \A b \in TelegramBots : \A i \in DOMAIN updates'[b] :
          updates'[b][i].under <= armed' /\ updates'[b][i].under # armed'
    BY <1>1, <1>2, <2>1
  <2> QED
    BY <2>2 DEF Owes
<1>5. ASSUME NEW b \in TelegramBots, NEW who \in People, NEW n \in 0..MaxArms, SaysTo(b, who, n)
      PROVE  Owes'
  <2> DEFINE w == [from |-> who, nonce |-> n, under |-> IF row.bot = b /\ row.chat = who THEN armed ELSE 0]
  <2>1. w \in Words
    BY <1>1, WireAssumption DEF Words, Numbers
  <2>2. updates' = [updates EXCEPT ![b] = Append(@, w)]
        /\ UNCHANGED <<row, armed, poll, acked, stored>>
    BY <1>5 DEF SaysTo, wire, ends
  <2>3. /\ \A i \in DOMAIN updates[b] : updates'[b][i] = updates[b][i]
        /\ \A i \in DOMAIN updates'[b] :
             i \in DOMAIN updates[b] \/ (i = Len(updates[b]) + 1 /\ updates'[b][i] = w)
    BY <1>1, <2>1, <2>2, SaysOne
  <2>4. w.from = who /\ w.under = IF row.bot = b /\ row.chat = who THEN armed ELSE 0
    OBVIOUS
  <2> HIDE DEF w
  <2>5. \A c \in TelegramBots : c = b
    BY DEF OneBot
  <2>6. ASSUME NEW i \in DOMAIN updates[b]
        PROVE  /\ updates'[b][i].under <= armed
               /\ updates'[b][i].under = armed /\ armed # 0 => IsOwed(b, i)'
    <3>1. updates'[b][i] = updates[b][i] /\ updates[b][i].under <= armed
      BY <2>3 DEF Owes
    <3>2. ASSUME updates[b][i].under = armed, armed # 0
          PROVE  IsOwed(b, i)'
      <4>1. IsOwed(b, i)
        BY <3>2 DEF Owes
      <4>2. (Heard(b, i) <=> Heard(b, i)') /\ (Asking <=> Asking')
        BY <2>2 DEF Heard, Asking
      <4> QED
        BY <2>2, <3>1, <4>1, <4>2 DEF IsOwed
    <3> QED
      BY <3>1, <3>2
  <2>7. ASSUME NEW i, i = Len(updates[b]) + 1, updates'[b][i] = w
        PROVE  /\ updates'[b][i].under <= armed
               /\ updates'[b][i].under = armed /\ armed # 0 => IsOwed(b, i)'
    <3>1. updates'[b][i].under <= armed
      BY <1>1, <2>4, <2>7
    <3>2. ASSUME updates'[b][i].under = armed, armed # 0
          PROVE  IsOwed(b, i)'
      <4>1. row.bot = b /\ row.chat = who
        BY <1>1, <2>4, <2>7, <3>2
      <4>2. row.chat # None
        BY <4>1 DEF People, None, Seller
      <4>3. Asking => poll.offset <= Last(b) + 1
        <5>1. poll.at \in {"menu", "asked"} => poll.offset <= Last(b) + 1
          BY DEF OnPace
        <5>2. poll.at = "got" => poll.offset <= Last(b) + 1
          BY OneTick
        <5> QED
          BY <5>1, <5>2 DEF Asking
      <4>4. /\ Last(b) \in Nat /\ acked[b] \in Nat
            /\ row.offset \in Nat /\ poll.offset \in Nat
        BY OneTick
      <4>5. row.offset <= Last(b) + 1 /\ acked[b] <= Last(b)
        BY DEF OnPace
      <4>7. Base[b] + i = Last(b) + 1
        <5>1. WireTypes
          BY DEF StrangerInv
        <5>2. Base[b] \in Nat /\ Len(updates[b]) \in Nat
          BY <5>1, WireAssumption, WordsAreWords
        <5> QED
          BY <2>7, <5>2 DEF Last
      <4>8. acked[b] < Base[b] + i /\ row.offset <= Base[b] + i
            /\ (Asking => poll.offset <= Base[b] + i)
        BY <4>3, <4>4, <4>5, <4>7
      <4>6. Asking <=> Asking'
        BY <2>2 DEF Asking
      <4> QED
        BY <2>2, <2>4, <2>7, <4>1, <4>2, <4>8, <4>6 DEF IsOwed
    <3> QED
      BY <3>1, <3>2
  <2>8. \A i \in DOMAIN updates'[b] :
          /\ updates'[b][i].under <= armed
          /\ updates'[b][i].under = armed /\ armed # 0 => IsOwed(b, i)'
    BY <2>3, <2>6, <2>7
  <2> QED
    BY <2>2, <2>5, <2>8 DEF Owes
<1>6. UNCHANGED <<updates, armed>> \/ ConnectArms
      \/ \E b \in TelegramBots, who \in People, n \in 0..MaxArms : SaysTo(b, who, n)
  BY DEF Next, ConnectWritesToken, ConnectArms, ConnectRegisters, NonceLapses, RetireLapsedNonce,
         PollAsks, RegisterMenu, PollAnswered, PollFails, ApplyAwaiting, ApplyBound, PollGreets,
         MenuFails,
         GateOpens, GateDrops, GateRefused, GateGreets, Dm, GateHears, Dies, Restarts,
         vars, wire, ends, said
<1> QED
  BY <1>3, <1>4, <1>5, <1>6

\* Where the seller keeps to one Telegram bot, whatever else they connect, what they said to
\* it under the binding there is was stored before Telegram was let discard it, over
\* re-connects, crashes and polls that outlive their provider.
THEOREM NothingIsLost == OneBot /\ Spec => []NothingLost
<1> SUFFICES ASSUME OneBot PROVE Spec => []NothingLost
  OBVIOUS
<1>1. StrangerInv /\ [Next]_vars => StrangerInv'
  BY TypesStep, EndsStep, NonceStep, StrangerStep DEF StrangerInv
<1>2. Init => OnPace /\ Owes
  <2> SUFFICES ASSUME Init PROVE OnPace /\ Owes
    OBVIOUS
  <2>1. ~Asking /\ row.chat = None /\ row.offset = 0 /\ acked = Base
        /\ \A b \in TelegramBots : updates[b] = <<>>
    BY DEF Init, Asking, IdlePoll, BlankRow
  <2>2. \A b \in TelegramBots : Last(b) = Base[b] /\ Base[b] \in Nat /\ DOMAIN updates[b] = {}
    BY <2>1, WireAssumption DEF Last
  <2>3. poll.at = "idle"
    BY DEF Init, IdlePoll
  <2> QED
    BY <2>1, <2>2, <2>3 DEF OnPace, Owes
<1>3. StrangerInv /\ OnPace /\ Owes /\ [Next]_vars => OnPace' /\ Owes'
  BY PaceStep, OwesStep
<1>4. StrangerInv /\ OnPace /\ Owes => NothingLost
  <2> SUFFICES ASSUME StrangerInv, Owes, NEW b \in TelegramBots, NEW i \in DOMAIN updates[b],
                      updates[b][i].under # 0, updates[b][i].under = armed,
                      Base[b] + i <= acked[b]
               PROVE  Heard(b, i)
    BY DEF NothingLost, Heard
  <2>1. IsOwed(b, i)
    BY DEF Owes
  <2>2. Base[b] \in Nat /\ i \in Nat /\ acked[b] \in Nat
    BY OneTick
  <2> QED
    BY <2>1, <2>2 DEF IsOwed
<1> QED
  BY StrangerInit, <1>1, <1>2, <1>3, <1>4, PTL DEF Spec
====
