-------------------------- MODULE ApicLease_proofs --------------------------
(* Proofs about ApicLease, for any agents, hosts and faults.                  *)
EXTENDS ApicLease, TLAPS

\* The agent has read a row, and will write what it has computed from it.
HasRead(a) == ctx[a].seen \notin {Unread, NoRow}

\* Where establish_sessions() is: it has only read the row of a url that there
\* is, and the recovery of an agent is one that need_recovery has asked for.
Scan(a) ==
    /\ ctx[a].seen # Unread => Scanning(a) /\ ctx[a].at <= Len(Urls)
    /\ ctx[a].mode = "recovery" => ctx[a].rec /\ ctx[a].session # NoOne

\* A leader has its session with its host, and its monitor refreshes no other row.
Settled(a) ==
    a \notin overtaken /\ ctx[a].mode = "idle" /\ ~ctx[a].rec =>
        ctx[a].lease = ctx[a].session /\ ctx[a].renewing \in {NoOne, ctx[a].lease}

\* The hosts whose rows the agent holds, refreshes, or has read and may write.
Uses(a, h) ==
    \/ ctx[a].lease = h
    \/ ctx[a].renewing = h
    \/ HasRead(a) /\ Here(a) = h

\* A row that is used exists.  As long as it has not run out it is fresh and
\* belongs to the only agent that uses it.
Held ==
    /\ \A a \in Agents, h \in Hosts : Uses(a, h) => row[h] # NoRow
    /\ \A h \in Hosts \ lapsed :
          /\ row[h] # NoRow => row[h].fresh
          /\ \A a \in Agents : Uses(a, h) => row[h].owner = a
          /\ \A a \in Agents : HasRead(a) /\ Here(a) = h => ctx[a].seen.owner = a

IInv == TypeOK /\ (\A a \in Agents : Scan(a) /\ Settled(a)) /\ Held

-----------------------------------------------------------------------------
\* What the proofs use of the constants.
LEMMA Constants ==
    /\ Len(Urls) \in Nat /\ Len(Urls) > 0
    /\ 1 \in 1..(Len(Urls) + 1)
    /\ NoOne \notin Hosts /\ NoOne \notin Agents
    /\ NoRow # Unread /\ NoRow \notin Row /\ Unread \notin Row
    /\ NoRow.owner = NoOne
<1>1. Len(Urls) \in Nat /\ Len(Urls) > 0
  BY LeaseAssumption
<1>2. NoOne \notin Hosts /\ NoOne \notin Agents
  BY LeaseAssumption
<1> QED  BY <1>1, <1>2 DEF NoRow, Unread, Row

\* The url at which the agent is belongs to a host.
LEMMA HereIsHost ==
    ASSUME TypeOK, NEW a \in Agents, ctx[a].at <= Len(Urls)
    PROVE  Here(a) \in Hosts
<1>1. ctx[a].at \in 1..Len(Urls)
  BY LeaseAssumption DEF TypeOK, Context
<1>2. DOMAIN Urls = 1..Len(Urls)
  BY LeaseAssumption
<1> QED  BY <1>1, <1>2 DEF Here, Hosts

\* An agent that turns to something else leaves the others alone.
LEMMA Turn ==
    ASSUME TypeOK, NEW a \in Agents, NEW c \in Context, Becomes(a, c),
           c.mode = "idle" => c.session # NoOne
    PROVE  /\ ctx' \in [Agents -> Context]
           /\ ctx'[a] = c
           /\ \A b \in Agents \ {a} : ctx'[b] = ctx[b]
           /\ \A b \in Agents : ctx'[b].mode = "idle" => ctx'[b].session # NoOne
<1>1. ctx \in [Agents -> Context]
  BY DEF TypeOK
<1>2. ctx' \in [Agents -> Context] /\ ctx'[a] = c /\ \A b \in Agents \ {a} : ctx'[b] = ctx[b]
  BY <1>1 DEF Becomes
<1>3. \A b \in Agents : ctx'[b].mode = "idle" => ctx'[b].session # NoOne
  BY <1>2 DEF TypeOK
<1> QED  BY <1>2, <1>3

\* The beginning of establish_sessions() keeps session, lease and the monitor.
LEMMA EstablishContext ==
    ASSUME NEW c \in Context, NEW mode \in {"normal", "recovery"}
    PROVE  LET e == Establish(c, mode)
           IN  /\ e \in Context
               /\ e.mode = mode /\ e.at = 1 /\ e.left = {} /\ e.seen = Unread
               /\ e.session = c.session /\ e.lease = c.lease /\ e.renewing = c.renewing
               /\ e.rec <=> c.rec /\ mode = "recovery"
<1>1. Establish(c, mode) \in Context
  <2>1. PICK rec \in BOOLEAN : rec = (c.rec /\ mode = "recovery")
    OBVIOUS
  <2>2. Establish(c, mode) = [c EXCEPT !.mode = mode, !.rec = rec, !.at = 1, !.left = {}, !.seen = Unread]
    BY <2>1 DEF Establish
  <2> QED  BY <2>2, Constants DEF Context
<1>2. LET e == Establish(c, mode)
      IN  /\ e.mode = mode /\ e.at = 1 /\ e.left = {} /\ e.seen = Unread
          /\ e.session = c.session /\ e.lease = c.lease /\ e.renewing = c.renewing
  BY DEF Establish, Context
<1>3. Establish(c, mode).rec <=> c.rec /\ mode = "recovery"
  BY DEF Establish, Context
<1> QED  BY <1>1, <1>2, <1>3

\* The agent that turns to c keeps what the invariant says of single agents, if c
\* has it and the others are overtaken as before.
LEMMA TurnScan ==
    ASSUME IInv, NEW a \in Agents, \A b \in Agents \ {a} : ctx'[b] = ctx[b],
           overtaken \subseteq overtaken' \cup {a}, Scan(a)', Settled(a)'
    PROVE  \A b \in Agents : Scan(b)' /\ Settled(b)'
<1> SUFFICES ASSUME NEW b \in Agents \ {a}
             PROVE  Scan(b)' /\ Settled(b)'
  OBVIOUS
<1>1. ctx'[b] = ctx[b] /\ Scan(b) /\ Settled(b)
  BY DEF IInv
<1> QED  BY <1>1 DEF Scan, Settled, Scanning

\* The rows stay as they are, and the agent comes to use no other row.
LEMMA TurnHeld ==
    ASSUME IInv, NEW a \in Agents, \A b \in Agents \ {a} : ctx'[b] = ctx[b],
           UNCHANGED <<row, lapsed>>,
           \A h \in Hosts : Uses(a, h)' => Uses(a, h),
           HasRead(a)' => HasRead(a) /\ Here(a)' = Here(a) /\ ctx'[a].seen = ctx[a].seen
    PROVE  Held'
<1>1. \A b \in Agents, h \in Hosts : Uses(b, h)' => Uses(b, h)
  BY DEF Uses, HasRead, Here
<1>2. \A b \in Agents, h \in Hosts :
         HasRead(b)' /\ Here(b)' = h =>
            HasRead(b) /\ Here(b) = h /\ ctx'[b].seen = ctx[b].seen
  BY DEF HasRead, Here
<1> QED  BY <1>1, <1>2 DEF IInv, Held

LEMMA BeginStep ==
    ASSUME IInv, NEW a \in Agents,
           Boot(a) \/ SessionLost(a) \/ Reconnect(a) \/ Recovery(a)
    PROVE  IInv'
<1>1. PICK mode \in {"normal", "recovery"} :
         Begin(a, mode) /\ (mode = "recovery" => ctx[a].rec /\ ctx[a].mode = "idle")
  BY DEF Boot, SessionLost, Reconnect, Recovery
<1>2. UNCHANGED <<row, up, lapsed, overtaken>> /\ faults' \in Nat
  BY DEF Boot, SessionLost, Reconnect, Recovery, Fault, IInv, TypeOK
<1> DEFINE c == Establish(ctx[a], mode)
<1>t. TypeOK /\ ctx[a] \in Context
  BY DEF IInv, TypeOK
<1>c. /\ c \in Context /\ c.mode = mode /\ c.seen = Unread
      /\ c.lease = ctx[a].lease /\ c.renewing = ctx[a].renewing
      /\ c.rec <=> ctx[a].rec /\ mode = "recovery"
      /\ c.session = ctx[a].session
  BY <1>t, EstablishContext
<1>3. /\ ctx' \in [Agents -> Context] /\ ctx'[a] = c
      /\ \A b \in Agents \ {a} : ctx'[b] = ctx[b]
      /\ \A b \in Agents : ctx'[b].mode = "idle" => ctx'[b].session # NoOne
  <2> HIDE DEF c
  <2>1. Becomes(a, c)
    BY <1>1 DEF Begin, c
  <2> QED  BY <1>t, <1>c, <2>1, Turn
<1> HIDE DEF c
<1>4. TypeOK'
  BY <1>t, <1>2, <1>3 DEF TypeOK
<1>5. Scan(a)' /\ Settled(a)'
  BY <1>1, <1>3, <1>c, <1>t DEF Scan, Settled, TypeOK
<1>6. Held'
  <2>1. ~HasRead(a)'
    BY <1>3, <1>c DEF HasRead
  <2> QED  BY <1>2, <1>3, <1>c, <2>1, TurnHeld DEF Uses
<1> QED  BY <1>2, <1>3, <1>4, <1>5, <1>6, TurnScan DEF IInv

LEMMA SkipStep ==
    ASSUME IInv, NEW a \in Agents, Scanning(a), ctx[a].at <= Len(Urls), Skip(a),
           UNCHANGED <<row, up, lapsed, overtaken, faults>>
    PROVE  IInv'
<1> DEFINE left == IF ctx[a].mode = "normal" THEN ctx[a].left \cup {Here(a)}
                   ELSE ctx[a].left
           c == [ctx[a] EXCEPT !.at = @ + 1, !.seen = Unread, !.left = left]
<1>t. TypeOK /\ ctx[a] \in Context
  BY DEF IInv, TypeOK
<1>l. left \in SUBSET Hosts
  BY <1>t, HereIsHost DEF Context
<1> HIDE DEF left
<1>n. ctx[a].at + 1 \in 1..(Len(Urls) + 1)
  BY <1>t, Constants DEF Context
<1>c. /\ c \in Context /\ c.mode = ctx[a].mode /\ c.seen = Unread
      /\ c.lease = ctx[a].lease /\ c.renewing = ctx[a].renewing
      /\ c.rec = ctx[a].rec /\ c.session = ctx[a].session
  <2>1. c \in Context
    BY <1>t, <1>l, <1>n, ZenonT(60) DEF Context
  <2>2. /\ c.mode = ctx[a].mode /\ c.seen = Unread
        /\ c.lease = ctx[a].lease /\ c.renewing = ctx[a].renewing
        /\ c.rec = ctx[a].rec /\ c.session = ctx[a].session
    BY <1>t DEF Context
  <2> QED  BY <2>1, <2>2
<1>3. /\ ctx' \in [Agents -> Context] /\ ctx'[a] = c
      /\ \A b \in Agents \ {a} : ctx'[b] = ctx[b]
      /\ \A b \in Agents : ctx'[b].mode = "idle" => ctx'[b].session # NoOne
  <2>1. Becomes(a, c) /\ c.mode # "idle"
    BY <1>c DEF Skip, left, Scanning
  <2> HIDE DEF c
  <2> QED  BY <1>t, <1>c, <2>1, Turn
<1> HIDE DEF c
<1>4. TypeOK'
  BY <1>t, <1>3 DEF TypeOK
<1>5. Scan(a)' /\ Settled(a)'
  BY <1>3, <1>c DEF Scan, Settled, IInv, Scanning
<1>6. Held'
  <2>1. ~HasRead(a)'
    BY <1>3, <1>c DEF HasRead
  <2> QED  BY <1>3, <1>c, <2>1, TurnHeld DEF Uses
<1> QED  BY <1>3, <1>4, <1>5, <1>6, TurnScan DEF IInv

\* A row that may be claimed and has not run out is the agent's own.
LEMMA ReadStep ==
    ASSUME IInv, NEW a \in Agents, Read(a)
    PROVE  IInv'
<1>1. CASE Skip(a)
  BY <1>1, SkipStep DEF Read
<1>2. CASE ~Skip(a)
  <2> DEFINE c == [ctx[a] EXCEPT !.seen = row[Here(a)]]
  <2>t. TypeOK /\ ctx[a] \in Context
    BY DEF IInv, TypeOK
  <2>h. Here(a) \in Hosts
    BY <2>t, HereIsHost DEF Read
  <2>r. row[Here(a)] \in Row \cup {NoRow} /\ ~Taken(a, row[Here(a)])
    BY <1>2, <2>h, <2>t DEF TypeOK, Read
  <2>c. /\ c \in Context /\ c.mode = ctx[a].mode /\ c.seen = row[Here(a)]
        /\ c.lease = ctx[a].lease /\ c.renewing = ctx[a].renewing
        /\ c.rec = ctx[a].rec /\ c.at = ctx[a].at /\ c.session = ctx[a].session
    BY <2>t, <2>r DEF Context
  <2>3. /\ ctx' \in [Agents -> Context] /\ ctx'[a] = c
        /\ \A b \in Agents \ {a} : ctx'[b] = ctx[b]
        /\ \A b \in Agents : ctx'[b].mode = "idle" => ctx'[b].session # NoOne
    <3>1. Becomes(a, c) /\ c.mode # "idle"
      BY <1>2, <2>c DEF Read, Scanning
    <3> HIDE DEF c
    <3> QED  BY <2>t, <2>c, <3>1, Turn
  <2> HIDE DEF c
  <2>u. UNCHANGED <<row, up, lapsed, overtaken, faults>>
    BY DEF Read
  <2>4. TypeOK'
    BY <2>t, <2>3, <2>u DEF TypeOK
  <2>5. Scan(a)' /\ Settled(a)'
    BY <2>3, <2>c DEF Scan, Settled, IInv, Scanning, Read
  <2>6. Held'
    <3>1. Here(a)' = Here(a)
      BY <2>3, <2>c DEF Here
    <3>2. \A h \in Hosts : Uses(a, h)' =>
             Uses(a, h) \/ (h = Here(a) /\ row[h] # NoRow)
      BY <2>3, <2>c, <3>1 DEF Uses, HasRead
    <3>3. \A b \in Agents \ {a}, h \in Hosts :
             /\ Uses(b, h)' => Uses(b, h)
             /\ HasRead(b)' /\ Here(b)' = h => HasRead(b) /\ Here(b) = h /\ ctx'[b].seen = ctx[b].seen
      BY <2>3 DEF Uses, HasRead, Here
    <3>4. Here(a) \notin lapsed /\ row[Here(a)] # NoRow =>
             row[Here(a)].fresh /\ row[Here(a)].owner = a
      BY <2>h, <2>r DEF IInv, Held, Taken
    <3>5. HasRead(a)' => row[Here(a)] # NoRow /\ ctx'[a].seen = row[Here(a)]
      BY <2>3, <2>c DEF HasRead
    <3> QED  BY <2>u, <3>1, <3>2, <3>3, <3>4, <3>5 DEF IInv, Held
  <2> QED  BY <2>3, <2>4, <2>5, <2>6, <2>u, TurnScan DEF IInv
<1> QED  BY <1>1, <1>2

\* The claim writes a row that nobody has, or one that is the agent's own, unless
\* it has run out.
LEMMA ClaimStep ==
    ASSUME IInv, NEW a \in Agents, Claim(a)
    PROVE  IInv'
<1> DEFINE c == [ctx[a] EXCEPT !.mode = "idle", !.rec = FALSE, !.lease = Here(a),
                               !.session = IF Direct(a) THEN @ ELSE Here(a),
                               !.at = 1, !.left = {}, !.seen = Unread]
<1>t. TypeOK /\ ctx[a] \in Context
  BY DEF IInv, TypeOK
<1>h. Here(a) \in Hosts
  BY <1>t, HereIsHost DEF Claim, IInv, Scan
<1>s. ctx[a].seen \in Row \cup {NoRow}
  BY <1>t DEF Claim, Context
<1>c. /\ c \in Context /\ c.mode = "idle" /\ c.seen = Unread /\ c.rec = FALSE
      /\ c.lease = Here(a) /\ c.session = Here(a) /\ c.renewing = ctx[a].renewing
  <2>1. c.session = Here(a)
    BY <1>t, <1>h DEF Context, Direct
  <2>2. c \in Context
    <3>1. (IF Direct(a) THEN ctx[a].session ELSE Here(a)) = Here(a)
      BY DEF Direct
    <3>2. c = [ctx[a] EXCEPT !.mode = "idle", !.rec = FALSE, !.lease = Here(a),
                             !.session = Here(a), !.at = 1, !.left = {}, !.seen = Unread]
      BY <3>1, Zenon
    <3> HIDE DEF c
    <3> QED  BY <1>t, <1>h, <3>2, Constants, ZenonT(60) DEF Context
  <2>3. /\ c.mode = "idle" /\ c.seen = Unread /\ c.rec = FALSE
        /\ c.lease = Here(a) /\ c.renewing = ctx[a].renewing
    BY <1>t DEF Context
  <2> QED  BY <2>1, <2>2, <2>3
<1>3. /\ ctx' \in [Agents -> Context] /\ ctx'[a] = c
      /\ \A b \in Agents \ {a} : ctx'[b] = ctx[b]
      /\ \A b \in Agents : ctx'[b].mode = "idle" => ctx'[b].session # NoOne
  <2>1. Becomes(a, c)
    BY DEF Claim
  <2> HIDE DEF c
  <2> QED  BY <1>t, <1>h, <1>c, <2>1, Turn, Constants
<1> HIDE DEF c
<1>w. Written(a, Here(a)) \in Row
  <2>1. ctx[a].seen.owner = a => row[Here(a)] # NoRow
    <3>1. ctx[a].seen.owner = a => ctx[a].seen # NoRow
      BY Constants
    <3>2. ctx[a].seen # Unread
      BY DEF Claim
    <3>3. ctx[a].seen.owner = a => Uses(a, Here(a))
      BY <3>1, <3>2 DEF Uses, HasRead
    <3>4. Uses(a, Here(a)) => row[Here(a)] # NoRow
      BY <1>h DEF IInv, Held
    <3> QED  BY <3>3, <3>4
  <2>2. row \in [Hosts -> Row \cup {NoRow}]
    BY <1>t DEF TypeOK
  <2>3. row[Here(a)] \in Row \cup {NoRow}
    BY <1>h, <2>2
  <2> QED  BY <2>1, <2>3 DEF Written, Row
<1>u. /\ UNCHANGED <<up, lapsed, faults>>
      /\ row' = [row EXCEPT ![Here(a)] = Written(a, Here(a))]
      /\ overtaken' \subseteq Agents /\ overtaken \subseteq overtaken' \cup {a}
  BY <1>t DEF Claim, TypeOK
<1>4. TypeOK'
  BY <1>t, <1>3, <1>h, <1>u, <1>w DEF TypeOK
<1>5. Scan(a)' /\ Settled(a)'
  <2>1. a \notin overtaken' => ctx[a].renewing \in {NoOne, Here(a)}
    BY DEF Claim
  <2> QED  BY <1>3, <1>c, <2>1 DEF Scan, Settled
<1>6. Held'
  <2>1. \A h \in Hosts : row'[h] = IF h = Here(a) THEN Written(a, h) ELSE row[h]
    BY <1>t, <1>u DEF TypeOK
  <2>2. \A b \in Agents \ {a}, h \in Hosts :
           /\ Uses(b, h)' => Uses(b, h)
           /\ HasRead(b)' /\ Here(b)' = h => HasRead(b) /\ Here(b) = h /\ ctx'[b].seen = ctx[b].seen
    BY <1>3 DEF Uses, HasRead, Here
  <2>3. ~HasRead(a)' /\ \A h \in Hosts : Uses(a, h)' => h = Here(a) \/ Uses(a, h)
    BY <1>3, <1>c DEF Uses, HasRead
  <2>4. \A h \in Hosts : row'[h] # NoRow \/ row'[h] = row[h]
    BY <1>w, <2>1, Constants
  <2>5. Written(a, Here(a)).fresh
    BY DEF Written
  <2>6. ASSUME Here(a) \notin lapsed
        PROVE  /\ Written(a, Here(a)).owner = a
               /\ \A b \in Agents \ {a} : ~Uses(b, Here(a))
    <3>1. CASE ctx[a].seen = NoRow
      <4>1. row[Here(a)] = NoRow
        BY <3>1 DEF Claim, Creatable
      <4> QED  BY <1>h, <3>1, <4>1, Constants DEF Written, IInv, Held
    <3>2. CASE ctx[a].seen # NoRow
      <4>1. HasRead(a) /\ Uses(a, Here(a))
        BY <3>2 DEF HasRead, Claim, Uses
      <4>2. row[Here(a)].owner = a /\ ctx[a].seen.owner = a
        BY <1>h, <2>6, <4>1 DEF IInv, Held
      <4> QED  BY <1>h, <2>6, <4>2 DEF Written, IInv, Held
    <3> QED  BY <3>1, <3>2
  <2>7. \A b \in Agents, h \in Hosts : Uses(b, h)' => row'[h] # NoRow
    BY <1>w, <2>1, <2>2, <2>3, Constants DEF IInv, Held
  <2>8. ASSUME NEW h \in Hosts \ lapsed
        PROVE  /\ row'[h] # NoRow => row'[h].fresh
               /\ \A b \in Agents : Uses(b, h)' => row'[h].owner = b
               /\ \A b \in Agents : HasRead(b)' /\ Here(b)' = h => ctx'[b].seen.owner = b
    <3>1. CASE h = Here(a)
      BY <2>1, <2>2, <2>3, <2>5, <2>6, <3>1 DEF IInv, Held
    <3>2. CASE h # Here(a)
      BY <2>1, <2>2, <2>3, <3>2 DEF IInv, Held
    <3> QED  BY <3>1, <3>2
  <2> QED  BY <1>u, <2>7, <2>8 DEF Held
<1> QED  BY <1>3, <1>4, <1>5, <1>6, <1>u, TurnScan DEF IInv

\* The ends of a scan that claims nothing, and the end of the process.
LEMMA EndStep ==
    ASSUME IInv, NEW a \in Agents, Backup(a) \/ Harakiri(a) \/ GiveUp(a) \/ Crash(a)
    PROVE  IInv'
<1>t. TypeOK /\ ctx[a] \in Context /\ Scan(a)
  BY DEF IInv, TypeOK
<1>u. UNCHANGED <<row, up, lapsed, overtaken>> /\ faults' \in Nat
  <2>1. UNCHANGED <<row, up, lapsed, overtaken>> /\ faults' \in {faults, faults - 1}
    BY DEF Backup, Harakiri, GiveUp, Crash, Fault
  <2>2. faults' = faults \/ faults > 0
    BY DEF Backup, Harakiri, GiveUp, Crash, Fault
  <2>3. faults \in Nat
    BY <1>t DEF TypeOK
  <2> QED  BY <2>1, <2>2, <2>3
<1>n. ctx[a].at \in Nat /\ Len(Urls) \in Nat
  BY <1>t, Constants DEF Context
<1>c. \E c \in Context :
         /\ Becomes(a, c)
         /\ c.mode = "idle" => c.rec /\ c.session # NoOne
         /\ c.mode # "recovery" /\ c.seen = Unread
         /\ c.lease \in {ctx[a].lease, NoOne}
         /\ c.renewing \in {ctx[a].renewing, NoOne}
  <2>1. CASE Backup(a)
    <3>1. PICK h \in ctx[a].left \cap up :
             Becomes(a, [ctx[a] EXCEPT !.mode = "idle", !.rec = TRUE, !.session = h,
                                       !.at = 1, !.left = {}])
      BY <2>1 DEF Backup
    <3> DEFINE c == [ctx[a] EXCEPT !.mode = "idle", !.rec = TRUE, !.session = h,
                                   !.at = 1, !.left = {}]
    <3>2. h \in Hosts /\ h # NoOne
      BY <1>t, Constants DEF TypeOK
    <3>3. c \in Context
      BY <1>t, <3>2, Constants, ZenonT(60) DEF Context
    <3>4. /\ c.mode = "idle" /\ c.rec = TRUE /\ c.session = h /\ c.seen = ctx[a].seen
          /\ c.lease = ctx[a].lease /\ c.renewing = ctx[a].renewing
      BY <1>t DEF Context
    <3>5. ctx[a].seen = Unread
      <4>1. ctx[a].at > Len(Urls)
        BY <2>1, Zenon DEF Backup, AtEnd
      <4>2. ctx[a].seen # Unread => ctx[a].at <= Len(Urls)
        BY <1>t DEF Scan
      <4> QED  BY <1>n, <4>1, <4>2
    <3> HIDE DEF c
    <3> QED  BY <3>1, <3>2, <3>3, <3>4, <3>5 DEF c
  <2>2. CASE Harakiri(a) \/ Crash(a)
    <3>1. Off \in Context
      BY Constants, Zenon DEF Off, Context
    <3>2. /\ Off.mode = "off" /\ Off.seen = Unread
          /\ Off.lease = NoOne /\ Off.renewing = NoOne
      BY DEF Off
    <3> QED  BY <2>2, <3>1, <3>2 DEF Harakiri, Crash
  <2>3. CASE GiveUp(a)
    <3> DEFINE c == [ctx[a] EXCEPT !.mode = "idle", !.at = 1, !.left = {}]
    <3>1. Becomes(a, c) /\ ctx[a].mode = "recovery"
      BY <2>3 DEF GiveUp, AtEnd
    <3>3. c \in Context
      BY <1>t, Constants, ZenonT(60) DEF Context
    <3>4. /\ c.mode = "idle" /\ c.rec = ctx[a].rec /\ c.session = ctx[a].session
          /\ c.seen = ctx[a].seen
          /\ c.lease = ctx[a].lease /\ c.renewing = ctx[a].renewing
      BY <1>t DEF Context
    <3>5. ctx[a].seen = Unread /\ ctx[a].rec /\ ctx[a].session # NoOne
      BY <1>t, <1>n, <2>3 DEF Scan, GiveUp, AtEnd
    <3> HIDE DEF c
    <3> QED  BY <3>1, <3>3, <3>4, <3>5 DEF c
  <2> QED  BY <2>1, <2>2, <2>3
<1>1. PICK c \in Context :
         /\ Becomes(a, c)
         /\ c.mode = "idle" => c.rec /\ c.session # NoOne
         /\ c.mode # "recovery" /\ c.seen = Unread
         /\ c.lease \in {ctx[a].lease, NoOne}
         /\ c.renewing \in {ctx[a].renewing, NoOne}
  BY <1>c
<1>2. /\ ctx' \in [Agents -> Context] /\ ctx'[a] = c
      /\ \A b \in Agents \ {a} : ctx'[b] = ctx[b]
      /\ \A b \in Agents : ctx'[b].mode = "idle" => ctx'[b].session # NoOne
  BY <1>t, <1>1, Turn
<1>3. TypeOK'
  BY <1>t, <1>2, <1>u DEF TypeOK
<1>4. Scan(a)' /\ Settled(a)'
  BY <1>1, <1>2 DEF Scan, Settled
<1>5. Held'
  <2>1. ~HasRead(a)'
    BY <1>1, <1>2 DEF HasRead
  <2>2. \A h \in Hosts : Uses(a, h)' => Uses(a, h)
    BY <1>1, <1>2, <2>1, Constants DEF Uses
  <2> QED  BY <1>2, <1>u, <2>1, <2>2, TurnHeld
<1> QED  BY <1>2, <1>3, <1>4, <1>5, <1>u, TurnScan DEF IInv

\* The monitor works on the row of the lease that it has looked at.
LEMMA RenewStep ==
    ASSUME IInv, NEW a \in Agents, BeginRenew(a) \/ Renew(a)
    PROVE  IInv'
<1>t. TypeOK /\ ctx[a] \in Context
  BY DEF IInv, TypeOK
<1>1. CASE BeginRenew(a)
  <2> DEFINE c == [ctx[a] EXCEPT !.renewing = ctx[a].lease]
  <2>c. /\ c \in Context /\ c.mode = ctx[a].mode /\ c.rec = ctx[a].rec
        /\ c.session = ctx[a].session /\ c.lease = ctx[a].lease /\ c.at = ctx[a].at
        /\ c.seen = ctx[a].seen /\ c.renewing = ctx[a].lease
    BY <1>t DEF Context
  <2>1. Becomes(a, c) /\ UNCHANGED <<row, up, lapsed, overtaken, faults>>
    BY <1>1 DEF BeginRenew
  <2> HIDE DEF c
  <2>2. /\ ctx' \in [Agents -> Context] /\ ctx'[a] = c
        /\ \A b \in Agents \ {a} : ctx'[b] = ctx[b]
        /\ \A b \in Agents : ctx'[b].mode = "idle" => ctx'[b].session # NoOne
    BY <1>t, <2>c, <2>1, Turn DEF TypeOK
  <2>3. TypeOK'
    BY <1>t, <2>1, <2>2 DEF TypeOK
  <2>4. Scan(a)' /\ Settled(a)'
    BY <2>c, <2>1, <2>2 DEF IInv, Scan, Settled, Scanning
  <2>5. Held'
    BY <2>c, <2>1, <2>2, TurnHeld DEF Uses, HasRead, Here
  <2> QED  BY <2>1, <2>2, <2>3, <2>4, <2>5, TurnScan DEF IInv
<1>2. CASE Renew(a)
  <2> DEFINE c == [ctx[a] EXCEPT !.lease = ctx[a].renewing, !.renewing = NoOne]
             g == ctx[a].renewing
  <2>c. /\ c \in Context /\ c.mode = ctx[a].mode /\ c.rec = ctx[a].rec
        /\ c.session = ctx[a].session /\ c.lease = g /\ c.at = ctx[a].at
        /\ c.seen = ctx[a].seen /\ c.renewing = NoOne
    BY <1>t DEF Context
  <2>1. /\ Becomes(a, c) /\ UNCHANGED <<up, lapsed, overtaken, faults>>
        /\ row' = [row EXCEPT ![g].fresh = TRUE]
    BY <1>2 DEF Renew
  <2> HIDE DEF c
  <2>g. g \in Hosts /\ g # NoOne /\ Uses(a, g) /\ row[g] \in Row
    BY <1>t, <1>2 DEF Renew, Context, TypeOK, Uses, IInv, Held
  <2> HIDE DEF g
  <2>r. \A h \in Hosts : /\ row'[h] \in Row \cup {NoRow}
                         /\ row'[h].owner = row[h].owner
                         /\ row'[h] = NoRow <=> row[h] = NoRow
                         /\ row[h].fresh => row'[h].fresh
                         /\ h # g => row'[h] = row[h]
    <3>1. row'[g] = [row[g] EXCEPT !.fresh = TRUE] /\ \A h \in Hosts \ {g} : row'[h] = row[h]
      BY <1>t, <2>1, <2>g DEF TypeOK
    <3>2. row'[g] \in Row /\ row'[g].owner = row[g].owner /\ row'[g].fresh
      BY <2>g, <3>1 DEF Row
    <3> QED  BY <1>t, <2>g, <3>1, <3>2, Constants DEF TypeOK
  <2>2. /\ ctx' \in [Agents -> Context] /\ ctx'[a] = c
        /\ \A b \in Agents \ {a} : ctx'[b] = ctx[b]
        /\ \A b \in Agents : ctx'[b].mode = "idle" => ctx'[b].session # NoOne
    BY <1>t, <2>c, <2>1, Turn DEF TypeOK
  <2>3. TypeOK'
    <3>1. row' \in [Hosts -> Row \cup {NoRow}]
      BY <1>t, <2>1, <2>r DEF TypeOK
    <3> QED  BY <1>t, <2>1, <2>2, <3>1 DEF TypeOK
  <2>4. Scan(a)' /\ Settled(a)'
    BY <2>c, <2>g, <2>1, <2>2 DEF IInv, Scan, Settled, Scanning, g
  <2>5. Held'
    <3>1. \A b \in Agents, h \in Hosts : Uses(b, h)' => Uses(b, h)
      BY <2>c, <2>2, <2>g, Constants DEF Uses, HasRead, Here
    <3>2. \A b \in Agents, h \in Hosts :
             HasRead(b)' /\ Here(b)' = h => HasRead(b) /\ Here(b) = h /\ ctx'[b].seen = ctx[b].seen
      BY <2>c, <2>2 DEF HasRead, Here
    <3> QED  BY <2>1, <2>r, <3>1, <3>2 DEF IInv, Held
  <2> QED  BY <2>1, <2>2, <2>3, <2>4, <2>5, TurnScan DEF IInv
<1> QED  BY <1>1, <1>2

\* Time, and the hosts.
LEMMA HostStep ==
    ASSUME IInv, NEW g \in Hosts, Expire(g) \/ HostDown(g) \/ HostUp(g)
    PROVE  IInv'
<1>t. TypeOK
  BY DEF IInv
<1>1. UNCHANGED <<ctx, overtaken>>
  BY DEF Expire, HostDown, HostUp
<1>2. \A b \in Agents : Scan(b)' /\ Settled(b)'
  BY <1>1 DEF IInv, Scan, Settled, Scanning
<1>3. \A b \in Agents : /\ HasRead(b)' <=> HasRead(b)
                        /\ Here(b)' = Here(b)
                        /\ \A h \in Hosts : Uses(b, h)' <=> Uses(b, h)
  BY <1>1 DEF Uses, HasRead, Here
<1>4. CASE Expire(g)
  <2>1. /\ row' = [row EXCEPT ![g].fresh = FALSE] /\ row[g] \in Row
        /\ lapsed' = lapsed \cup {g} /\ UNCHANGED <<up, faults>>
    BY <1>4, <1>t DEF Expire, TypeOK
  <2>2. /\ row'[g] \in Row /\ \A h \in Hosts \ {g} : row'[h] = row[h]
        /\ row' \in [Hosts -> Row \cup {NoRow}]
    BY <1>t, <2>1 DEF TypeOK, Row
  <2>3. TypeOK'
    BY <1>t, <1>1, <2>1, <2>2 DEF TypeOK
  <2>4. Held'
    <3>1. \A h \in Hosts : row'[h] # NoRow \/ row'[h] = row[h]
      BY <2>2, Constants
    <3>2. \A h \in Hosts \ lapsed' : h \in Hosts \ lapsed /\ row'[h] = row[h]
      BY <2>1, <2>2
    <3> QED  BY <1>1, <1>3, <3>1, <3>2 DEF IInv, Held
  <2> QED  BY <1>2, <2>3, <2>4 DEF IInv
<1>5. CASE HostDown(g) \/ HostUp(g)
  <2>1. UNCHANGED <<row, lapsed>> /\ up' \subseteq Hosts
    BY <1>5, <1>t DEF HostDown, HostUp, TypeOK
  <2>2. faults' \in Nat
    <3>1. faults \in Nat
      BY <1>t DEF TypeOK
    <3> QED  BY <1>5, <3>1 DEF HostDown, HostUp, Fault
  <2>3. TypeOK'
    BY <1>t, <1>1, <2>1, <2>2 DEF TypeOK
  <2>4. Held'
    BY <1>1, <1>3, <2>1 DEF IInv, Held
  <2> QED  BY <1>2, <2>3, <2>4 DEF IInv
<1> QED  BY <1>4, <1>5

LEMMA Inductive ==
    ASSUME IInv, [Next]_vars
    PROVE  IInv'
<1>1. CASE UNCHANGED vars
  BY <1>1 DEF vars, IInv, TypeOK, Scan, Settled, Held, Uses, HasRead, Here, Scanning
<1>2. ASSUME NEW a \in Agents, Step(a)
      PROVE  IInv'
  <2>1. CASE NoClaim(a)
    <3>1. ctx[a].at <= Len(Urls)
      BY <2>1 DEF NoClaim, IInv, Scan
    <3> QED  BY <2>1, <3>1, SkipStep DEF NoClaim
  <2> QED  BY <1>2, <2>1, BeginStep, ReadStep, ClaimStep, EndStep DEF Step
<1>3. ASSUME NEW a \in Agents, BeginRenew(a) \/ Renew(a)
      PROVE  IInv'
  BY <1>3, RenewStep
<1>4. ASSUME NEW a \in Agents, Reconnect(a) \/ Crash(a)
      PROVE  IInv'
  BY <1>4, BeginStep, EndStep
<1>5. ASSUME NEW h \in Hosts, Expire(h) \/ HostDown(h) \/ HostUp(h)
      PROVE  IInv'
  BY <1>5, HostStep
<1> QED  BY <1>1, <1>2, <1>3, <1>4, <1>5 DEF Next

LEMMA Initially == Init => IInv
<1> SUFFICES ASSUME Init
             PROVE  IInv
  OBVIOUS
<1>1. Off \in Context /\ Absent \in Context
  <2>1. Off \in Context
    BY Constants, Zenon DEF Off, Context
  <2> QED  BY <2>1 DEF Absent, Context
<1>2. \A a \in Agents : /\ ctx[a] \in Context
                        /\ ctx[a].mode \in {"off", "absent"} /\ ctx[a].seen = Unread
                        /\ ctx[a].lease = NoOne /\ ctx[a].renewing = NoOne
  BY <1>1 DEF Init, Off, Absent
<1>3. TypeOK
  <2>1. ctx \in [Agents -> Context]
    BY <1>1 DEF Init
  <2>2. faults \in Nat
    BY LeaseAssumption DEF Init
  <2> QED  BY <1>2, <2>1, <2>2 DEF Init, TypeOK
<1>4. \A a \in Agents : Scan(a) /\ Settled(a)
  BY <1>2 DEF Scan, Settled
<1>5. Held
  BY <1>2, Constants DEF Init, Held, Uses, HasRead
<1> QED  BY <1>3, <1>4, <1>5 DEF IInv

\* The rows of ApicAssignment and the contexts of the agents have their types, and
\* an agent at rest has a session.
THEOREM TypeCorrect == Spec => []TypeOK
<1>1. IInv => TypeOK
  BY DEF IInv
<1> QED  BY Initially, Inductive, <1>1, PTL DEF Spec

\* establish_sessions(): whoever leads a host has its session there, through every
\* sequence of claims, backups, recoveries, refreshes, crashes and lost hosts, unless
\* it was overtaken by its own monitor.
THEOREM LeadersAreOnTheirHosts == Spec => []LeaderOnItsHost
<1>1. IInv => LeaderOnItsHost
  BY DEF IInv, Settled, LeaderOnItsHost, Leads
<1> QED  BY Initially, Inductive, <1>1, PTL DEF Spec

\* _update_apic_assign_db() and is_available(): a host whose row never ran out has one
\* leader, although reading a row and claiming it are two transactions.
THEOREM HostsAreNotShared == Spec => []NotShared
<1>1. IInv => NotShared
  BY DEF IInv, Held, Uses, NotShared, Leads
<1> QED  BY Initially, Inductive, <1>1, PTL DEF Spec
=============================================================================
