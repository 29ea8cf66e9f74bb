---------------------------- MODULE ListenerProofs ----------------------------
(***************************************************************************)
(* Proofs about Listener, for any number of requests, forms, bind lines    *)
(* and starts: the file a start finds is whole, the secret it serves with  *)
(* stays, no change of the listener is lost, and HAProxy does not get the  *)
(* panel's port past the checks.                                           *)
(***************************************************************************)
EXTENDS Listener, FiniteSetTheorems, TLAPS

(***************************************************************************)
(* The inductive invariant.                                                *)
(***************************************************************************)

Whole(c) == c.whole = "yes"
Serving == {"listen", "tls", "serve", "closing"}
Carrying == {"open", "write", "rename"}
Storing == Carrying \cup {"marshal"}

\* A saver that is alone has the temporary file to itself, from the truncation on.
WritersAlone ==
  ~overlapped =>
    /\ \A p, q \in Savers : Saving(p) /\ Saving(q) => p = q
    /\ \A p \in Savers :
         /\ Saving(p) => req[p].fd \in Cells /\ disk.tmp = req[p].fd
         /\ req[p].pc = "write" => cells[req[p].fd] = Empty
         /\ req[p].pc = "rename" => cells[req[p].fd] = req[p].data
    /\ disk.file # 0 => Whole(cells[disk.file])

NamesApart == disk.tmp # 0 => disk.tmp # disk.file

DataMarshalled == \A p \in Savers : req[p].pc \in Carrying => req[p].data \in Config

\* main saves exactly while it boots, and requests come when it serves.
MainBoots ==
  /\ req[Main].pc \in Storing \cup {"idle"}
  /\ req[Main].pc # "idle" <=> panel.pc = "boot"
  /\ \A h \in Handlers : req[h].pc # "idle" => panel.pc \notin {"down", "boot"}

\* A generated secret is renamed into place before it is served with, by a boot
\* that nothing disturbs; from then on it is in memory, in what is being saved and
\* in what a start would find.
SecretKept ==
  /\ sealed = 0 <=> disk.file = 0
  /\ panel.pc = "boot" =>
       /\ sealed = 0 /\ cfg.secret # 0
       /\ req[Main].pc \in Carrying => req[Main].data = cfg
       /\ Saving(Main) => req[Main].fd \in Cells /\ disk.tmp = req[Main].fd
       /\ req[Main].pc = "write" => cells[req[Main].fd] = Empty
       /\ req[Main].pc = "rename" => cells[req[Main].fd] = cfg
  /\ panel.pc \in Serving => sealed # 0 /\ cfg.secret = sealed
  /\ \A h \in Handlers : /\ req[h].pc # "idle" => sealed # 0 /\ cfg.secret = sealed
                         /\ req[h].pc \in Carrying => req[h].data.secret = sealed
  /\ sealed # 0 => \A c \in {disk.file, disk.tmp} \ {0} : Whole(cells[c]) => cells[c].secret = sealed

\* What a check has found still holds for a request that nobody has disturbed.
Judged(r) ==
  /\ r.pc = "update" /\ ~r.disturbed /\ Collides(r.form, bind) => around
  /\ r.pc = "bind" /\ ~r.disturbed => ~Collides(cfg.listener, [r.row EXCEPT !.frontend = TRUE])

PortsJudged == \A h \in Handlers : Judged(req[h])

\* The port the checks look at.
PortOfSettings ==
  panel.pc \notin {"down", "ended"} /\ Collides(cfg.listener, bind) => around

\* Between listening and the choice of TLS, what is served is what will be.
RebindsAnnounced ==
  /\ RebindNotLost
  /\ panel.pc = "tls" /\ [panel.listener EXCEPT !.tls = cfg.listener.tls] # cfg.listener => Announced

IInv ==
  /\ TypeOK /\ WritersAlone /\ NamesApart /\ DataMarshalled /\ MainBoots /\ SecretKept
  /\ PortsJudged /\ RebindsAnnounced /\ PortOfSettings

(***************************************************************************)
(* Values.                                                                 *)
(***************************************************************************)

LEMMA DefaultTyped ==
  /\ DefaultListener \in ListenerSet /\ DefaultListener.addr \in Addrs
  /\ DefaultListener.port \in Ports /\ DefaultListener.tls \in {"off", "good", "bad"}
BY FormsAssumption, Zenon DEF ListenerSet

LEMMA IdleTyped ==
  /\ Idle \in Requests /\ Idle.pc = "idle" /\ Idle.data = Empty /\ Idle.fd = 0 /\ ~Idle.disturbed
  /\ Idle.form = DefaultListener
  /\ Idle.row = [addr |-> DefaultListener.addr, port |-> DefaultListener.port,
                 enabled |-> FALSE, frontend |-> FALSE]
<1> DEFINE row == [addr |-> DefaultListener.addr, port |-> DefaultListener.port,
                   enabled |-> FALSE, frontend |-> FALSE]
<1>1. row \in [addr : Addrs, port : Ports, enabled : BOOLEAN, frontend : BOOLEAN]
  BY DefaultTyped
<1> HIDE DEF row
<1>2. Idle = [pc |-> "idle", form |-> DefaultListener, row |-> row, changed |-> FALSE, again |-> FALSE,
              data |-> Empty, fd |-> 0, disturbed |-> FALSE]
  BY DEF Idle, row
<1>3. Idle \in Requests
  BY <1>1, <1>2, Zenon DEF Requests
<1> QED
  BY <1>2, <1>3 DEF row

LEMMA DefaultConfig ==
  Default \in Config /\ Whole(Default) /\ Default.secret = 0 /\ Default.listener = DefaultListener
<1>1. 0 \in Nat
  OBVIOUS
<1> QED
  BY <1>1, DefaultTyped, Zenon DEF Default, Config, Whole

LEMMA WholeIsConfig ==
  ASSUME NEW c \in Config \cup {Empty, Garbled}
  PROVE  Whole(c) <=> c \in Config
BY DEF Whole, Config, Empty, Garbled

LEMMA EmptyIsNone == ~Whole(Empty) /\ ~Whole(Garbled) /\ Empty # Garbled /\ Empty \notin Config
BY DEF Whole, Config, Empty, Garbled

\* Environment and defaults over what was loaded: a valid configuration with a secret.
LEMMA LoadedTyped ==
  ASSUME NEW c \in Config, NEW port \in EnvPorts, boots \in Nat
  PROVE  /\ Finalize(ApplyEnv(c, port)) \in Config
         /\ Finalize(ApplyEnv(c, port)).secret # 0
         /\ c.secret # 0 => Finalize(ApplyEnv(c, port)).secret = c.secret
<1> DEFINE d == ApplyEnv(c, port)
           n == IF d.listener.port = OutOfRange THEN DefaultListener.port ELSE d.listener.port
           s == IF c.secret = 0 THEN boots + 1 ELSE c.secret
           l == [d.listener EXCEPT !.port = n]
<1>1. c.listener \in ListenerSet /\ c.whole = "yes" /\ c.secret \in Nat
  BY DEF Config
<1>2. s \in Nat /\ s # 0 /\ (c.secret # 0 => s = c.secret)
  BY <1>1, SMT
<1>3. /\ d = [whole |-> c.whole, secret |-> c.secret, listener |-> d.listener]
      /\ d.listener \in [addr : Addrs, port : Ports \cup {OutOfRange}, tls : {"off", "good", "bad"}]
  <2>1. CASE port = Unset
    <3>1. d = c
      BY <2>1 DEF ApplyEnv
    <3> QED
      BY <1>1, <3>1 DEF Config, ListenerSet
  <2>2. CASE port # Unset
    <3> DEFINE m == [c.listener EXCEPT !.port = port]
    <3>1. d = [c EXCEPT !.listener = m] /\ port \in Ports \cup {OutOfRange}
      BY <2>2, FormsAssumption DEF ApplyEnv
    <3>2. m \in [addr : Addrs, port : Ports \cup {OutOfRange}, tls : {"off", "good", "bad"}]
      BY <1>1, <3>1 DEF ListenerSet
    <3> HIDE DEF m
    <3>3. /\ d.listener = m /\ d.whole = c.whole /\ d.secret = c.secret
          /\ d = [whole |-> d.whole, secret |-> d.secret, listener |-> d.listener]
      BY <1>1, <3>1 DEF Config
    <3> QED
      BY <3>2, <3>3
  <2> QED
    BY <2>1, <2>2
<1>4. n \in Ports
  BY <1>3, DefaultTyped
<1>5. l \in ListenerSet
  <2> HIDE DEF n, d
  <2> QED
    BY <1>3, <1>4 DEF ListenerSet
<1>6. Finalize(d) = [whole |-> c.whole, secret |-> s, listener |-> l]
  <2>1. d.secret = c.secret /\ d.whole = c.whole
    BY <1>3
  <2> HIDE DEF d
  <2>2. Finalize(d) = [d EXCEPT !.listener = l, !.secret = s]
    BY <1>3, <2>1 DEF Finalize
  <2> HIDE DEF n, s, l
  <2> QED
    BY <1>3, <2>1, <2>2
<1> HIDE DEF d, n, s, l
<1>7. Finalize(d) \in Config /\ Finalize(d).secret = s
  BY <1>1, <1>2, <1>5, <1>6 DEF Config
<1> QED
  BY <1>2, <1>7 DEF d

\* There is a file for every writer: one that no name and no writer holds, when no
\* temporary file is left.
LEMMA FreeCellIsFree ==
  ASSUME TypeOK, disk.tmp = 0
  PROVE  FreeCell \in Cells /\ FreeCell \notin {disk.tmp, disk.file}
<1> DEFINE n == Cardinality(Handlers)
           held == {req[p].fd : p \in Savers}
<1>1. IsFiniteSet(Handlers) /\ n \in Nat
  BY SaversAssumption, FS_CardinalityType
<1>2. IsFiniteSet(Savers) /\ Cardinality(Savers) = n + 1
  BY <1>1, SaversAssumption, FS_AddElement DEF Savers
<1>3. IsFiniteSet(held) /\ Cardinality(held) <= n + 1 /\ Cardinality(held) \in Nat
  <2> DEFINE f == [p \in Savers |-> req[p].fd]
  <2>1. f \in Surjection(Savers, held)
    BY Zenon DEF Surjection
  <2> HIDE DEF f, held
  <2>2. IsFiniteSet(held) /\ Cardinality(held) <= Cardinality(Savers)
    BY <1>2, <2>1, FS_Surjection
  <2> QED
    BY <1>2, <2>2, FS_CardinalityType
<1>4. /\ IsFiniteSet(held \cup {disk.file}) /\ Cardinality(held \cup {disk.file}) <= n + 2
      /\ Cardinality(held \cup {disk.file}) \in Nat
  <2> DEFINE both == held \cup {disk.file}
  <2> HIDE DEF held, n
  <2>1. IsFiniteSet(both) /\ (Cardinality(both) = Cardinality(held) \/ Cardinality(both) = Cardinality(held) + 1)
    BY <1>3, FS_AddElement
  <2>2. Cardinality(both) \in Nat
    BY <2>1, FS_CardinalityType
  <2> HIDE DEF both
  <2>3. Cardinality(both) <= n + 2
    BY <1>1, <1>3, <2>1, <2>2, SMT
  <2> QED
    BY <2>1, <2>2, <2>3 DEF both
<1>5. IsFiniteSet(Cells) /\ Cardinality(Cells) = n + 3
  <2>1. n + 3 \in Int /\ 1 \in Int /\ 1 <= n + 3
    BY <1>1, SMT
  <2>2. IsFiniteSet(1..(n + 3)) /\ Cardinality(1..(n + 3)) = (n + 3) - 1 + 1
    BY <2>1, FS_Interval
  <2> QED
    BY <1>1, <2>2, SMT DEF Cells
<1>6. ~(Cells \subseteq held \cup {disk.file})
  <2> SUFFICES ASSUME Cells \subseteq held \cup {disk.file} PROVE FALSE
    OBVIOUS
  <2>1. Cardinality(Cells) <= Cardinality(held \cup {disk.file})
    BY <1>4, FS_Subset
  <2> HIDE DEF held
  <2> QED
    BY <1>1, <1>4, <1>5, <2>1, SMT
<1>7. PICK c \in Cells : c \notin held /\ c # disk.file
  BY <1>6
<1>8. c # disk.tmp
  <2>1. Cells \subseteq Nat \ {0}
    BY <1>1, SMT DEF Cells
  <2> QED
    BY <2>1
<1>9. c \notin {disk.tmp, disk.file} /\ \A p \in Savers : req[p].fd # c
  BY <1>7, <1>8
<1> QED
  BY <1>9 DEF FreeCell

\* The file a writer opens as .tmp.
LEMMA TmpIsApart ==
  ASSUME TypeOK, NamesApart
  PROVE  /\ Tmp \in [tmp : Cells \cup {0}, file : Cells \cup {0}]
         /\ Tmp.tmp \in Cells /\ Tmp.file = disk.file /\ Tmp.tmp # disk.file
         /\ disk.tmp # 0 => Tmp.tmp = disk.tmp
<1>1. disk \in [tmp : Cells \cup {0}, file : Cells \cup {0}]
  BY DEF TypeOK
<1>2. CASE disk.tmp = 0
  <2> DEFINE c == FreeCell
  <2>1. c \in Cells /\ c # disk.file
    BY <1>2, FreeCellIsFree
  <2>2. Tmp = [disk EXCEPT !.tmp = c]
    BY <1>2 DEF Tmp
  <2> HIDE DEF c
  <2> QED
    BY <1>1, <1>2, <2>1, <2>2
<1>3. CASE disk.tmp # 0
  <2>1. Tmp = disk
    BY <1>3 DEF Tmp
  <2> QED
    BY <1>1, <1>3, <2>1 DEF NamesApart
<1> QED
  BY <1>2, <1>3

(***************************************************************************)
(* Requests.                                                               *)
(***************************************************************************)

\* What a step of another does to a request: nothing, or it is disturbed.
Same(q, p) ==
  /\ p.pc = q.pc /\ p.form = q.form /\ p.row = q.row /\ p.changed = q.changed
  /\ p.again = q.again /\ p.data = q.data /\ p.fd = q.fd
  /\ q.disturbed => p.disturbed

Moves(p, r) ==
  /\ req' \in [Savers -> Requests] /\ req'[p] = r
  /\ \A q \in Savers \ {p} : Same(req[q], req'[q])

LEMMA StepMoves ==
  ASSUME req \in [Savers -> Requests], NEW p \in Savers, NEW r \in Requests, Step(p, r)
  PROVE  Moves(p, r)
BY Zenon DEF Step, Moves, Same

LEMMA DisturbsMoves ==
  ASSUME req \in [Savers -> Requests], NEW h \in Savers, NEW pcs, NEW r \in Requests,
         Disturbs(h, pcs, r)
  PROVE  /\ Moves(h, r)
         /\ \A q \in Savers \ {h} : req[q].pc \in pcs => req'[q].disturbed
<1>1. \A q \in Savers \ {h} : /\ req'[q] \in Requests /\ Same(req[q], req'[q])
                              /\ req[q].pc \in pcs => req'[q].disturbed
  <2> TAKE q \in Savers \ {h}
  <2> DEFINE b == req[q].disturbed \/ req[q].pc \in pcs
             d == req[q]
  <2>1. b \in BOOLEAN /\ d \in Requests
    BY DEF Requests
  <2>2. req'[q] = [d EXCEPT !.disturbed = b]
    BY Zenon DEF Disturbs
  <2>3. (d.disturbed => b) /\ (req[q].pc \in pcs => b)
    OBVIOUS
  <2> HIDE DEF b
  <2>4. req'[q] \in Requests /\ Same(d, req'[q]) /\ (b => req'[q].disturbed)
    <3> HIDE DEF d
    <3> QED
      BY <2>1, <2>2, <2>3, Zenon DEF Requests, Same
  <2> QED
    BY <2>3, <2>4
<1>2. req'[h] = r
  BY Zenon DEF Disturbs
<1>3. req' \in [Savers -> Requests]
  BY <1>1, <1>2, Zenon DEF Disturbs
<1> QED
  BY <1>1, <1>2, <1>3 DEF Moves

LEMMA Typed ==
  ASSUME TypeOK
  PROVE  /\ req \in [Savers -> Requests]
         /\ \A p \in Savers : req[p] \in Requests /\ req[p].changed \in BOOLEAN /\ req[p].again \in BOOLEAN
         /\ Main \in Savers /\ Handlers \subseteq Savers /\ Main \notin Handlers
<1>1. req \in [Savers -> Requests]
  BY DEF TypeOK
<1>2. \A p \in Savers : req[p] \in Requests /\ req[p].changed \in BOOLEAN /\ req[p].again \in BOOLEAN
  BY <1>1, Zenon DEF Requests
<1> QED
  BY <1>1, <1>2, SaversAssumption DEF Savers

\* A step of p that is not about files leaves the writers alone.
LEMMA AloneKept ==
  ASSUME TypeOK, WritersAlone, NEW p \in Savers, NEW r, Moves(p, r), r.pc \notin {"write", "rename"},
         UNCHANGED <<disk, cells, overlapped>>
  PROVE  WritersAlone'
<1>1. \A q \in Savers : req'[q].pc \in {"write", "rename"} =>
        req'[q].pc = req[q].pc /\ req'[q].fd = req[q].fd /\ req'[q].data = req[q].data
  BY DEF Moves, Same
<1>2. \A q \in Savers : Saving(q)' => Saving(q)
  BY <1>1 DEF Saving
<1> QED
  BY <1>1, <1>2 DEF WritersAlone, Saving

LEMMA DataKept ==
  ASSUME DataMarshalled, NEW p \in Savers, NEW r, Moves(p, r), r.pc \in Carrying => r.data \in Config
  PROVE  DataMarshalled'
BY DEF DataMarshalled, Moves, Same

LEMMA BootsKept ==
  ASSUME TypeOK, MainBoots, NEW h \in Handlers, NEW r, Moves(h, r), panel'.pc = panel.pc,
         r.pc # "idle" => req[h].pc # "idle" \/ panel.pc \in Serving
  PROVE  MainBoots'
BY Typed DEF MainBoots, Moves, Same, Serving

LEMMA SecretCarried ==
  ASSUME TypeOK, MainBoots, SecretKept, NEW h \in Handlers, NEW r, Moves(h, r), UNCHANGED <<sealed, disk, cells>>,
         panel'.pc = panel.pc, cfg'.secret = cfg.secret, panel.pc = "boot" => cfg' = cfg,
         r.pc # "idle" => req[h].pc # "idle" \/ panel.pc \in Serving,
         r.pc \in Carrying => r.data.secret = sealed
  PROVE  SecretKept'
<1>1. \A g \in Handlers : /\ req'[g].pc # "idle" => sealed # 0 /\ cfg.secret = sealed
                          /\ req'[g].pc \in Carrying => req'[g].data.secret = sealed
  BY Typed DEF SecretKept, Moves, Same
<1>2. /\ req'[Main].pc = req[Main].pc /\ req'[Main].data = req[Main].data /\ req'[Main].fd = req[Main].fd
  BY Typed DEF Moves, Same
<1>3. panel.pc = "boot" =>
       /\ sealed = 0 /\ cfg'.secret # 0
       /\ req'[Main].pc \in Carrying => req'[Main].data = cfg'
       /\ Saving(Main)' => req'[Main].fd \in Cells /\ disk.tmp = req'[Main].fd
       /\ req'[Main].pc = "write" => cells[req'[Main].fd] = Empty
       /\ req'[Main].pc = "rename" => cells[req'[Main].fd] = cfg'
  BY <1>2 DEF SecretKept, Saving
<1> QED
  BY <1>1, <1>3 DEF SecretKept

LEMMA JudgedKept ==
  ASSUME TypeOK, PortsJudged, NEW p \in Savers, NEW r, Moves(p, r), UNCHANGED <<bind, cfg, around>>,
         p \in Handlers => Judged(r)
  PROVE  PortsJudged'
<1>1. ASSUME NEW g \in Handlers PROVE Judged(req'[g])
  <2>1. CASE g = p
    BY <2>1 DEF Moves
  <2>2. CASE g # p
    BY <2>2, Typed DEF PortsJudged, Judged, Moves, Same
  <2> QED
    BY <2>1, <2>2
<1> QED
  BY <1>1 DEF PortsJudged, Judged

LEMMA AnnouncedKept ==
  ASSUME TypeOK, NEW p \in Savers, NEW r, Moves(p, r),
         token => token' \/ panel'.pc = "closing", unannounced => unannounced',
         p \in Handlers /\ Announcing(p) =>
           token' \/ unannounced' \/ (r.changed /\ r.pc \in Storing \cup {"rebind"})
  PROVE  Announced => Announced' \/ panel'.pc = "closing"
<1>1. ASSUME NEW h \in Handlers, Announcing(h), p = h
      PROVE  Announced'
  BY <1>1 DEF Announced, Announcing, Moves, Storing, Carrying
<1>2. ASSUME NEW h \in Handlers, Announcing(h), p # h
      PROVE  Announced'
  BY <1>2, Typed DEF Announced, Announcing, Moves, Same
<1> QED
  BY <1>1, <1>2 DEF Announced

(***************************************************************************)
(* A step of a request that writes neither the configuration nor a file.   *)
(***************************************************************************)

\* What a request may become by such a step.
Follows(h, r) ==
  /\ r \in Requests /\ r.pc \notin {"write", "rename"}
  /\ r.pc = "open" => r.data \in Config /\ r.data.secret = sealed
  /\ r.pc # "idle" => req[h].pc # "idle" \/ panel.pc \in Serving
  /\ Judged(r)

LEMMA IdleFollows ==
  ASSUME NEW h
  PROVE  Follows(h, Idle) /\ Judged(Idle)
BY IdleTyped DEF Follows, Judged

LEMMA OwnStep ==
  ASSUME IInv, NEW h \in Handlers, NEW r, Step(h, r), Follows(h, r),
         UNCHANGED <<cfg, disk, cells, panel, bind, boots, overlapped, around, sealed>>,
         token' \in BOOLEAN, token => token', unannounced' \in BOOLEAN, unannounced => unannounced',
         begun' \in 0..MaxRequests,
         Announcing(h) => token' \/ unannounced' \/ (r.changed /\ r.pc \in Storing \cup {"rebind"})
  PROVE  IInv'
<1>1. /\ TypeOK /\ WritersAlone /\ NamesApart /\ DataMarshalled /\ MainBoots /\ SecretKept
      /\ PortsJudged /\ RebindsAnnounced /\ PortOfSettings /\ h \in Savers /\ r \in Requests
  BY Typed DEF IInv, Follows
<1>2. Moves(h, r)
  BY <1>1, StepMoves DEF TypeOK
<1>3. r.pc \in Carrying => r.data \in Config /\ r.data.secret = sealed
  BY DEF Follows, Carrying
<1>4. TypeOK'
  BY <1>1, <1>2 DEF TypeOK, Moves
<1>5. WritersAlone' /\ DataMarshalled' /\ NamesApart'
  BY <1>1, <1>2, <1>3, AloneKept, DataKept DEF Follows, NamesApart
<1>6. MainBoots' /\ SecretKept'
  <2>1. r.pc # "idle" => req[h].pc # "idle" \/ panel.pc \in Serving
    BY DEF Follows
  <2> QED
    BY <1>1, <1>2, <1>3, <2>1, BootsKept, SecretCarried
<1>7. PortsJudged'
  BY <1>1, <1>2, JudgedKept DEF Follows
<1>8. RebindsAnnounced'
  <2>1. Announced => Announced' \/ panel'.pc = "closing"
    BY <1>1, <1>2, AnnouncedKept
  <2> QED
    BY <1>1, <2>1 DEF RebindsAnnounced, RebindNotLost, Announced
<1>9. PortOfSettings'
  BY <1>1 DEF PortOfSettings, Collides
<1> QED
  BY <1>4, <1>5, <1>6, <1>7, <1>8, <1>9 DEF IInv

LEMMA BegunCounts ==
  ASSUME begun \in 0..MaxRequests, begun < MaxRequests, begun' = begun + 1
  PROVE  begun' \in 0..MaxRequests
BY BoundsAssumption, SMT

LEMMA Begins ==
  ASSUME IInv, NEW h \in Handlers, NEW r \in Requests, Begin(h, r), Judged(r),
         r.pc \in {"idle", "ports", "update", "bind"}
  PROVE  IInv'
<1>1. /\ TypeOK /\ token \in BOOLEAN /\ unannounced \in BOOLEAN /\ begun \in 0..MaxRequests
      /\ panel.pc = "serve" /\ req[h].pc = "idle"
  BY DEF IInv, TypeOK, Begin
<1>2. begun' \in 0..MaxRequests
  BY <1>1, BegunCounts DEF Begin
<1>3. Follows(h, r)
  BY <1>1 DEF Follows, Serving
<1>4. ~Announcing(h)
  BY <1>1 DEF Announcing
<1> QED
  BY <1>1, <1>2, <1>3, <1>4, OwnStep DEF Begin

LEMMA SettingsSavePreserves ==
  ASSUME IInv, NEW h \in Handlers, NEW f \in Forms, SettingsSave(h, f)
  PROVE  IInv'
<1> DEFINE c == f # cfg.listener
           p == IF f # cfg.listener THEN "ports" ELSE "update"
           r == [Idle EXCEPT !.form = f, !.changed = c, !.pc = p]
<1>1. c \in BOOLEAN /\ p \in {"ports", "update"} /\ (p = "update" => f = cfg.listener)
  OBVIOUS
<1>2. Begin(h, r)
  BY DEF SettingsSave
<1> HIDE DEF c, p
<1>3. r \in Requests /\ r.pc = p /\ r.form = f
  BY <1>1, IdleTyped, Zenon DEF Requests
<1> HIDE DEF r
<1>4. Judged(r)
  BY <1>1, <1>2, <1>3 DEF Judged, Begin, IInv, PortOfSettings
<1> QED
  BY <1>1, <1>2, <1>3, <1>4, Begins

LEMMA BindSavePreserves ==
  ASSUME IInv, NEW h \in Handlers, NEW b \in BindForms, NEW enabled \in BOOLEAN,
         BindSave(h, b, enabled)
  PROVE  IInv'
<1> DEFINE row == [addr |-> b.addr, port |-> b.port, enabled |-> enabled, frontend |-> bind.frontend]
           refused == Clash(cfg.listener, [row EXCEPT !.frontend = TRUE])
           r == [Idle EXCEPT !.pc = "bind", !.row = row]
<1>1. Begin(h, IF refused THEN Idle ELSE r)
  BY Zenon DEF BindSave
<1>2. row \in [addr : Addrs, port : Ports, enabled : BOOLEAN, frontend : BOOLEAN]
  BY FormsAssumption DEF IInv, TypeOK
<1>3. CASE refused
  BY <1>1, <1>3, IdleFollows, IdleTyped, Begins
<1>4. CASE ~refused
  <2>1. ~Collides(cfg.listener, [row EXCEPT !.frontend = TRUE])
    BY <1>4 DEF Clash
  <2>2. Begin(h, r)
    BY <1>1, <1>4
  <2> HIDE DEF row
  <2>3. r \in Requests /\ r.pc = "bind" /\ r.row = row
    BY <1>2, IdleTyped, Zenon DEF Requests
  <2> HIDE DEF r
  <2>4. Judged(r)
    BY <2>1, <2>3 DEF Judged
  <2> QED
    BY <2>2, <2>3, <2>4, Begins
<1> QED
  BY <1>3, <1>4

LEMMA PortsInUsePreserves ==
  ASSUME IInv, NEW h \in Handlers, PortsInUse(h)
  PROVE  IInv'
<1>1. /\ TypeOK /\ req[h] \in Requests /\ req[h].pc = "ports"
      /\ token' \in BOOLEAN /\ unannounced' \in BOOLEAN /\ begun' \in 0..MaxRequests
      /\ UNCHANGED <<cfg, disk, cells, panel, token, bind, begun, boots, unannounced, overlapped, around, sealed>>
      /\ ~Announcing(h)
  BY Typed DEF IInv, TypeOK, PortsInUse, Announcing
<1>2. PICK answered \in BOOLEAN :
        Step(h, IF answered /\ Clash(req[h].form, bind) THEN Idle
                ELSE [Go(h, "update") EXCEPT !.disturbed = ~answered])
  BY DEF PortsInUse
<1> DEFINE d == ~answered
           r == [Go(h, "update") EXCEPT !.disturbed = d]
<1>3. CASE answered /\ Clash(req[h].form, bind)
  BY <1>1, <1>2, <1>3, IdleFollows, OwnStep
<1>4. CASE ~(answered /\ Clash(req[h].form, bind))
  <2>1. Step(h, r) /\ d \in BOOLEAN /\ (~d => ~Collides(req[h].form, bind))
    BY <1>2, <1>4 DEF Clash
  <2> HIDE DEF d
  <2>2. r \in Requests /\ r.pc = "update" /\ r.form = req[h].form /\ r.disturbed = d
    BY <1>1, <2>1, Zenon DEF Go, Requests
  <2> HIDE DEF r
  <2>3. Follows(h, r)
    BY <1>1, <2>1, <2>2 DEF Follows, Judged
  <2> QED
    BY <1>1, <2>1, <2>3, OwnStep
<1> QED
  BY <1>3, <1>4

LEMMA RebindPreserves ==
  ASSUME IInv, NEW h \in Handlers, Rebind(h)
  PROVE  IInv'
<1>1. /\ TypeOK /\ token' /\ token' \in BOOLEAN /\ unannounced' \in BOOLEAN /\ begun' \in 0..MaxRequests
      /\ UNCHANGED <<cfg, disk, cells, panel, bind, begun, boots, unannounced, overlapped, around, sealed>>
  BY DEF IInv, TypeOK, Rebind, Sent
<1>2. Step(h, Idle)
  BY DEF Rebind
<1> QED
  BY <1>1, <1>2, IdleFollows, OwnStep

\* The snapshot is of the secret that was served with.
LEMMA MarshalPreserves ==
  ASSUME IInv, NEW h \in Handlers, Marshal(h)
  PROVE  IInv'
<1>1. /\ TypeOK /\ req[h] \in Requests /\ req[h].pc = "marshal" /\ cfg \in Config
      /\ token' \in BOOLEAN /\ unannounced' \in BOOLEAN /\ begun' \in 0..MaxRequests
      /\ UNCHANGED <<cfg, disk, cells, panel, token, bind, begun, boots, unannounced, overlapped, around, sealed>>
      /\ cfg.secret = sealed
  BY Typed DEF IInv, TypeOK, Marshal, SecretKept
<1> DEFINE r == [Go(h, "open") EXCEPT !.data = cfg]
<1>2. Step(h, r)
  BY DEF Marshal
<1>3. r \in Requests /\ r.pc = "open" /\ r.data = cfg /\ r.changed = req[h].changed
  BY <1>1, Zenon DEF Go, Requests
<1> HIDE DEF r
<1>4. Follows(h, r)
  BY <1>1, <1>3 DEF Follows, Judged
<1>5. Announcing(h) => r.changed /\ r.pc \in Storing \cup {"rebind"}
  BY <1>3 DEF Announcing, Storing, Carrying
<1> QED
  BY <1>1, <1>2, <1>4, <1>5, OwnStep

\* A save that fails is announced as such.
LEMMA SaveFailsPreserves ==
  ASSUME IInv, NEW h \in Handlers, SaveFails(h),
         UNCHANGED <<cfg, disk, cells, token, bind, begun, boots, overlapped, around, sealed>>
  PROVE  IInv'
<1>1. h # Main
  BY SaversAssumption
<1>2. unannounced' = TRUE /\ Step(h, Idle) /\ UNCHANGED panel
  BY <1>1 DEF SaveFails
<1>3. token' \in BOOLEAN /\ begun' \in 0..MaxRequests
  BY DEF IInv, TypeOK
<1> QED
  BY <1>2, <1>3, IdleFollows, OwnStep

(***************************************************************************)
(* The writes to the configuration and to the bind line.                   *)
(***************************************************************************)

\* The new listener collides with no bind line that was checked and not disturbed,
\* and is announced by the form that changed it.
LEMMA UpdateListenerPreserves ==
  ASSUME IInv, NEW h \in Handlers, UpdateListener(h)
  PROVE  IInv'
<1>1. /\ TypeOK /\ WritersAlone /\ NamesApart /\ DataMarshalled /\ MainBoots /\ SecretKept
      /\ PortsJudged /\ RebindsAnnounced /\ PortOfSettings
      /\ h \in Savers /\ req[h] \in Requests /\ req[h].pc = "update" /\ req[h].changed \in BOOLEAN
      /\ UNCHANGED <<disk, cells, panel, token, bind, begun, boots, overlapped, sealed>>
      /\ ~Announcing(h)
  BY Typed DEF IInv, UpdateListener, Announcing
<1>2. CASE Step(h, Idle) /\ UNCHANGED <<cfg, unannounced, around>>
  <2>1. token' \in BOOLEAN /\ unannounced' \in BOOLEAN /\ begun' \in 0..MaxRequests
    BY <1>1, <1>2 DEF TypeOK
  <2> QED
    BY <1>1, <1>2, <2>1, IdleFollows, OwnStep
<1>3. CASE /\ InRange(req[h].form) /\ cfg' = [cfg EXCEPT !.listener = req[h].form]
           /\ unannounced' = (unannounced \/ (~req[h].changed /\ cfg' # cfg))
           /\ around' = (around \/ (req[h].disturbed /\ Collides(req[h].form, bind)))
           /\ Disturbs(h, {"bind", "update"}, [Go(h, "marshal") EXCEPT !.again = TRUE])
  <2> DEFINE f == req[h].form
             r == [Go(h, "marshal") EXCEPT !.again = TRUE]
  <2>1. f \in ListenerSet
    <3>1. f \in Forms \cup {DefaultListener}
      BY <1>1, Zenon DEF Requests
    <3>2. f.port # OutOfRange
      BY <1>3 DEF InRange
    <3> QED
      BY <3>1, <3>2, FormsAssumption, DefaultTyped DEF ListenerSet
  <2>2. /\ cfg' \in Config /\ cfg'.listener = f /\ cfg'.secret = cfg.secret
    <3>1. cfg \in Config
      BY <1>1 DEF TypeOK
    <3> HIDE DEF f
    <3> QED
      BY <1>3, <2>1, <3>1, Zenon DEF Config, f
  <2>3. r \in Requests /\ r.pc = "marshal" /\ r.changed = req[h].changed
    BY <1>1, Zenon DEF Go, Requests
  <2> HIDE DEF r
  <2>4. Moves(h, r) /\ \A q \in Savers \ {h} : req[q].pc \in {"bind", "update"} => req'[q].disturbed
    <3>1. Disturbs(h, {"bind", "update"}, r)
      BY <1>3 DEF r
    <3> QED
      BY <1>1, <2>3, <3>1, DisturbsMoves DEF TypeOK
  <2>5. TypeOK'
    <3>1. {unannounced', around'} \subseteq BOOLEAN
      BY <1>1, <1>3 DEF TypeOK, Collides
    <3> QED
      BY <1>1, <2>2, <2>4, <3>1 DEF TypeOK, Moves
  <2>6. WritersAlone' /\ NamesApart' /\ DataMarshalled'
    BY <1>1, <2>3, <2>4, AloneKept, DataKept DEF NamesApart, Carrying
  <2>7. MainBoots' /\ SecretKept'
    <3>1. panel.pc # "boot" /\ req[h].pc # "idle"
      BY <1>1 DEF MainBoots
    <3> QED
      BY <1>1, <2>2, <2>3, <2>4, <3>1, BootsKept, SecretCarried DEF Carrying
  <2>8. PortsJudged'
    <3>1. ASSUME NEW g \in Handlers PROVE Judged(req[g])'
      <4>1. CASE g = h
        BY <2>3, <2>4, <4>1 DEF Moves, Judged
      <4>2. CASE g # h
        <5>1. req'[g].pc \in {"bind", "update"} => req'[g].disturbed
          BY <2>4, <4>2, Typed, <1>1 DEF Moves, Same
        <5> QED
          BY <5>1 DEF Judged
      <4> QED
        BY <4>1, <4>2
    <3> QED
      BY <3>1 DEF PortsJudged
  <2>9. RebindsAnnounced'
    <3>1. CASE req[h].changed
      <4>1. Announcing(h)'
        BY <2>3, <2>4, <3>1 DEF Announcing, Moves
      <4> QED
        BY <4>1 DEF RebindsAnnounced, RebindNotLost, Announced
    <3>2. CASE ~req[h].changed /\ cfg' # cfg
      BY <1>3, <3>2 DEF RebindsAnnounced, RebindNotLost, Announced
    <3>3. CASE cfg' = cfg
      <4>1. Announced => Announced' \/ panel'.pc = "closing"
        BY <1>1, <1>3, <2>4, AnnouncedKept
      <4> QED
        BY <1>1, <3>3, <4>1 DEF RebindsAnnounced, RebindNotLost, Announced
    <3> QED
      BY <1>1, <3>1, <3>2, <3>3
  <2>10. PortOfSettings'
    <3>1. Judged(req[h])
      BY <1>1 DEF PortsJudged
    <3> QED
      BY <1>1, <1>3, <2>2, <3>1 DEF PortOfSettings, Judged, Collides
  <2> QED
    BY <2>5, <2>6, <2>7, <2>8, <2>9, <2>10 DEF IInv
<1> QED
  BY <1>2, <1>3 DEF UpdateListener

LEMMA SaveBindPreserves ==
  ASSUME IInv, NEW h \in Handlers, SaveBind(h)
  PROVE  IInv'
<1> DEFINE row == [req[h].row EXCEPT !.frontend = bind.frontend]
           Rows == [addr : Addrs, port : Ports, enabled : BOOLEAN, frontend : BOOLEAN]
<1>1. /\ TypeOK /\ WritersAlone /\ NamesApart /\ DataMarshalled /\ MainBoots /\ SecretKept
      /\ PortsJudged /\ RebindsAnnounced /\ PortOfSettings
      /\ h \in Savers /\ req[h] \in Requests /\ req[h].pc = "bind"
      /\ UNCHANGED <<cfg, disk, cells, panel, token, begun, boots, unannounced, overlapped, sealed>>
      /\ bind' = row /\ around' = (around \/ (req[h].disturbed /\ Collides(cfg.listener, row)))
      /\ Disturbs(h, {"update"}, Idle) /\ ~Announcing(h)
  BY Typed DEF IInv, SaveBind, Announcing
<1>2. req[h].row \in Rows /\ bind \in Rows
  <2>1. req[h].row \in Rows
    BY <1>1, Zenon DEF Requests
  <2> QED
    BY <1>1, <2>1 DEF TypeOK
<1>3. /\ row \in Rows /\ row.addr = req[h].row.addr /\ row.port = req[h].row.port
      /\ row.enabled = req[h].row.enabled
  <2> DEFINE w == req[h].row
             b == bind.frontend
  <2>1. w \in Rows /\ b \in BOOLEAN
    BY <1>2
  <2> HIDE DEF w, b
  <2>2. LET v == [w EXCEPT !.frontend = b]
        IN v \in Rows /\ v.addr = w.addr /\ v.port = w.port /\ v.enabled = w.enabled
    BY <2>1, Zenon
  <2> QED
    BY <2>2 DEF w, b
<1>4. Moves(h, Idle) /\ \A q \in Savers \ {h} : req[q].pc = "update" => req'[q].disturbed
  BY <1>1, IdleTyped, DisturbsMoves DEF TypeOK
<1>5. ~req[h].disturbed => ~Collides(cfg.listener, row)
  <2>1. Judged(req[h])
    BY <1>1 DEF PortsJudged
  <2> DEFINE w == req[h].row
             v == [w EXCEPT !.frontend = TRUE]
  <2>2. ~req[h].disturbed => ~Collides(cfg.listener, v)
    BY <1>1, <2>1 DEF Judged
  <2>3. v.addr = w.addr /\ v.port = w.port /\ v.enabled = w.enabled /\ v.frontend
    BY <1>2, Zenon
  <2> HIDE DEF v
  <2> QED
    BY <1>3, <2>2, <2>3 DEF Collides, w
<1> HIDE DEF row
<1>6. TypeOK'
  <2>1. around' \in BOOLEAN
    BY <1>1 DEF TypeOK, Collides
  <2> QED
    BY <1>1, <1>3, <1>4, <2>1 DEF TypeOK, Moves
<1>7. WritersAlone' /\ NamesApart' /\ DataMarshalled'
  BY <1>1, <1>4, IdleTyped, AloneKept, DataKept DEF NamesApart, Carrying
<1>8. MainBoots' /\ SecretKept'
  BY <1>1, <1>4, IdleTyped, BootsKept, SecretCarried DEF Carrying
<1>9. PortsJudged'
  <2>1. ASSUME NEW g \in Handlers PROVE Judged(req[g])'
    <3>1. CASE g = h
      BY <1>4, <3>1, IdleTyped DEF Moves, Judged
    <3>2. CASE g # h
      <4>1. Judged(req[g]) /\ Same(req[g], req'[g]) /\ (req[g].pc = "update" => req'[g].disturbed)
        BY <1>1, <1>4, <3>2, Typed DEF Moves, PortsJudged
      <4> QED
        BY <1>1, <4>1 DEF Judged, Same
    <3> QED
      BY <3>1, <3>2
  <2> QED
    BY <2>1 DEF PortsJudged
<1>10. RebindsAnnounced'
  <2>1. Announced => Announced' \/ panel'.pc = "closing"
    BY <1>1, <1>4, AnnouncedKept
  <2> QED
    BY <1>1, <2>1 DEF RebindsAnnounced, RebindNotLost, Announced
<1>11. PortOfSettings'
  BY <1>1, <1>5 DEF PortOfSettings, Collides
<1> QED
  BY <1>6, <1>7, <1>8, <1>9, <1>10, <1>11 DEF IInv

\* The frontend form and the assistant come around the checks, or change nothing
\* that collides.
LEMMA UncheckedPreserves ==
  ASSUME IInv, Unchecked
  PROVE  IInv'
<1> DEFINE Rows == [addr : Addrs, port : Ports, enabled : BOOLEAN, frontend : BOOLEAN]
<1>1. /\ TypeOK /\ WritersAlone /\ NamesApart /\ DataMarshalled /\ MainBoots /\ SecretKept
      /\ PortsJudged /\ RebindsAnnounced /\ PortOfSettings /\ begun' \in 0..MaxRequests
      /\ UNCHANGED <<cfg, disk, cells, panel, token, boots, unannounced, overlapped, sealed>>
      /\ around' = (around \/ Collides(cfg.listener, bind')) /\ Main \in Savers
      /\ Disturbs(Main, {"update"}, req[Main]) /\ req[Main] \in Requests
  BY Typed, BegunCounts DEF IInv, Unchecked, TypeOK
<1>2. bind' \in Rows
  <2>1. bind \in Rows
    BY <1>1 DEF TypeOK
  <2>2. CASE bind' = [bind EXCEPT !.frontend = ~@]
    BY <2>1, <2>2
  <2>3. ASSUME NEW b \in BindForms,
               bind' = [bind EXCEPT !.addr = b.addr, !.port = b.port, !.enabled = TRUE]
        PROVE  bind' \in Rows
    BY <2>1, <2>3, FormsAssumption
  <2> QED
    BY <2>2, <2>3 DEF Unchecked
<1>3. Moves(Main, req[Main]) /\ \A q \in Savers \ {Main} : req[q].pc = "update" => req'[q].disturbed
  BY <1>1, DisturbsMoves DEF TypeOK
<1>4. \A q \in Savers : Same(req[q], req'[q])
  BY <1>1, <1>3 DEF Moves, Same
<1>5. TypeOK'
  <2>1. around' \in BOOLEAN
    BY <1>1 DEF TypeOK, Collides
  <2> QED
    BY <1>1, <1>2, <1>3, <2>1 DEF TypeOK, Moves
<1>6. WritersAlone' /\ NamesApart' /\ DataMarshalled' /\ MainBoots' /\ SecretKept'
  <2>1. NamesApart' /\ DataMarshalled' /\ MainBoots'
    BY <1>1, <1>4, Typed DEF NamesApart, DataMarshalled, MainBoots, Same
  <2>2. \A q \in Savers : Saving(q)' <=> Saving(q)
    BY <1>4 DEF Saving, Same
  <2>3. WritersAlone'
    BY <1>1, <1>4, <2>2 DEF WritersAlone, Same
  <2>4. SecretKept'
    BY <1>1, <1>4, <2>2, Typed DEF SecretKept, Same
  <2> QED
    BY <2>1, <2>3, <2>4
<1>7. PortsJudged'
  <2>1. ASSUME NEW g \in Handlers PROVE Judged(req[g])'
    <3>1. Judged(req[g]) /\ Same(req[g], req'[g]) /\ (req[g].pc = "update" => req'[g].disturbed)
      BY <1>1, <1>3, <1>4, Typed DEF PortsJudged
    <3> QED
      BY <1>1, <3>1 DEF Judged, Same
  <2> QED
    BY <2>1 DEF PortsJudged
<1>8. RebindsAnnounced'
  <2>1. Announced => Announced'
    BY <1>1, <1>4, Typed DEF Announced, Announcing, Same
  <2> QED
    BY <1>1, <2>1 DEF RebindsAnnounced, RebindNotLost, Announced
<1>9. PortOfSettings'
  BY <1>1 DEF PortOfSettings, Collides
<1> QED
  BY <1>5, <1>6, <1>7, <1>8, <1>9 DEF IInv

(***************************************************************************)
(* The system calls of Save.                                               *)
(***************************************************************************)

\* A step of p that is about files: what else it has to leave alone.
LEMMA FileStep ==
  ASSUME IInv, NEW p \in Savers, NEW r \in Requests, Moves(p, r), req[p].pc \in Carrying,
         r.pc \in Carrying, r.data = req[p].data, r.changed = req[p].changed, r.pc # "open",
         disk' \in [tmp : Cells \cup {0}, file : Cells \cup {0}],
         cells' \in [Cells -> Config \cup {Empty, Garbled}], overlapped' \in BOOLEAN,
         UNCHANGED <<cfg, panel, token, bind, begun, boots, unannounced, around, sealed>>
  PROVE  /\ TypeOK' /\ DataMarshalled' /\ MainBoots' /\ PortsJudged' /\ RebindsAnnounced' /\ PortOfSettings'
         /\ \A h \in Handlers : req'[h].pc # "idle" => sealed # 0 /\ cfg.secret = sealed
         /\ \A h \in Handlers : req'[h].pc \in Carrying => req'[h].data.secret = sealed
         /\ panel.pc = "boot" => p = Main
         /\ p = Main <=> panel.pc = "boot"
<1>1. /\ TypeOK /\ DataMarshalled /\ MainBoots /\ SecretKept
      /\ PortsJudged /\ RebindsAnnounced /\ PortOfSettings
  BY DEF IInv
<1>2. p = Main <=> panel.pc = "boot"
  BY <1>1, Typed DEF MainBoots, Carrying, Savers
<1>3. TypeOK'
  BY <1>1 DEF TypeOK, Moves
<1>4. DataMarshalled'
  BY <1>1, DataKept DEF DataMarshalled
<1>5. MainBoots'
  BY <1>1, Typed DEF MainBoots, Moves, Same, Carrying, Storing
<1>6. PortsJudged'
  BY <1>1, JudgedKept DEF Judged, Carrying
<1>7. RebindsAnnounced'
  <2>1. Announced => Announced' \/ panel'.pc = "closing"
    BY <1>1, AnnouncedKept DEF Announcing, Storing
  <2> QED
    BY <1>1, <2>1 DEF RebindsAnnounced, RebindNotLost, Announced
<1>8. PortOfSettings'
  BY <1>1 DEF PortOfSettings, Collides
<1>9. \A h \in Handlers : /\ req'[h].pc # "idle" => sealed # 0 /\ cfg.secret = sealed
                          /\ req'[h].pc \in Carrying => req'[h].data.secret = sealed
  <2> TAKE h \in Handlers
  <2>1. (req'[h].pc # "idle" => req[h].pc # "idle") /\ (req'[h].pc \in Carrying =>
           req[h].pc \in Carrying /\ req'[h].data = req[h].data)
    BY Typed, <1>1 DEF Moves, Same, Carrying
  <2> QED
    BY <1>1, <2>1 DEF SecretKept
<1> QED
  BY <1>2, <1>3, <1>4, <1>5, <1>6, <1>7, <1>8, <1>9

LEMMA OpenTmpPreserves ==
  ASSUME IInv, NEW p \in Savers, req[p].pc = "open", disk' = Tmp,
         cells' = [cells EXCEPT ![Tmp.tmp] = Empty],
         overlapped' = (overlapped \/ \E q \in Savers \ {p} : Saving(q)),
         Step(p, [Go(p, "write") EXCEPT !.fd = Tmp.tmp]),
         UNCHANGED <<cfg, panel, token, bind, begun, boots, unannounced, around, sealed>>
  PROVE  IInv'
<1> DEFINE c == Tmp.tmp
           r == [Go(p, "write") EXCEPT !.fd = c]
<1>1. /\ TypeOK /\ WritersAlone /\ NamesApart /\ DataMarshalled /\ MainBoots /\ SecretKept
      /\ req[p] \in Requests
  BY Typed DEF IInv
<1>2. /\ Tmp \in [tmp : Cells \cup {0}, file : Cells \cup {0}]
      /\ c \in Cells /\ Tmp.file = disk.file /\ c # disk.file
  BY <1>1, TmpIsApart
<1>3. Step(p, r) /\ disk'.tmp = c /\ disk'.file = disk.file /\ cells' = [cells EXCEPT ![c] = Empty]
  BY <1>2
<1> HIDE DEF c
<1>4. r \in Requests /\ r.pc = "write" /\ r.fd = c /\ r.data = req[p].data /\ r.changed = req[p].changed
  BY <1>1, <1>2, Zenon DEF Go, Requests
<1> HIDE DEF r
<1>5. Moves(p, r)
  BY <1>1, <1>3, <1>4, StepMoves DEF TypeOK
<1>6. /\ cells' \in [Cells -> Config \cup {Empty, Garbled}] /\ cells'[c] = Empty
      /\ \A d \in Cells \ {c} : cells'[d] = cells[d]
  BY <1>1, <1>2, <1>3 DEF TypeOK
<1>7. overlapped' \in BOOLEAN
  BY <1>1 DEF TypeOK
<1>8. /\ TypeOK' /\ DataMarshalled' /\ MainBoots' /\ PortsJudged' /\ RebindsAnnounced' /\ PortOfSettings'
      /\ \A h \in Handlers : req'[h].pc # "idle" => sealed # 0 /\ cfg.secret = sealed
      /\ \A h \in Handlers : req'[h].pc \in Carrying => req'[h].data.secret = sealed
      /\ p = Main <=> panel.pc = "boot"
  BY <1>2, <1>4, <1>5, <1>6, <1>7, FileStep DEF Carrying
<1>9. NamesApart'
  BY <1>2, <1>3 DEF NamesApart
<1>10. disk.file # 0 => disk.file \in Cells
  BY <1>1 DEF TypeOK
<1>11. WritersAlone'
  <2> SUFFICES ASSUME ~overlapped' PROVE WritersAlone'
    BY DEF WritersAlone
  <2>1. ~overlapped /\ \A q \in Savers \ {p} : ~Saving(q)
    OBVIOUS
  <2>2. \A q \in Savers : Saving(q)' => q = p
    BY <1>5, <2>1 DEF Saving, Moves, Same
  <2>3. req'[p] = r
    BY <1>5 DEF Moves
  <2>4. disk'.file # 0 => Whole(cells'[disk'.file])
    BY <1>1, <1>2, <1>3, <1>6, <1>10, <2>1 DEF WritersAlone
  <2> QED
    BY <1>2, <1>3, <1>4, <1>6, <2>2, <2>3, <2>4 DEF WritersAlone, Saving
<1>12. SecretKept'
  <2>1. panel'.pc = "boot" =>
          /\ sealed' = 0 /\ cfg'.secret # 0
          /\ req'[Main].pc \in Carrying => req'[Main].data = cfg'
          /\ Saving(Main)' => req'[Main].fd \in Cells /\ disk'.tmp = req'[Main].fd
          /\ req'[Main].pc = "write" => cells'[req'[Main].fd] = Empty
          /\ req'[Main].pc = "rename" => cells'[req'[Main].fd] = cfg'
    <3> SUFFICES ASSUME panel.pc = "boot"
                 PROVE  /\ sealed = 0 /\ cfg.secret # 0
                        /\ req'[Main] = r /\ r.data = cfg /\ r.fd \in Cells
                        /\ cells'[r.fd] = Empty
      BY <1>3, <1>4
    <3> QED
      BY <1>1, <1>2, <1>4, <1>5, <1>6, <1>8 DEF SecretKept, Moves, Carrying
  <2>2. sealed # 0 => \A d \in {disk'.file, disk'.tmp} \ {0} : Whole(cells'[d]) => cells'[d].secret = sealed
    BY <1>1, <1>2, <1>3, <1>6, <1>10, EmptyIsNone DEF SecretKept
  <2> QED
    BY <1>1, <1>3, <1>8, <2>1, <2>2 DEF SecretKept
<1> QED
  BY <1>8, <1>9, <1>11, <1>12 DEF IInv

LEMMA WriteTmpPreserves ==
  ASSUME IInv, NEW p \in Savers, req[p].pc = "write",
         NEW text \in {req[p].data} \cup
                      (IF cells[req[p].fd] \in {Empty, req[p].data} THEN {} ELSE {Garbled}),
         cells' = [cells EXCEPT ![req[p].fd] = text], Step(p, Go(p, "rename")),
         UNCHANGED <<cfg, disk, panel, token, bind, begun, boots, unannounced, overlapped, around, sealed>>
  PROVE  IInv'
<1> DEFINE c == req[p].fd
           r == Go(p, "rename")
<1>1. /\ TypeOK /\ WritersAlone /\ NamesApart /\ DataMarshalled /\ MainBoots /\ SecretKept
      /\ req[p] \in Requests /\ req[p].data \in Config /\ Saving(p)
  BY Typed DEF IInv, DataMarshalled, Carrying, Saving
<1>2. r \in Requests /\ r.pc = "rename" /\ r.fd = c /\ r.data = req[p].data /\ r.changed = req[p].changed
  BY <1>1, Zenon DEF Go, Requests
<1>3. text \in {req[p].data, Garbled} /\ (cells[c] = Empty => text = req[p].data)
  OBVIOUS
<1>4. Step(p, r) /\ cells' = [cells EXCEPT ![c] = text]
  OBVIOUS
<1>5. c \in Cells \cup {0}
  BY <1>1, Zenon DEF Requests
<1> HIDE DEF c, r
<1>6. Moves(p, r)
  BY <1>1, <1>2, <1>4, StepMoves DEF TypeOK
<1>7. /\ cells' \in [Cells -> Config \cup {Empty, Garbled}] /\ (c \in Cells => cells'[c] = text)
      /\ \A d \in Cells \ {c} : cells'[d] = cells[d]
  BY <1>1, <1>3, <1>4 DEF TypeOK
<1>8. /\ TypeOK' /\ DataMarshalled' /\ MainBoots' /\ PortsJudged' /\ RebindsAnnounced' /\ PortOfSettings'
      /\ \A h \in Handlers : req'[h].pc # "idle" => sealed # 0 /\ cfg.secret = sealed
      /\ \A h \in Handlers : req'[h].pc \in Carrying => req'[h].data.secret = sealed
      /\ p = Main <=> panel.pc = "boot"
  <2>1. disk' \in [tmp : Cells \cup {0}, file : Cells \cup {0}] /\ overlapped' \in BOOLEAN
    BY <1>1 DEF TypeOK
  <2> QED
    BY <1>2, <1>6, <1>7, <2>1, FileStep DEF Carrying
<1>9. NamesApart' /\ (disk.file # 0 => disk.file \in Cells) /\ (disk.tmp # 0 => disk.tmp \in Cells)
  BY <1>1 DEF NamesApart, TypeOK
<1>10. WritersAlone'
  <2> SUFFICES ASSUME ~overlapped PROVE WritersAlone'
    BY DEF WritersAlone
  <2>1. c \in Cells /\ disk.tmp = c /\ cells[c] = Empty /\ \A q \in Savers : Saving(q) => q = p
    BY <1>1 DEF WritersAlone, c
  <2>2. \A q \in Savers : Saving(q)' => q = p
    BY <1>6, <2>1 DEF Saving, Moves, Same
  <2>3. req'[p] = r
    BY <1>6 DEF Moves
  <2>4. c # disk.file /\ c # 0
    <3>1. disk.tmp # 0
      <4>1. Cardinality(Handlers) \in Nat
        BY SaversAssumption, FS_CardinalityType
      <4> QED
        BY <2>1, <4>1, SMT DEF Cells
    <3> QED
      BY <1>1, <2>1, <3>1 DEF NamesApart
  <2>5. disk.file # 0 => Whole(cells'[disk.file])
    BY <1>1, <1>7, <1>9, <2>4 DEF WritersAlone
  <2>6. cells'[c] = req[p].data
    BY <1>3, <1>7, <2>1
  <2> QED
    BY <1>2, <2>1, <2>2, <2>3, <2>5, <2>6 DEF WritersAlone, Saving
<1>11. SecretKept'
  <2>1. panel'.pc = "boot" =>
          /\ sealed' = 0 /\ cfg'.secret # 0
          /\ req'[Main].pc \in Carrying => req'[Main].data = cfg'
          /\ Saving(Main)' => req'[Main].fd \in Cells /\ disk'.tmp = req'[Main].fd
          /\ req'[Main].pc = "write" => cells'[req'[Main].fd] = Empty
          /\ req'[Main].pc = "rename" => cells'[req'[Main].fd] = cfg'
    <3> SUFFICES ASSUME panel.pc = "boot"
                 PROVE  /\ sealed = 0 /\ cfg.secret # 0
                        /\ req'[Main] = r /\ r.data = cfg /\ r.fd \in Cells /\ disk.tmp = r.fd
                        /\ cells'[r.fd] = cfg
      BY <1>2
    <3>1. p = Main /\ req[p].data = cfg /\ c \in Cells /\ disk.tmp = c /\ cells[c] = Empty
      BY <1>1, <1>8 DEF SecretKept, Carrying, c
    <3>2. text = cfg
      BY <1>3, <3>1
    <3>3. sealed = 0 /\ cfg.secret # 0 /\ req'[Main] = r
      BY <1>1, <1>6, <3>1 DEF SecretKept, Moves
    <3> QED
      BY <1>2, <1>7, <3>1, <3>2, <3>3
  <2>2. sealed # 0 => \A d \in {disk'.file, disk'.tmp} \ {0} : Whole(cells'[d]) => cells'[d].secret = sealed
    <3> SUFFICES ASSUME sealed # 0, NEW d \in Cells, d \in {disk.file, disk.tmp} \ {0}, Whole(cells'[d])
                 PROVE  cells'[d].secret = sealed
      BY <1>9
    <3>1. CASE d = c
      <4>1. text = req[p].data
        BY <1>3, <1>7, <3>1, EmptyIsNone
      <4>2. p \in Handlers
        BY <1>1, <1>8 DEF SecretKept, Savers
      <4> QED
        BY <1>1, <1>7, <3>1, <4>1, <4>2 DEF SecretKept, Carrying
    <3>2. CASE d # c
      BY <1>1, <1>7, <3>2 DEF SecretKept
    <3> QED
      BY <3>1, <3>2
  <2> QED
    BY <1>1, <1>8, <2>1, <2>2 DEF SecretKept
<1> QED
  BY <1>8, <1>9, <1>10, <1>11 DEF IInv

\* The request's temporary file takes the name of the configuration.
LEMMA RenamePreserves ==
  ASSUME IInv, NEW h \in Handlers, req[h].pc = "rename", disk.tmp # 0,
         disk' = [tmp |-> 0, file |-> disk.tmp], Step(h, Saved(h)),
         UNCHANGED <<cfg, cells, panel, token, bind, begun, boots, unannounced, overlapped, around, sealed>>
  PROVE  IInv'
<1> DEFINE r == Saved(h)
           q == [req[h] EXCEPT !.data = Empty, !.fd = 0]
<1>1. /\ TypeOK /\ WritersAlone /\ NamesApart /\ DataMarshalled /\ MainBoots /\ SecretKept
      /\ PortsJudged /\ RebindsAnnounced /\ PortOfSettings
      /\ req[h] \in Requests /\ h \in Savers /\ h # Main /\ disk.tmp \in Cells
      /\ req[h].changed \in BOOLEAN /\ req[h].again \in BOOLEAN
  BY Typed DEF IInv, TypeOK
<1>2. /\ r \in Requests /\ r.pc \in {"idle", "marshal", "rebind"}
      /\ req[h].changed => r.changed /\ r.pc \in {"marshal", "rebind"}
  <2>1. q \in Requests /\ q.changed = req[h].changed /\ q.again = req[h].again
    BY <1>1, Zenon DEF Requests
  <2>2. r = IF q.again THEN [q EXCEPT !.pc = "marshal", !.again = FALSE]
            ELSE IF q.changed THEN [q EXCEPT !.pc = "rebind"] ELSE Idle
    BY <1>1 DEF Saved
  <2> HIDE DEF q
  <2>3. /\ [q EXCEPT !.pc = "marshal", !.again = FALSE] \in Requests
        /\ [q EXCEPT !.pc = "marshal", !.again = FALSE].pc = "marshal"
        /\ [q EXCEPT !.pc = "marshal", !.again = FALSE].changed = q.changed
        /\ [q EXCEPT !.pc = "rebind"] \in Requests /\ [q EXCEPT !.pc = "rebind"].pc = "rebind"
        /\ [q EXCEPT !.pc = "rebind"].changed = q.changed
    BY <2>1, Zenon DEF Requests
  <2> HIDE DEF r
  <2> QED
    BY <1>1, <2>1, <2>2, <2>3, IdleTyped
<1> HIDE DEF r
<1>3. Moves(h, r)
  BY <1>1, <1>2, StepMoves DEF TypeOK, r
<1>4. TypeOK'
  BY <1>1, <1>3 DEF TypeOK, Moves
<1>5. DataMarshalled' /\ NamesApart' /\ MainBoots'
  <2>1. r.pc # "idle" => req[h].pc # "idle" \/ panel.pc \in Serving
    BY <1>1
  <2>2. DataMarshalled' /\ MainBoots'
    BY <1>1, <1>2, <1>3, <2>1, DataKept, BootsKept DEF Carrying
  <2> QED
    BY <2>2 DEF NamesApart
<1>6. WritersAlone'
  <2> SUFFICES ASSUME ~overlapped PROVE WritersAlone'
    BY DEF WritersAlone
  <2>1. /\ \A p \in Savers : Saving(p) => p = h
        /\ req[h].fd = disk.tmp /\ cells[disk.tmp] = req[h].data
    BY <1>1 DEF WritersAlone, Saving
  <2>2. \A p \in Savers : ~Saving(p)'
    BY <1>2, <1>3, <2>1 DEF Saving, Moves, Same
  <2>3. Whole(cells[disk.tmp])
    BY <1>1, <2>1, WholeIsConfig DEF DataMarshalled, Carrying
  <2> QED
    BY <2>2, <2>3 DEF WritersAlone, Saving
<1>7. SecretKept'
  <2>1. \A g \in Handlers : /\ req'[g].pc # "idle" => sealed # 0 /\ cfg.secret = sealed
                            /\ req'[g].pc \in Carrying => req'[g].data.secret = sealed
    <3> TAKE g \in Handlers
    <3>1. (req'[g].pc # "idle" => req[g].pc # "idle") /\ (req'[g].pc \in Carrying =>
             req[g].pc \in Carrying /\ req'[g].data = req[g].data)
      BY <1>1, <1>2, <1>3, Typed DEF Moves, Same, Carrying
    <3> QED
      BY <1>1, <3>1 DEF SecretKept
  <2>2. panel.pc # "boot" /\ sealed # 0
    BY <1>1 DEF SecretKept, MainBoots
  <2>3. \A c \in {disk'.file, disk'.tmp} \ {0} : Whole(cells[c]) => cells[c].secret = sealed
    BY <1>1, <2>2 DEF SecretKept
  <2> QED
    BY <1>1, <2>1, <2>2, <2>3 DEF SecretKept
<1>8. PortsJudged' /\ PortOfSettings'
  BY <1>1, <1>2, <1>3, JudgedKept DEF Judged, PortOfSettings, Collides
<1>9. RebindsAnnounced'
  <2>1. Announced => Announced' \/ panel'.pc = "closing"
    BY <1>1, <1>2, <1>3, AnnouncedKept DEF Announcing, Storing
  <2> QED
    BY <1>1, <2>1 DEF RebindsAnnounced, RebindNotLost, Announced
<1> QED
  BY <1>4, <1>5, <1>6, <1>7, <1>8, <1>9 DEF IInv

\* main, which is alone: it goes on booting, serves, or ends.
LEMMA MainStep ==
  ASSUME IInv, NEW r \in Requests, Step(Main, r), req[Main].pc # "idle",
         panel' \in [pc : {"boot", "listen", "ended"}, listener : ListenerSet],
         disk' \in [tmp : Cells \cup {0}, file : Cells \cup {0}], NamesApart',
         r.pc \in {"open", "idle"}, r.pc # "idle" <=> panel'.pc = "boot",
         r.pc = "open" => r.data = cfg /\ sealed' = 0 /\ UNCHANGED disk,
         panel'.pc = "listen" => sealed' # 0 /\ cfg.secret = sealed',
         sealed' \in Nat, sealed' = 0 <=> disk'.file = 0, ~overlapped => (disk'.file # 0 => Whole(cells[disk'.file])),
         sealed' # 0 => \A c \in {disk'.file, disk'.tmp} \ {0} : Whole(cells[c]) => cells[c].secret = sealed',
         UNCHANGED <<cfg, cells, token, bind, begun, boots, unannounced, overlapped, around>>
  PROVE  IInv'
<1>1. /\ TypeOK /\ WritersAlone /\ NamesApart /\ DataMarshalled /\ MainBoots /\ SecretKept
      /\ PortsJudged /\ RebindsAnnounced /\ PortOfSettings /\ Main \in Savers
  BY Typed DEF IInv
<1>2. panel.pc = "boot" /\ cfg.secret # 0 /\ \A h \in Handlers : req[h].pc = "idle"
  BY <1>1 DEF MainBoots, SecretKept
<1>3. Moves(Main, r)
  BY <1>1, StepMoves DEF TypeOK
<1>4. TypeOK'
  BY <1>1, <1>3 DEF TypeOK, Moves
<1>5. req'[Main] = r /\ \A h \in Handlers : req'[h].pc = "idle"
  BY <1>1, <1>2, <1>3, Typed DEF Moves, Same
<1>6. \A p \in Savers : ~Saving(p)' /\ req'[p].pc \notin {"write", "rename"}
  BY <1>5 DEF Saving, Savers
<1>7. WritersAlone'
  BY <1>6 DEF WritersAlone
<1>8. DataMarshalled'
  BY <1>1, <1>5 DEF DataMarshalled, Savers, Carrying, TypeOK
<1>9. MainBoots'
  BY <1>5 DEF MainBoots, Storing, Carrying
<1>10. SecretKept'
  BY <1>2, <1>5, <1>6, <1>1 DEF SecretKept, Serving, Carrying
<1>11. PortsJudged' /\ RebindsAnnounced'
  BY <1>5 DEF PortsJudged, Judged, RebindsAnnounced, RebindNotLost, Announced
<1>12. PortOfSettings'
  BY <1>1, <1>2 DEF PortOfSettings, Collides
<1> QED
  BY <1>4, <1>7, <1>8, <1>9, <1>10, <1>11, <1>12 DEF IInv

LEMMA MainMarshalPreserves ==
  ASSUME IInv, Marshal(Main)
  PROVE  IInv'
<1> DEFINE r == [Go(Main, "open") EXCEPT !.data = cfg]
<1>1. /\ TypeOK /\ WritersAlone /\ NamesApart /\ MainBoots /\ SecretKept /\ cfg \in Config
      /\ req[Main] \in Requests /\ req[Main].pc = "marshal" /\ panel \in [pc : {"boot"}, listener : ListenerSet]
      /\ disk \in [tmp : Cells \cup {0}, file : Cells \cup {0}] /\ sealed \in Nat
      /\ UNCHANGED <<cfg, disk, cells, panel, token, bind, begun, boots, unannounced, overlapped, around, sealed>>
  BY Typed DEF IInv, TypeOK, Marshal, MainBoots
<1>2. Step(Main, r)
  BY DEF Marshal
<1>3. r \in Requests /\ r.pc = "open" /\ r.data = cfg
  BY <1>1, Zenon DEF Go, Requests
<1> HIDE DEF r
<1>4. sealed = 0 /\ NamesApart' /\ (sealed = 0 <=> disk.file = 0)
  BY <1>1 DEF SecretKept, NamesApart
<1> QED
  BY <1>1, <1>2, <1>3, <1>4, MainStep

LEMMA MainFailsPreserves ==
  ASSUME IInv, SaveFails(Main), req[Main].pc # "idle",
         UNCHANGED <<cfg, disk, cells, token, bind, begun, boots, overlapped, around, sealed>>
  PROVE  IInv'
<1>1. /\ TypeOK /\ WritersAlone /\ NamesApart /\ MainBoots /\ SecretKept
      /\ disk \in [tmp : Cells \cup {0}, file : Cells \cup {0}] /\ sealed \in Nat
  BY DEF IInv, TypeOK
<1>2. panel' = [panel EXCEPT !.pc = "ended"] /\ UNCHANGED unannounced /\ Step(Main, Idle)
  BY DEF SaveFails
<1>3. panel' \in [pc : {"boot", "listen", "ended"}, listener : ListenerSet] /\ panel'.pc = "ended"
  BY <1>1, <1>2 DEF TypeOK
<1>4. NamesApart' /\ sealed = 0 /\ disk.file = 0
  BY <1>1 DEF NamesApart, SecretKept, MainBoots
<1> QED
  BY <1>1, <1>2, <1>3, <1>4, IdleTyped, MainStep

\* The generated secret is on disk, whole, before the panel listens.
LEMMA MainRenamePreserves ==
  ASSUME IInv, req[Main].pc = "rename", disk.tmp # 0, disk' = [tmp |-> 0, file |-> disk.tmp],
         Step(Main, Saved(Main)), panel' = [panel EXCEPT !.pc = "listen"], sealed' = cfg.secret,
         UNCHANGED <<cfg, cells, token, bind, begun, boots, unannounced, overlapped, around>>
  PROVE  IInv'
<1>1. /\ TypeOK /\ MainBoots /\ SecretKept /\ cfg \in Config /\ disk.tmp \in Cells /\ Main \in Savers
  BY Typed DEF IInv, TypeOK
<1>2. /\ panel.pc = "boot" /\ cfg.secret # 0 /\ req[Main].fd = disk.tmp /\ cells[disk.tmp] = cfg
  BY <1>1 DEF MainBoots, SecretKept, Saving
<1>3. panel' \in [pc : {"boot", "listen", "ended"}, listener : ListenerSet] /\ panel'.pc = "listen"
  BY <1>1 DEF TypeOK
<1>4. Step(Main, Idle)
  BY DEF Saved
<1>5. /\ disk' \in [tmp : Cells \cup {0}, file : Cells \cup {0}] /\ NamesApart'
      /\ disk'.tmp = 0 /\ disk'.file = disk.tmp /\ disk'.file # 0
  BY <1>1 DEF NamesApart
<1>6. sealed' \in Nat /\ sealed' # 0 /\ Whole(cells[disk.tmp]) /\ cells[disk.tmp].secret = sealed'
  BY <1>1, <1>2, WholeIsConfig DEF Config
<1> QED
  BY <1>2, <1>3, <1>4, <1>5, <1>6, IdleTyped, MainStep

LEMMA SaveStepPreserves ==
  ASSUME IInv, NEW p \in Savers, SaveStep(p)
  PROVE  IInv'
<1>1. CASE Marshal(p)
  BY <1>1, MarshalPreserves, MainMarshalPreserves DEF Savers
<1>2. ASSUME SaveFails(p), req[p].pc # "idle",
             UNCHANGED <<cfg, disk, cells, token, bind, begun, boots, overlapped, around, sealed>>
      PROVE  IInv'
  BY <1>2, SaveFailsPreserves, MainFailsPreserves DEF Savers
<1>3. CASE OpenTmp(p)
  <2>1. CASE SaveFails(p) /\ UNCHANGED <<disk, cells, overlapped>>
    BY <1>2, <1>3, <2>1 DEF OpenTmp
  <2>2. CASE ~(SaveFails(p) /\ UNCHANGED <<disk, cells, overlapped>>)
    BY <1>3, <2>2, OpenTmpPreserves DEF OpenTmp
  <2> QED
    BY <2>1, <2>2
<1>4. CASE WriteTmp(p)
  <2>1. CASE SaveFails(p) /\ UNCHANGED cells
    BY <1>2, <1>4, <2>1 DEF WriteTmp
  <2>2. CASE ~(SaveFails(p) /\ UNCHANGED cells)
    BY <1>4, <2>2, WriteTmpPreserves DEF WriteTmp
  <2> QED
    BY <2>1, <2>2
<1>5. CASE Rename(p)
  <2>1. /\ req[p].pc = "rename" /\ UNCHANGED <<cfg, cells, token, bind, begun, boots, overlapped, around>>
        /\ sealed' = IF panel'.pc = "listen" /\ p = Main THEN cfg.secret ELSE sealed
    BY <1>5 DEF Rename
  <2>2. CASE SaveFails(p) /\ UNCHANGED disk
    <3>1. ~(panel'.pc = "listen" /\ p = Main)
      BY <2>2 DEF SaveFails, IInv, TypeOK
    <3> QED
      BY <1>2, <2>1, <2>2, <3>1
  <2>3. CASE /\ disk.tmp # 0 /\ disk' = [tmp |-> 0, file |-> disk.tmp] /\ Step(p, Saved(p))
             /\ IF p = Main THEN panel' = [panel EXCEPT !.pc = "listen"] ELSE UNCHANGED panel
             /\ UNCHANGED unannounced
    <3>1. CASE p = Main
      <4>1. panel' = [panel EXCEPT !.pc = "listen"] /\ panel'.pc = "listen"
        BY <2>3, <3>1 DEF IInv, TypeOK
      <4> QED
        BY <2>1, <2>3, <3>1, <4>1, MainRenamePreserves
    <3>2. CASE p # Main
      BY <2>1, <2>3, <3>2, RenamePreserves DEF Savers
    <3> QED
      BY <3>1, <3>2
  <2> QED
    BY <1>5, <2>2, <2>3 DEF Rename
<1> QED
  BY <1>1, <1>3, <1>4, <1>5 DEF SaveStep

(***************************************************************************)
(* Starts and ends.                                                        *)
(***************************************************************************)

\* Nothing runs: whoever begins does so from what is on disk.
AllIdle == \A p \in Savers : req[p].pc = "idle"

LEMMA DownIsIdle ==
  ASSUME MainBoots, panel.pc = "down"
  PROVE  AllIdle
BY DEF MainBoots, AllIdle, Savers

\* A start finds no secret only when none was ever served with.
LEMMA LoadPreserves ==
  ASSUME IInv, Load
  PROVE  IInv'
<1>1. /\ TypeOK /\ WritersAlone /\ NamesApart /\ DataMarshalled /\ MainBoots /\ SecretKept
      /\ PortsJudged /\ RebindsAnnounced /\ PortOfSettings /\ AllIdle
      /\ req \in [Savers -> Requests] /\ panel.pc = "down" /\ boots \in 0..MaxBoots /\ boots \in Nat
      /\ boots' \in 0..MaxBoots /\ Main \in Savers
      /\ UNCHANGED <<disk, cells, token, bind, begun, unannounced, overlapped>>
  BY Typed, DownIsIdle, BoundsAssumption, SMT DEF IInv, Load, TypeOK
<1>2. LoadFile \in Config \cup {Empty, Garbled} /\ (disk.file = 0 => LoadFile = Default)
      /\ (disk.file # 0 => LoadFile = cells[disk.file])
  BY <1>1, DefaultConfig DEF TypeOK, LoadFile
<1>3. CASE LoadFile.whole # "yes"
  <2>1. panel' = [panel EXCEPT !.pc = "ended"] /\ UNCHANGED <<cfg, req, around, sealed>>
    BY <1>3 DEF Load
  <2>2. panel'.pc = "ended" /\ TypeOK'
    BY <1>1, <2>1 DEF TypeOK
  <2>3. \A p \in Savers : ~Saving(p)'
    BY <1>1, <2>1 DEF AllIdle, Saving
  <2>4. WritersAlone' /\ NamesApart' /\ DataMarshalled' /\ MainBoots'
    BY <1>1, <2>1, <2>2, <2>3, Typed DEF AllIdle, WritersAlone, NamesApart, DataMarshalled, MainBoots
  <2>5. SecretKept'
    BY <1>1, <2>1, <2>2, Typed DEF SecretKept, Serving
  <2>6. PortsJudged' /\ RebindsAnnounced' /\ PortOfSettings'
    BY <1>1, <2>1, <2>2, Typed DEF AllIdle, PortsJudged, Judged, RebindsAnnounced, RebindNotLost, Announced, PortOfSettings
  <2> QED
    BY <2>2, <2>4, <2>5, <2>6 DEF IInv
<1>4. CASE LoadFile.whole = "yes"
  <2>1. PICK port \in EnvPorts :
          LET c == Finalize(ApplyEnv(LoadFile, port))
              next == Loaded(LoadFile.secret = 0)
          IN /\ cfg' = c
             /\ panel' = [panel EXCEPT !.pc = next]
             /\ IF next = "boot" THEN Step(Main, [Idle EXCEPT !.pc = "marshal"]) ELSE UNCHANGED req
             /\ around' = (around \/ Collides(c.listener, bind))
             /\ sealed' = IF next = "listen" THEN c.secret ELSE sealed
    BY <1>4, Zenon DEF Load
  <2> DEFINE next == Loaded(LoadFile.secret = 0)
             r == [Idle EXCEPT !.pc = "marshal"]
  <2>2. LoadFile \in Config
    BY <1>2, <1>4, WholeIsConfig DEF Whole
  <2>3. /\ cfg' \in Config /\ cfg'.secret # 0
        /\ LoadFile.secret # 0 => cfg'.secret = LoadFile.secret
    BY <1>1, <2>1, <2>2, LoadedTyped
  <2>4. /\ next = IF LoadFile.secret = 0 THEN "boot" ELSE "listen"
        /\ panel' = [panel EXCEPT !.pc = next]
        /\ IF next = "boot" THEN Step(Main, r) ELSE UNCHANGED req
        /\ around' = (around \/ Collides(cfg'.listener, bind))
        /\ sealed' = IF next = "listen" THEN cfg'.secret ELSE sealed
    BY <2>1 DEF Loaded
  <2> HIDE DEF next
  <2>5. r \in Requests /\ r.pc = "marshal"
    BY IdleTyped, Zenon DEF Requests
  <2> HIDE DEF r
  <2>6. LoadFile.secret = 0 <=> sealed = 0
    <3>1. disk.file # 0 => sealed # 0 /\ LoadFile.secret = sealed
      BY <1>1, <1>2, <1>4 DEF SecretKept, Whole
    <3>2. disk.file = 0 => sealed = 0 /\ LoadFile.secret = 0
      BY <1>1, <1>2, DefaultConfig DEF SecretKept
    <3> QED
      BY <3>1, <3>2
  <2>7. sealed # 0 => LoadFile.secret = sealed
    BY <1>1, <1>2, <1>4, <2>6, DefaultConfig DEF SecretKept, Whole
  <2>8. /\ sealed' = sealed
        /\ panel'.pc = IF sealed = 0 THEN "boot" ELSE "listen"
        /\ sealed # 0 => cfg'.secret = sealed
        /\ panel' \in [pc : {"boot", "listen"}, listener : ListenerSet]
    BY <1>1, <2>3, <2>4, <2>6, <2>7 DEF TypeOK
  <2>9. /\ req' \in [Savers -> Requests] /\ \A h \in Handlers : req'[h].pc = "idle"
        /\ req'[Main].pc = IF sealed = 0 THEN "marshal" ELSE "idle"
    BY <1>1, <2>4, <2>5, <2>6, Typed DEF AllIdle, Step
  <2>10. \A p \in Savers : ~Saving(p)' /\ req'[p].pc \notin Carrying
    BY <2>9 DEF Saving, Carrying, Savers
  <2>11. TypeOK'
    <3>1. around' \in BOOLEAN
      BY <1>1, <2>4 DEF TypeOK, Collides
    <3> QED
      BY <1>1, <2>3, <2>8, <2>9, <3>1 DEF TypeOK
  <2>12. WritersAlone' /\ NamesApart' /\ DataMarshalled'
    BY <1>1, <2>10 DEF WritersAlone, NamesApart, DataMarshalled, Carrying
  <2>13. MainBoots'
    BY <2>8, <2>9 DEF MainBoots, Storing, Carrying
  <2>14. SecretKept'
    BY <1>1, <2>3, <2>8, <2>9, <2>10 DEF SecretKept, Carrying, Serving
  <2>15. PortsJudged' /\ RebindsAnnounced'
    BY <2>8, <2>9 DEF PortsJudged, Judged, RebindsAnnounced, RebindNotLost, Announced
  <2>16. PortOfSettings'
    BY <1>1, <2>4 DEF PortOfSettings, Collides
  <2> QED
    BY <2>11, <2>12, <2>13, <2>14, <2>15, <2>16 DEF IInv
<1> QED
  BY <1>3, <1>4

LEMMA ExitPreserves ==
  ASSUME IInv, Exit
  PROVE  IInv'
<1>1. /\ TypeOK /\ WritersAlone /\ NamesApart /\ DataMarshalled /\ MainBoots /\ SecretKept
      /\ panel' = Off /\ req' = [p \in Savers |-> Idle] /\ token' = FALSE
      /\ cfg' = Default /\ unannounced' = FALSE
      /\ UNCHANGED <<disk, cells, bind, begun, boots, overlapped, around, sealed>>
  BY DEF IInv, Exit
<1>2. Off \in [pc : {"down"}, listener : ListenerSet] /\ Off.pc = "down"
  BY DefaultTyped DEF Off
<1>3. \A p \in Savers : req'[p] = Idle /\ ~Saving(p)'
  BY <1>1, IdleTyped DEF Saving
<1>4. TypeOK'
  BY <1>1, <1>2, IdleTyped, DefaultConfig DEF TypeOK
<1>5. WritersAlone' /\ NamesApart' /\ DataMarshalled' /\ MainBoots'
  BY <1>1, <1>2, <1>3, IdleTyped, Typed DEF WritersAlone, NamesApart, DataMarshalled, MainBoots, Carrying
<1>6. SecretKept'
  BY <1>1, <1>2, <1>3, IdleTyped, Typed DEF SecretKept, Serving, Carrying
<1>7. PortsJudged' /\ RebindsAnnounced' /\ PortOfSettings'
  BY <1>1, <1>2, <1>3, IdleTyped, Typed DEF PortsJudged, Judged, RebindsAnnounced, RebindNotLost, Announced, PortOfSettings
<1> QED
  BY <1>4, <1>5, <1>6, <1>7 DEF IInv

(***************************************************************************)
(* Server.Run.                                                             *)
(***************************************************************************)

\* What Run does leaves everything but the panel alone.
LEMMA RunKeeps ==
  ASSUME IInv, panel.pc \in Serving, panel'.pc \in Serving \cup {"ended"},
         panel' \in [pc : {"listen", "tls", "serve", "closing", "ended"}, listener : ListenerSet],
         token' \in BOOLEAN, unannounced' \in BOOLEAN, RebindsAnnounced',
         UNCHANGED <<cfg, disk, cells, bind, req, begun, boots, overlapped, around, sealed>>
  PROVE  IInv'
<1>1. TypeOK'
  BY DEF IInv, TypeOK
<1>2. WritersAlone' /\ NamesApart' /\ DataMarshalled' /\ PortsJudged'
  BY DEF IInv, WritersAlone, Saving, NamesApart, DataMarshalled, PortsJudged, Judged, Collides
<1>3. MainBoots' /\ SecretKept'
  BY DEF IInv, MainBoots, SecretKept, Serving, Saving
<1>4. PortOfSettings'
  BY DEF IInv, PortOfSettings, Collides, Serving
<1> QED
  BY <1>1, <1>2, <1>3, <1>4 DEF IInv

LEMMA RunStepPreserves ==
  ASSUME IInv, RunStep
  PROVE  IInv'
<1>1. /\ TypeOK /\ RebindsAnnounced /\ token \in BOOLEAN /\ unannounced \in BOOLEAN
      /\ panel.listener \in ListenerSet /\ cfg.listener \in ListenerSet
      /\ panel \in [pc : {"down", "boot", "listen", "tls", "serve", "closing", "ended"},
                    listener : ListenerSet]
  BY DEF IInv, TypeOK, Config
<1>2. CASE RunListen
  <2> DEFINE l == [cfg.listener EXCEPT !.tls = "off"]
  <2>1. /\ panel.pc = "listen" /\ panel' \in [pc : {"tls", "ended"}, listener : {l}] /\ unannounced' = FALSE
        /\ UNCHANGED <<cfg, disk, cells, token, bind, req, begun, boots, overlapped, around, sealed>>
    BY <1>2 DEF RunListen
  <2>2. l \in ListenerSet /\ [l EXCEPT !.tls = cfg.listener.tls] = cfg.listener
    BY <1>1 DEF ListenerSet
  <2> HIDE DEF l
  <2>3. RebindsAnnounced'
    BY <2>1, <2>2 DEF RebindsAnnounced, RebindNotLost, Announced
  <2> QED
    BY <1>1, <2>1, <2>2, <2>3, RunKeeps DEF Serving
<1>3. CASE RunTLS
  <2> DEFINE l == [panel.listener EXCEPT !.tls = cfg.listener.tls]
  <2>1. /\ panel.pc = "tls" /\ panel' = [panel EXCEPT !.pc = "serve", !.listener.tls = cfg.listener.tls]
        /\ UNCHANGED <<cfg, disk, cells, token, bind, req, begun, boots, unannounced, overlapped, around, sealed>>
    BY <1>3 DEF RunTLS
  <2>2. l \in ListenerSet
    BY <1>1 DEF ListenerSet
  <2>3. panel' = [panel EXCEPT !.pc = "serve", !.listener = l]
    BY <2>1
  <2>4. l # cfg.listener => Announced
    BY <1>1, <2>1 DEF RebindsAnnounced
  <2> HIDE DEF l
  <2>5. panel' \in [pc : {"serve"}, listener : {l}]
    BY <1>1, <2>3
  <2>6. Announced => Announced'
    BY <2>1 DEF Announced, Announcing
  <2>7. RebindsAnnounced'
    BY <2>1, <2>4, <2>5, <2>6 DEF RebindsAnnounced, RebindNotLost, Announced
  <2> QED
    BY <1>1, <2>1, <2>2, <2>5, <2>7, RunKeeps DEF Serving
<1>4. CASE ServeEnds \/ TakeRebind \/ Closed
  <2>1. /\ panel.pc \in Serving /\ token' \in BOOLEAN
        /\ panel' \in [pc : {"ended", "closing", "listen"}, listener : ListenerSet]
        /\ UNCHANGED <<cfg, disk, cells, bind, req, begun, boots, unannounced, overlapped, around, sealed>>
    BY <1>1, <1>4 DEF ServeEnds, TakeRebind, Closed, Serving
  <2>2. RebindsAnnounced'
    BY <2>1 DEF RebindsAnnounced, RebindNotLost, Announced
  <2> QED
    BY <1>1, <2>1, <2>2, RunKeeps DEF Serving
<1> QED
  BY <1>2, <1>3, <1>4 DEF RunStep

(***************************************************************************)
(* The theorems.                                                           *)
(***************************************************************************)

LEMMA InitSound ==
  ASSUME Init
  PROVE  IInv
<1>1. /\ cfg = Default /\ disk = [tmp |-> 0, file |-> 0] /\ cells = [c \in Cells |-> Empty]
      /\ panel = Off /\ token = FALSE
      /\ bind \in {[Idle.row EXCEPT !.frontend = enabled] : enabled \in BOOLEAN}
      /\ req = [p \in Savers |-> Idle] /\ begun = 0 /\ boots = 0
      /\ unannounced = FALSE /\ overlapped = FALSE /\ around = FALSE /\ sealed = 0
  BY DEF Init
<1>2. Off \in [pc : {"down"}, listener : ListenerSet] /\ Off.pc = "down"
  BY DefaultTyped DEF Off
<1>3. bind \in [addr : Addrs, port : Ports, enabled : BOOLEAN, frontend : BOOLEAN]
  <2>1. Idle.row \in [addr : Addrs, port : Ports, enabled : BOOLEAN, frontend : BOOLEAN]
    BY IdleTyped, DefaultTyped
  <2> DEFINE row == Idle.row
  <2> HIDE DEF row
  <2>2. bind \in {[row EXCEPT !.frontend = enabled] : enabled \in BOOLEAN}
    BY <1>1 DEF row
  <2> QED
    BY <2>1, <2>2 DEF row
<1>4. 0 \in 0..MaxRequests /\ 0 \in 0..MaxBoots /\ 0 \in Nat
  BY BoundsAssumption, SMT
<1>5. \A p \in Savers : req[p] = Idle /\ ~Saving(p)
  BY <1>1, IdleTyped DEF Saving
<1>6. TypeOK
  BY <1>1, <1>2, <1>3, <1>4, IdleTyped, DefaultConfig DEF TypeOK
<1>7. disk.tmp = 0 /\ disk.file = 0
  BY <1>1
<1>8. WritersAlone /\ NamesApart /\ DataMarshalled
  BY <1>5, <1>7, IdleTyped DEF WritersAlone, NamesApart, DataMarshalled, Carrying
<1>9. MainBoots /\ SecretKept
  BY <1>1, <1>2, <1>5, <1>6, <1>7, IdleTyped, Typed DEF MainBoots, SecretKept, Serving, Carrying
<1>10. PortsJudged /\ RebindsAnnounced /\ PortOfSettings
  BY <1>1, <1>2, <1>5, <1>6, IdleTyped, Typed
     DEF PortsJudged, Judged, RebindsAnnounced, RebindNotLost, Announced, PortOfSettings
<1> QED
  BY <1>6, <1>8, <1>9, <1>10 DEF IInv

LEMMA StutterPreserves ==
  ASSUME IInv, UNCHANGED vars
  PROVE  IInv'
<1>1. UNCHANGED <<cfg, disk, cells, panel, token, bind, req, begun, boots, unannounced, overlapped,
                  around, sealed>>
  BY DEF vars
<1> QED
  BY <1>1 DEF IInv, TypeOK, WritersAlone, NamesApart, DataMarshalled, MainBoots, SecretKept,
     PortsJudged, Judged, RebindsAnnounced, RebindNotLost, PortOfSettings, Announced, Announcing,
     Saving, Collides

LEMMA NextPreserves ==
  ASSUME IInv, [Next]_vars
  PROVE  IInv'
<1>1. ASSUME NEW h \in Handlers, Request(h) PROVE IInv'
  BY <1>1, SettingsSavePreserves, PortsInUsePreserves, UpdateListenerPreserves, RebindPreserves,
     BindSavePreserves, SaveBindPreserves DEF Request
<1>2. ASSUME NEW p \in Savers, SaveStep(p) PROVE IInv'
  BY <1>2, SaveStepPreserves
<1> QED
  BY <1>1, <1>2, LoadPreserves, ExitPreserves, RunStepPreserves, UncheckedPreserves,
     StutterPreserves DEF Next

\* Every save, every check and every rebind stands where the code relies on it to.
THEOREM InductiveInvariant == Spec => []IInv
BY InitSound, NextPreserves, PTL DEF Spec

\* The configuration in memory and every whole file are valid ones, whatever the forms,
\* the environment and the file hold; there is always a file for a writer to open.
THEOREM TypeCorrect == Spec => []TypeOK
<1>1. IInv => TypeOK
  BY DEF IInv
<1> QED
  BY <1>1, InductiveInvariant, PTL

\* "Save writes the configuration back to disk atomically" (config.go:338), unless two
\* saves wrote the one temporary file at the same time.
THEOREM SaveIsAtomic == Spec => []FileIsWhole
<1>1. IInv => FileIsWhole
  BY DEF IInv, TypeOK, WritersAlone, FileIsWhole, Whole
<1> QED
  BY <1>1, InductiveInvariant, PTL

\* "Changing the listen address, port or TLS material rebinds the listener in place"
\* (handlers_admin.go:208): the rebind is pending or on its way.
THEOREM RebindsAreNotLost == Spec => []RebindNotLost
<1>1. IInv => RebindNotLost
  BY DEF IInv, RebindsAnnounced
<1> QED
  BY <1>1, InductiveInvariant, PTL

\* "The panel refuses to hand HAProxy a port the panel itself is listening on"
\* (README.md:451): the port served next goes to HAProxy only around the checks, and
\* the port served now also while the panel has still to follow a change of its
\* settings, or will not follow it because the save failed.
THEOREM PortIsKept == Spec => []PanelKeepsPort
<1>1. ASSUME IInv, panel.pc \in {"tls", "serve"}, Collides(panel.listener, bind), ~Announced
      PROVE  around
  <2> DEFINE served == panel.listener  asked == cfg.listener
  <2>1. served \in ListenerSet /\ asked \in ListenerSet /\ PortOfSettings
    BY <1>1 DEF IInv, TypeOK, Config
  <2>2. served = asked \/ [served EXCEPT !.tls = asked.tls] = asked
    BY <1>1 DEF IInv, RebindsAnnounced, RebindNotLost, Announced
  <2> HIDE DEF served, asked
  <2>3. served.addr = asked.addr /\ served.port = asked.port
    BY <2>1, <2>2 DEF ListenerSet
  <2>4. Collides(cfg.listener, bind)
    BY <1>1, <2>3 DEF Collides, served, asked
  <2> QED
    BY <1>1, <2>1, <2>4 DEF PortOfSettings
<1>2. IInv => PanelKeepsPort
  BY <1>1 DEF IInv, PortOfSettings, PanelKeepsPort
<1> QED
  BY <1>2, InductiveInvariant, PTL

\* The only steps that write the sealed secret: the boot's rename and a load.
LEMMA OnlySealedOnce ==
  ASSUME IInv, [Next]_vars
  PROVE  sealed' = sealed \/ sealed = 0
<1>1. SecretKept /\ TypeOK /\ MainBoots
  BY DEF IInv
<1>2. CASE Load
  <2>1. CASE LoadFile.whole # "yes"
    BY <1>2, <2>1 DEF Load
  <2>2. CASE LoadFile.whole = "yes" /\ sealed # 0
    <3>1. disk.file # 0 /\ LoadFile = cells[disk.file] /\ disk.file \in Cells
      BY <1>1, <2>2 DEF SecretKept, LoadFile, TypeOK
    <3>2. LoadFile.secret = sealed /\ LoadFile \in Config
      BY <1>1, <2>2, <3>1, WholeIsConfig DEF SecretKept, Whole, TypeOK
    <3>3. \A port \in EnvPorts : Finalize(ApplyEnv(LoadFile, port)).secret = sealed
      BY <1>1, <2>2, <3>2, LoadedTyped, BoundsAssumption DEF TypeOK
    <3>4. \E port \in EnvPorts :
            sealed' = IF Loaded(LoadFile.secret = 0) = "listen"
                      THEN Finalize(ApplyEnv(LoadFile, port)).secret ELSE sealed
      BY <1>2, <2>2, Zenon DEF Load
    <3> QED
      BY <3>3, <3>4
  <2> QED
    BY <2>1, <2>2
<1>3. ASSUME NEW p \in Savers, SaveStep(p) PROVE sealed' = sealed \/ sealed = 0
  <2>1. CASE Rename(p)
    <3>1. CASE p = Main
      BY <1>1, <2>1, <3>1 DEF SecretKept, MainBoots, Rename
    <3>2. CASE p # Main
      BY <2>1, <3>2 DEF Rename
    <3> QED
      BY <3>1, <3>2
  <2>2. CASE Marshal(p) \/ OpenTmp(p) \/ WriteTmp(p)
    BY <2>2 DEF Marshal, OpenTmp, WriteTmp
  <2> QED
    BY <1>3, <2>1, <2>2 DEF SaveStep
<1>4. ASSUME NEW h \in Handlers, Request(h) PROVE sealed' = sealed
  BY <1>4 DEF Request, SettingsSave, Begin, PortsInUse, UpdateListener, Rebind, BindSave, SaveBind
<1>5. CASE Exit \/ RunStep \/ Unchecked \/ UNCHANGED vars
  BY <1>5 DEF Exit, RunStep, RunListen, RunTLS, ServeEnds, TakeRebind, Closed, Unchecked, vars
<1> QED
  BY <1>2, <1>3, <1>4, <1>5 DEF Next

\* "The secret must be stable across restarts" (config.go:263): whatever is saved, fails
\* or is killed, the program serves with one secret.
THEOREM SecretIsStable == Spec => SecretStable
<1>1. IInv /\ [Next]_vars => [sealed' = sealed \/ sealed = 0]_sealed
  BY OnlySealedOnce
<1> QED
  BY <1>1, InductiveInvariant, PTL DEF Spec, SecretStable
=============================================================================
