------------------------------ MODULE Listener ------------------------------
(***************************************************************************)
(* The address the panel serves on: Run and Rebind of web/server.go, the   *)
(* configuration in memory and on disk (config/config.go), the settings    *)
(* form that changes it, and the bind lines of HAProxy that must leave it  *)
(* alone (handlers_admin.go, handlers_proxy.go).  Run is a goroutine, each *)
(* form a request, and Save the four system calls it makes.                *)
(***************************************************************************)
EXTENDS Integers, FiniteSets

CONSTANTS
  Handlers,     \* requests
  Main,         \* main while it boots
  Forms,        \* listeners the settings form asks for
  BindForms,    \* addresses and ports the bind form asks for
  EnvPorts,     \* values of HC_LISTEN_PORT the program may be started with
  DefaultListener,
  MaxRequests,  \* bound: requests begun, and rows changed without a check
  MaxBoots      \* bound: starts of the program

Any == "*"         \* the wildcard address
OutOfRange == 0    \* stands for every port outside 1..65535
Unset == -1
Savers == Handlers \cup {Main}
Ports == {f.port : f \in Forms \cup {DefaultListener}} \ {OutOfRange}
Addrs == {f.addr : f \in Forms \cup BindForms \cup {DefaultListener}}
\* "good" and "bad" are TLS with a key pair that loads and one that does not.
ListenerSet == [addr : Addrs, port : Ports, tls : {"off", "good", "bad"}]

ASSUME SaversAssumption == Main \notin Handlers /\ IsFiniteSet(Handlers)
ASSUME FormsAssumption ==
  /\ DefaultListener \in ListenerSet
  /\ \A f \in Forms : f \in [addr : Addrs, port : Ports \cup {OutOfRange}, tls : {"off", "good", "bad"}]
  /\ \A b \in BindForms : b \in [addr : Addrs, port : Ports]
  /\ EnvPorts \subseteq Ports \cup {OutOfRange, Unset}
ASSUME BoundsAssumption == MaxRequests \in Nat /\ MaxBoots \in Nat

VARIABLES
  cfg,      \* the Config in memory
  disk,     \* controller.json and its .tmp: the file each name leads to
  cells,    \* the content of each file
  panel,    \* Run: where it is, and the listener it serves
  token,    \* the channel rebind holds a value
  bind,     \* the bind line of one frontend
  req,      \* the local state of each request, and of main while it boots
  begun, boots,
  unannounced,  \* history: the listener was changed without asking for a rebind
  overlapped,   \* history: two saves wrote at the same time
  around,       \* history: a collision came past the checks
  sealed        \* history: the secret the program last served with

vars == <<cfg, disk, cells, panel, token, bind, req, begun, boots,
          unannounced, overlapped, around, sealed>>

\* Contents of a file other than a configuration: just created or truncated, and
\* two configurations written over each other.
Empty == [whole |-> "empty"]
Garbled == [whole |-> "garbled"]
Config == [whole : {"yes"}, listener : ListenerSet, secret : Nat]
Cells == 1..(Cardinality(Handlers) + 3)

Idle == [pc |-> "idle", form |-> DefaultListener, row |-> [addr |-> DefaultListener.addr,
         port |-> DefaultListener.port, enabled |-> FALSE, frontend |-> FALSE],
         changed |-> FALSE, again |-> FALSE, data |-> Empty, fd |-> 0, disturbed |-> FALSE]
Off == [pc |-> "down", listener |-> DefaultListener]

Go(p, next) == [req[p] EXCEPT !.pc = next]
Step(p, r) == req' = [req EXCEPT ![p] = r]

-----------------------------------------------------------------------------
(* Config.Save: marshal under the lock, create .tmp, write it, rename it.  *)

Saving(p) == req[p].pc \in {"write", "rename"}

Marshal(p) ==
  /\ req[p].pc = "marshal"
  /\ Step(p, [Go(p, "open") EXCEPT !.data = cfg])
  /\ UNCHANGED <<cfg, disk, cells, panel, token, bind, begun, boots, unannounced, overlapped, around, sealed>>

FreeCell == CHOOSE c \in Cells :
  c \notin {disk.tmp, disk.file} /\ \A p \in Savers : req[p].fd # c

\* Mutant: the file itself is opened.
InPlace == IF disk.file = 0 THEN [tmp |-> FreeCell, file |-> FreeCell]
           ELSE [tmp |-> disk.file, file |-> disk.file]

Tmp == IF disk.tmp = 0 THEN [disk EXCEPT !.tmp = FreeCell] ELSE disk

\* A call on the file system fails: the form reports it and asks for no rebind,
\* and a boot ends.
SaveFails(p) ==
  /\ IF p = Main
     THEN panel' = [panel EXCEPT !.pc = "ended"] /\ UNCHANGED unannounced
     ELSE unannounced' = TRUE /\ UNCHANGED panel
  /\ Step(p, Idle)

OpenTmp(p) ==
  /\ req[p].pc = "open"
  /\ \/ SaveFails(p) /\ UNCHANGED <<disk, cells, overlapped>>
     \/ /\ disk' = Tmp
        /\ cells' = [cells EXCEPT ![Tmp.tmp] = Empty]
        /\ overlapped' = (overlapped \/ \E q \in Savers \ {p} : Saving(q))
        /\ Step(p, [Go(p, "write") EXCEPT !.fd = Tmp.tmp])
        /\ UNCHANGED <<panel, unannounced>>
  /\ UNCHANGED <<cfg, token, bind, begun, boots, around, sealed>>

\* Over the bytes of another writer a shorter text leaves a tail.
WriteTmp(p) ==
  LET r == req[p] IN
  /\ r.pc = "write"
  /\ \/ SaveFails(p) /\ UNCHANGED cells
     \/ /\ \E text \in {r.data} \cup (IF cells[r.fd] \in {Empty, r.data} THEN {} ELSE {Garbled}) :
             cells' = [cells EXCEPT ![r.fd] = text]
        /\ Step(p, Go(p, "rename"))
        /\ UNCHANGED <<panel, unannounced>>
  /\ UNCHANGED <<cfg, disk, token, bind, begun, boots, overlapped, around, sealed>>

\* The form saves once in UpdateListener and once more.
Saved(p) ==
  LET r == [req[p] EXCEPT !.data = Empty, !.fd = 0] IN
  IF p = Main THEN Idle
  ELSE IF r.again THEN [r EXCEPT !.pc = "marshal", !.again = FALSE]
  ELSE IF r.changed THEN [r EXCEPT !.pc = "rebind"] ELSE Idle

Rename(p) ==
  /\ req[p].pc = "rename"
  /\ \/ SaveFails(p) /\ UNCHANGED disk
     \/ /\ disk.tmp # 0
        /\ disk' = [tmp |-> 0, file |-> disk.tmp]
        /\ Step(p, Saved(p))
        /\ IF p = Main THEN panel' = [panel EXCEPT !.pc = "listen"] ELSE UNCHANGED panel
        /\ UNCHANGED unannounced
  /\ sealed' = IF panel'.pc = "listen" /\ p = Main THEN cfg.secret ELSE sealed
  /\ UNCHANGED <<cfg, cells, token, bind, begun, boots, overlapped, around>>

SaveStep(p) == Marshal(p) \/ OpenTmp(p) \/ WriteTmp(p) \/ Rename(p)

-----------------------------------------------------------------------------
(* Boot: Load, with the environment over the file, and a secret generated  *)
(* when there is none, saved before anything is served.                    *)

Default == [whole |-> "yes", listener |-> DefaultListener, secret |-> 0]

\* A missing file is not an error, one that does not parse is.
LoadFile == IF disk.file = 0 THEN Default ELSE cells[disk.file]

ApplyEnv(c, port) == IF port = Unset THEN c ELSE [c EXCEPT !.listener.port = port]

Finalize(c) ==
  [c EXCEPT !.listener.port = IF @ = OutOfRange THEN DefaultListener.port ELSE @,
            !.secret = IF @ = 0 THEN boots + 1 ELSE @]

\* Mutant: the secret is kept in memory only.
ServedAtOnce(generated) == "listen"

Loaded(generated) == IF generated THEN "boot" ELSE "listen"

Collides(l, b) ==
  /\ b.enabled /\ b.frontend /\ b.port = l.port
  /\ b.addr = Any \/ l.addr = Any \/ b.addr = l.addr

Load ==
  /\ panel.pc = "down" /\ boots < MaxBoots /\ boots' = boots + 1
  /\ IF LoadFile.whole # "yes"
     THEN panel' = [panel EXCEPT !.pc = "ended"] /\ UNCHANGED <<cfg, req, around, sealed>>
     ELSE \E port \in EnvPorts :
            LET c == Finalize(ApplyEnv(LoadFile, port))
                next == Loaded(LoadFile.secret = 0)
            IN /\ cfg' = c
               /\ panel' = [panel EXCEPT !.pc = next]
               /\ IF next = "boot" THEN Step(Main, [Idle EXCEPT !.pc = "marshal"])
                                   ELSE UNCHANGED req
               /\ around' = (around \/ Collides(c.listener, bind))
               /\ sealed' = IF next = "listen" THEN c.secret ELSE sealed
  /\ UNCHANGED <<disk, cells, token, bind, begun, unannounced, overlapped>>

\* The program is killed, or has returned from main.
Exit ==
  /\ panel.pc # "down"
  /\ panel' = Off /\ req' = [p \in Savers |-> Idle] /\ token' = FALSE
  /\ cfg' = Default /\ unannounced' = FALSE
  /\ UNCHANGED <<disk, cells, bind, begun, boots, overlapped, around, sealed>>

-----------------------------------------------------------------------------
(* Server.Run.                                                             *)

\* net.Listen may find the address taken: Run returns, and the program ends.
RunListen ==
  /\ panel.pc = "listen"
  /\ \E works \in BOOLEAN :
       panel' = [pc |-> IF works THEN "tls" ELSE "ended",
                 listener |-> [cfg.listener EXCEPT !.tls = "off"]]
  /\ unannounced' = FALSE
  /\ UNCHANGED <<cfg, disk, cells, token, bind, req, begun, boots, overlapped, around, sealed>>

RunTLS ==
  /\ panel.pc = "tls"
  /\ panel' = [panel EXCEPT !.pc = "serve", !.listener.tls = cfg.listener.tls]
  /\ UNCHANGED <<cfg, disk, cells, token, bind, req, begun, boots, unannounced, overlapped, around, sealed>>

\* ServeTLS cannot load the key pair.
ServeEnds ==
  /\ panel.pc = "serve" /\ panel.listener.tls = "bad"
  /\ panel' = [panel EXCEPT !.pc = "ended"]
  /\ UNCHANGED <<cfg, disk, cells, token, bind, req, begun, boots, unannounced, overlapped, around, sealed>>

TakeRebind ==
  /\ panel.pc = "serve" /\ token
  /\ token' = FALSE
  /\ panel' = [panel EXCEPT !.pc = "closing"]
  /\ UNCHANGED <<cfg, disk, cells, bind, req, begun, boots, unannounced, overlapped, around, sealed>>

\* Shutdown waits ten seconds for the requests; those that take longer go on.
Closed ==
  /\ panel.pc = "closing"
  /\ panel' = [panel EXCEPT !.pc = "listen"]
  /\ UNCHANGED <<cfg, disk, cells, token, bind, req, begun, boots, unannounced, overlapped, around, sealed>>

RunStep == RunListen \/ RunTLS \/ ServeEnds \/ TakeRebind \/ Closed

-----------------------------------------------------------------------------
(* The settings form.                                                      *)

Begin(h, r) ==
  /\ panel.pc = "serve" /\ panel.listener.tls # "bad"
  /\ req[h].pc = "idle" /\ begun < MaxRequests /\ begun' = begun + 1
  /\ Step(h, r)
  /\ UNCHANGED <<cfg, disk, cells, panel, token, bind, boots, unannounced, overlapped, around, sealed>>

SettingsSave(h, f) ==
  Begin(h, [Idle EXCEPT !.form = f, !.changed = f # cfg.listener,
                        !.pc = IF f # cfg.listener THEN "ports" ELSE "update"])

\* Mutant: addresses collide only when they are spelled the same.
CollidesExactly(l, b) == b.enabled /\ b.frontend /\ b.port = l.port /\ b.addr = l.addr

Clash(l, b) == Collides(l, b)

\* The check is skipped when the query fails.
PortsInUse(h) ==
  /\ req[h].pc = "ports"
  /\ \E answered \in BOOLEAN :
       Step(h, IF answered /\ Clash(req[h].form, bind) THEN Idle
               ELSE [Go(h, "update") EXCEPT !.disturbed = ~answered])
  /\ UNCHANGED <<cfg, disk, cells, panel, token, bind, begun, boots, unannounced, overlapped, around, sealed>>

\* A port out of range, or TLS without a key pair, is refused.
\* Mutant: any port is taken.
AnyPort(f) == TRUE

InRange(f) == f.port # OutOfRange

\* Others that have judged by the listener or the bind are disturbed.
Disturbs(h, pcs, r) ==
  req' = [p \in Savers |-> IF p = h THEN r
            ELSE [req[p] EXCEPT !.disturbed = @ \/ req[p].pc \in pcs]]

UpdateListener(h) ==
  LET r == req[h] IN
  /\ r.pc = "update"
  /\ IF ~InRange(r.form) THEN Step(h, Idle) /\ UNCHANGED <<cfg, unannounced, around>>
     ELSE /\ cfg' = [cfg EXCEPT !.listener = r.form]
          /\ unannounced' = (unannounced \/ (~r.changed /\ cfg' # cfg))
          /\ around' = (around \/ (r.disturbed /\ Collides(r.form, bind)))
          /\ Disturbs(h, {"bind", "update"}, [Go(h, "marshal") EXCEPT !.again = TRUE])
  /\ UNCHANGED <<disk, cells, panel, token, bind, begun, boots, overlapped, sealed>>

\* Mutant: the channel has no room, and Run is not always waiting.
IfWaiting == panel.pc = "serve"

Sent == TRUE

Rebind(h) ==
  /\ req[h].pc = "rebind"
  /\ token' = (token \/ Sent)
  /\ Step(h, Idle)
  /\ UNCHANGED <<cfg, disk, cells, panel, bind, begun, boots, unannounced, overlapped, around, sealed>>

-----------------------------------------------------------------------------
(* Bind lines: the form checks the panel's port, then saves.               *)

BindSave(h, b, enabled) ==
  LET row == [addr |-> b.addr, port |-> b.port, enabled |-> enabled, frontend |-> bind.frontend]
      refused == Clash(cfg.listener, [row EXCEPT !.frontend = TRUE])
  IN Begin(h, IF refused THEN Idle ELSE [Idle EXCEPT !.pc = "bind", !.row = row])

SaveBind(h) ==
  LET row == [req[h].row EXCEPT !.frontend = bind.frontend] IN
  /\ req[h].pc = "bind"
  /\ bind' = row
  /\ around' = (around \/ (req[h].disturbed /\ Collides(cfg.listener, row)))
  /\ Disturbs(h, {"update"}, Idle)
  /\ UNCHANGED <<cfg, disk, cells, panel, token, begun, boots, unannounced, overlapped, sealed>>

\* The frontend form enables a frontend, and the assistant adds a bind line:
\* neither looks at the panel's port.
Unchecked ==
  /\ panel.pc # "down" /\ begun < MaxRequests /\ begun' = begun + 1
  /\ \/ bind' = [bind EXCEPT !.frontend = ~@]
     \/ \E b \in BindForms : bind' = [bind EXCEPT !.addr = b.addr, !.port = b.port, !.enabled = TRUE]
  /\ around' = (around \/ Collides(cfg.listener, bind'))
  /\ Disturbs(Main, {"update"}, req[Main])
  /\ UNCHANGED <<cfg, disk, cells, panel, token, boots, unannounced, overlapped, sealed>>

Request(h) ==
  \/ \E f \in Forms : SettingsSave(h, f)
  \/ PortsInUse(h) \/ UpdateListener(h) \/ Rebind(h)
  \/ \E b \in BindForms, enabled \in BOOLEAN : BindSave(h, b, enabled)
  \/ SaveBind(h)

Init ==
  /\ cfg = Default /\ disk = [tmp |-> 0, file |-> 0] /\ cells = [c \in Cells |-> Empty]
  /\ panel = Off /\ token = FALSE
  /\ bind \in {[Idle.row EXCEPT !.frontend = enabled] : enabled \in BOOLEAN}
  /\ req = [p \in Savers |-> Idle] /\ begun = 0 /\ boots = 0
  /\ unannounced = FALSE /\ overlapped = FALSE /\ around = FALSE /\ sealed = 0

Next ==
  \/ Load \/ Exit \/ RunStep \/ Unchecked
  \/ \E h \in Handlers : Request(h)
  \/ \E p \in Savers : SaveStep(p)

\* What has begun goes on; nothing makes forms arrive or the program start or end.
Proceeds(h) == PortsInUse(h) \/ UpdateListener(h) \/ Rebind(h) \/ SaveBind(h) \/ SaveStep(h)
Fairness == WF_vars(RunStep) /\ WF_vars(SaveStep(Main)) /\ \A h \in Handlers : WF_vars(Proceeds(h))
Spec == Init /\ [][Next]_vars
FairSpec == Spec /\ Fairness

-----------------------------------------------------------------------------
Requests == [pc : {"idle", "ports", "update", "marshal", "open", "write", "rename", "rebind", "bind"},
             form : Forms \cup {DefaultListener},
             row : [addr : Addrs, port : Ports, enabled : BOOLEAN, frontend : BOOLEAN],
             changed : BOOLEAN, again : BOOLEAN, data : Config \cup {Empty},
             fd : Cells \cup {0}, disturbed : BOOLEAN]

\* The configuration in memory and every whole file are valid ones, whatever is
\* in the form, the environment and the file; every name leads to a file.
TypeOK ==
  /\ cfg \in Config /\ disk \in [tmp : Cells \cup {0}, file : Cells \cup {0}]
  /\ cells \in [Cells -> Config \cup {Empty, Garbled}]
  /\ panel \in [pc : {"down", "boot", "listen", "tls", "serve", "closing", "ended"},
                listener : ListenerSet]
  /\ bind \in [addr : Addrs, port : Ports, enabled : BOOLEAN, frontend : BOOLEAN]
  /\ req \in [Savers -> Requests]
  /\ begun \in 0..MaxRequests /\ boots \in 0..MaxBoots /\ sealed \in Nat
  /\ {token, unannounced, overlapped, around} \subseteq BOOLEAN

Announcing(h) == req[h].changed /\ req[h].pc \in {"marshal", "open", "write", "rename", "rebind"}
Announced == token \/ unannounced \/ \E h \in Handlers : Announcing(h)

\* "Changing the listen address, port or TLS material rebinds the listener in
\* place" (handlers_admin.go:208): while the panel serves another listener than the
\* configured one, a rebind is pending or on its way.  Except when a save has
\* failed, or a form that changes nothing has undone the change of another.
RebindNotLost ==
  panel.pc = "serve" /\ panel.listener # cfg.listener => Announced

\* And the panel does get there, or its program ends (Run, Rebind).
Stale == panel.pc = "serve" /\ panel.listener # cfg.listener /\ ~unannounced
PanelMoves == Stale ~> ~Stale

\* "The panel refuses to hand HAProxy a port the panel itself is listening on"
\* (README.md:451): the port being served is HAProxy's only by a way that has no
\* check, when both were changed between check and write, or while the panel serves
\* another listener than the configured one, the only one the checks look at: before
\* a rebind, and for good after a save that failed.  And the port it will serve next
\* is HAProxy's in the first two cases only.
PanelKeepsPort ==
  /\ panel.pc \in {"tls", "serve"} /\ Collides(panel.listener, bind) => around \/ Announced
  /\ panel.pc \notin {"down", "ended"} /\ Collides(cfg.listener, bind) => around

\* "Save writes the configuration back to disk atomically" (config.go:338): a
\* program killed at any moment finds a file it can start with, unless two saves
\* wrote the one temporary file at the same time.
FileIsWhole == overlapped \/ disk.file = 0 \/ cells[disk.file].whole = "yes"

\* "The secret must be stable across restarts" (config.go:263): whatever is
\* saved, fails or is killed, no two starts of the program serve with two secrets.
SecretStable == [][sealed' = sealed \/ sealed = 0]_sealed
=============================================================================
