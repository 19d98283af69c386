-------------------------------- MODULE Xhci --------------------------------
(***************************************************************************)
(* How the xHCI driver finds the devices of a controller and hands them to *)
(* class drivers (drivers/xHCI/xHCI.c, xHCI_drvr.c): the scan of the       *)
(* ports, the command ring and the control pipe of every slot with their   *)
(* cycle bits, the event ring, and the states a slot goes through.  The    *)
(* controller and the devices run beside the pollers of the event ring.    *)
(***************************************************************************)
EXTENDS Integers, Sequences, FiniteSets, SequencesExt

CONSTANTS
    Ports,           \* 1..max_ports
    Slots,           \* the slots of the controller, 1..max_slots
    Devices,         \* what may be plugged in: class, subclass, protocol, full speed or not
    Templates,       \* the class drivers, in the order of their registration
    MAX_DRVRS,       \* XHCI_MAX_DRVRS
    CMD_LIMIT,       \* XHCI_CMD_RING_INDEX_LIMIT, of the command ring
    EP0_LIMIT,       \* the same limit, of the control pipes
    EVENTS,          \* XHCI_EVENT_RING_TRBS
    Pollers,         \* the worker, and threads that pump the event ring
    MAXPLUGS,        \* bound: devices that are plugged in
    Careful,         \* TRUE: only what the driver copes with, see below
    NONE

VARIABLES
    host,     \* xHCI_PCI_t: what the driver knows, with the rings in memory
    port,     \* the ports: device, enabled, being reset
    chip,     \* the controller: where it reads the rings, its slots
    evring,   \* the event ring
    poller,   \* poller[w]: the slot whose driver w starts, outside the lock
    plugs,
    wild      \* the controller used memory that was not meant for it

vars == <<host, port, chip, evring, poller, plugs, wild>>

-----------------------------------------------------------------------------
(* Class drivers (xHCI_drvr.c).                                             *)

\* xHCI_submit_new_drvr: the table holds the first MAX_DRVRS.
drvr_table == SubSeq(Templates, 1, IF Len(Templates) < MAX_DRVRS THEN Len(Templates) ELSE MAX_DRVRS)

xhci_match_score(t, d) ==
    IF t.cc # d.cc \/ ("sc" \in t.match /\ t.sc # d.sc) \/ ("prot" \in t.match /\ t.prot # d.prot)
    THEN 0 ELSE 1 + (IF "sc" \in t.match THEN 1 ELSE 0) + (IF "prot" \in t.match THEN 1 ELSE 0)

\* The first driver with the best score, 0 if none matches.
xHCI_load_new_drvr(d) ==
    FoldLeft(LAMBDA best, i : IF xhci_match_score(drvr_table[i], d)
                                 > (IF best = 0 THEN 0 ELSE xhci_match_score(drvr_table[best], d))
                              THEN i ELSE best,
             0, [i \in 1..Len(drvr_table) |-> i])

-----------------------------------------------------------------------------
(* Rings.  The link at the end of a ring tells the controller to toggle the *)
(* cycle bit it expects.                                                    *)

Blank(limit) == [trb |-> [i \in 0..limit |-> [type |-> "none", arg |-> 0, cycle |-> 0]], enq |-> 0, cycle |-> 1]

Place(ring, type, arg) ==
    [ring EXCEPT !.trb[ring.enq] = [type |-> type, arg |-> arg, cycle |-> ring.cycle], !.enq = @ + 1]

Link(ring, limit, next) ==
    [ring EXCEPT !.trb[limit] = [type |-> "link", arg |-> 0, cycle |-> ring.cycle], !.enq = 0, !.cycle = next]

\* Mutant: the ring starts again without a new cycle bit.
SendsUnwrapped(x, type, slot) ==
    LET c == Place(x.cmd, type, slot)
    IN [x EXCEPT !.cmd = IF c.enq = CMD_LIMIT THEN Link(c, CMD_LIMIT, c.cycle) ELSE c]

\* After a link the cycle bit of the command ring is 0: right once, for it
\* begins as 1.
xHCI_send_command(x, type, slot) ==
    LET c == Place(x.cmd, type, slot)
    IN [x EXCEPT !.cmd = IF c.enq = CMD_LIMIT THEN Link(c, CMD_LIMIT, 0) ELSE c]

\* xHCI_wrap_trb has the cycle bit by value: the pipe keeps the one it has.
xHCI_wrap_trb(ring) == IF ring.enq >= EP0_LIMIT THEN Link(ring, EP0_LIMIT, ring.cycle) ELSE ring

HasData(req) == req \in {"device8", "device", "header", "full"}

\* Setup, data and status stage of a request on the control pipe.
xHCI_send_req(x, s, req) ==
    LET setup == xHCI_wrap_trb(Place(x.slot[s].ep0, "setup", req))
        data == IF HasData(req) THEN xHCI_wrap_trb(Place(setup, "data", req)) ELSE setup
    IN [x EXCEPT !.slot[s].ep0 = xHCI_wrap_trb(Place(data, "status", req))]

\* What the controller finds next: it follows a link that is its own.
AtLink(ring, at) == ring.trb[at.deq].type = "link" /\ ring.trb[at.deq].cycle = at.ccs
Followed(ring, at) == IF AtLink(ring, at) THEN [deq |-> 0, ccs |-> 1 - at.ccs] ELSE at
Given(ring, at) == LET f == Followed(ring, at) IN ring.trb[f.deq].cycle = f.ccs
After(ring, at) == LET f == Followed(ring, at) IN [f EXCEPT !.deq = @ + 1]
Found(ring, at) == ring.trb[Followed(ring, at).deq]

-----------------------------------------------------------------------------
(* The scan of the ports.                                                   *)

xHCI_check_port(x, p) ==
    LET hw == port[p]
    IN IF hw.dev = NONE
       THEN [x EXCEPT !.ignored = @ \ {p}, !.resetting = @ \ {p}, !.mapping[p] = 0]
       ELSE IF p \in x.ignored THEN x
       ELSE IF ~hw.enabled
            THEN IF p \in x.resetting THEN x
                 ELSE [x EXCEPT !.pr = @ \cup {p}, !.resetting = @ \cup {p}]
       ELSE LET y == [x EXCEPT !.resetting = @ \ {p}]
            IN IF y.mapping[p] # 0 \/ y.pending # 0 THEN y
               ELSE xHCI_send_command([y EXCEPT !.pending = p], "enable", 0)

xHCI_check_ports(x) == FoldLeft(xHCI_check_port, x, [p \in 1..Cardinality(Ports) |-> p])

\* The device in a slot, by the port that is mapped to it.
PortOf(x, s) == {p \in Ports : x.mapping[p] = s}

-----------------------------------------------------------------------------
(* Completion of commands: xHCI_handle_TTCC.                                *)

Unused == [state |-> "NONE", drvr |-> 0, desc |-> FALSE, conf |-> FALSE, ctx |-> FALSE, eps |-> FALSE,
           ep0 |-> Blank(EP0_LIMIT)]

\* xHCI_addr_dev: contexts and a new control pipe.
xHCI_addr_dev(x, s, p) ==
    xHCI_send_command([x EXCEPT !.pending = 0, !.slot[s].ctx = TRUE, !.slot[s].ep0 = Blank(EP0_LIMIT),
                                !.ictx[s] = p],
                      "address", s)

xHCI_req_dev_desc(x, s, req, state) == xHCI_send_req([x EXCEPT !.slot[s].state = state], s, req)

\* xHCI_slot_speed reads the port of the slot.
FullSpeed(x, s) == \E p \in PortOf(x, s) : port[p].dev # NONE /\ port[p].dev.full

SlotEnabled(x, s) == [xHCI_addr_dev([x EXCEPT !.slot[s].state = "ADDRESSING", !.mapping[x.pending] = s], s, x.pending)
                         EXCEPT !.pending = 0]

DeviceAddressed(x, s) ==
    LET y == [x EXCEPT !.slot[s].desc = TRUE]
    IN IF FullSpeed(x, s) THEN xHCI_req_dev_desc(y, s, "device8", "GET_DEV_DESC_HEAD")
       ELSE xHCI_req_dev_desc(y, s, "device", "GET_DEV_DESC")

EndpointsConfigured(x, s) == xHCI_send_req([x EXCEPT !.slot[s].state = "SETTING_CONFIG"], s, "config")

SlotDisabled(x, s) == IF x.slot[s].state # "DISABLING" THEN x ELSE [x EXCEPT !.slot[s] = Unused]

\* By the type of the command, which is read from the ring; commands that failed
\* are only reported.
xHCI_handle_TTCC(x, e) ==
    LET type == x.cmd.trb[e.at].type
        s == e.slot
        y == CASE type = "enable" -> SlotEnabled(x, s)
               [] type = "address" -> DeviceAddressed(x, s)
               [] type = "evaluate" -> xHCI_req_dev_desc(x, s, "device", "GET_DEV_DESC")
               [] type = "configure" -> EndpointsConfigured(x, s)
               [] type = "disable" -> SlotDisabled(x, s)
    IN IF ~e.ok \/ s = 0 THEN x
       ELSE IF y.slot[s].state = "CONFIGURED" /\ y.slot[s].drvr # 0 THEN xHCI_check_ports(y)
       ELSE y

-----------------------------------------------------------------------------
(* Completion of transfers: xHCI_handle_TTE.                                *)

\* The port of a slot that is given up is left alone until it is empty.
xHCI_discard_slot(x, s) ==
    xHCI_send_command([x EXCEPT !.ignored = @ \cup PortOf(x, s), !.slot[s].state = "DISABLING"], "disable", s)

xHCI_eval_ep0_mps(x, s) ==
    xHCI_send_command([x EXCEPT !.scratchpad = s, !.slot[s].state = "EVAL_EP0"], "evaluate", s)

xHCI_conf_iface_ep(x, s) ==
    xHCI_send_command([x EXCEPT !.scratchpad = s, !.slot[s].eps = TRUE, !.slot[s].state = "CONFIGURING_EP"], "configure", s)

\* The keyboard driver asks for the boot protocol and for no repeated reports
\* (kbusb_initialize).
Early(d) == drvr_table[d].name = "keyboard"
Initialized(x, s, d) ==
    IF Early(d) THEN xHCI_send_req(xHCI_send_req(x, s, "protocol"), s, "idle") ELSE x

\* The whole configuration has arrived: a driver for it, or the slot is given up.
Matched(x, s, dev) ==
    LET d == xHCI_load_new_drvr(dev)
        y == IF d # 0 THEN xHCI_conf_iface_ep(Initialized([x EXCEPT !.slot[s].drvr = d], s, d), s)
             ELSE xHCI_discard_slot(x, s)
    IN [y EXCEPT !.slot[s].conf = FALSE]

\* Mutant: a transfer that failed leaves its slot as it is.
FailureIgnored(x, e) == x

TransferFailed(x, e) ==
    IF x.slot[e.slot].state \notin {"CONFIGURED", "DISABLING"} THEN xHCI_discard_slot(x, e.slot) ELSE x

\* Success by the state of the slot.  In CONFIGURED the driver of the slot is
\* called, on its own pipes.
xHCI_handle_TTE(x, e) ==
    LET s == e.slot
        st == x.slot[s].state
    IN CASE ~e.ok -> TransferFailed(x, e)
         [] e.ok /\ st = "GET_DEV_DESC_HEAD" ->
              IF e.dev.mps > 8 THEN xHCI_eval_ep0_mps(x, s) ELSE xHCI_req_dev_desc(x, s, "device", "GET_DEV_DESC")
         [] e.ok /\ st = "GET_DEV_DESC" ->
              xHCI_send_req([x EXCEPT !.slot[s].desc = FALSE, !.slot[s].conf = TRUE,
                                      !.slot[s].state = "GET_CONFIG_DESC_HEADER"], s, "header")
         [] e.ok /\ st = "GET_CONFIG_DESC_HEADER" ->
              xHCI_send_req([x EXCEPT !.slot[s].state = "GET_CONFIG_DESC_FULL"], s, "full")
         [] e.ok /\ st = "GET_CONFIG_DESC_FULL" -> Matched(x, s, e.dev)
         [] e.ok /\ st = "SETTING_CONFIG" -> [x EXCEPT !.slot[s].state = "CONFIGURED"]
         [] OTHER -> x

-----------------------------------------------------------------------------
(* The event ring: one event, under the lock.                               *)

EventWaits == evring[host.ev.deq].cycle = host.ev.ccs

Dequeued(x) ==
    IF x.ev.deq + 1 >= EVENTS THEN [x EXCEPT !.ev = [deq |-> 0, ccs |-> 1 - x.ev.ccs]]
    ELSE [x EXCEPT !.ev.deq = @ + 1]

\* A command that uses the scratchpad and has not been executed.
ScratchInUse ==
    /\ Given(host.cmd, chip.cmd)
    /\ Found(host.cmd, chip.cmd).type \in {"evaluate", "configure"}

\* Ports whose PR bit was set are being reset.
Resets(x) ==
    /\ port' = [p \in Ports |-> IF p \in x.pr THEN [port[p] EXCEPT !.reset = TRUE, !.enabled = FALSE] ELSE port[p]]
    /\ host' = [x EXCEPT !.pr = {}]

Handled(x, e) ==
    CASE e.kind = "command" -> xHCI_handle_TTCC(x, e)
      [] e.kind = "port" -> xHCI_check_ports([x EXCEPT !.resetting = @ \ {e.at}])
      [] e.kind = "transfer" -> xHCI_handle_TTE(x, e)

xHCI_poll_evring(w) ==
    LET e == evring[host.ev.deq]
        y == Handled(Dequeued(host), e)
    IN /\ poller[w] = NONE
       /\ EventWaits
       /\ Careful => ~ScratchInUse
       /\ Resets(y)
       /\ poller' = [poller EXCEPT ![w] =
                        IF e.kind = "transfer" /\ e.ok /\ host.slot[e.slot].state = "SETTING_CONFIG"
                        THEN e.slot ELSE NONE]
       /\ UNCHANGED <<chip, evring, plugs, wild>>

\* The driver of a slot is started without the lock; then the ports are checked.
Started(w) ==
    /\ poller[w] # NONE
    /\ Resets(xHCI_check_ports([host EXCEPT !.started = @ \cup {poller[w]}]))
    /\ poller' = [poller EXCEPT ![w] = NONE]
    /\ UNCHANGED <<chip, evring, plugs, wild>>

-----------------------------------------------------------------------------
(* The controller and the devices.                                          *)

Room == (chip.ev.enq + 1) % EVENTS # host.ev.deq

Post(c, kind, at, slot, ok, dev) ==
    /\ Room
    /\ evring' = [evring EXCEPT ![c.ev.enq] =
            [kind |-> kind, at |-> at, slot |-> slot, ok |-> ok, dev |-> dev, cycle |-> c.ev.pcs]]
    /\ chip' = IF c.ev.enq + 1 = EVENTS THEN [c EXCEPT !.ev = [enq |-> 0, pcs |-> 1 - c.ev.pcs]]
               ELSE [c EXCEPT !.ev.enq = @ + 1]

PostPort(p) == Post(chip, "port", p, 0, TRUE, NONE)

\* The next command.
Executes ==
    LET t == Found(host.cmd, chip.cmd)
        at == Followed(host.cmd, chip.cmd).deq
        c == [chip EXCEPT !.cmd = After(host.cmd, chip.cmd)]
        s == t.arg
        free == {i \in Slots : c.dev[i] = NONE}
        first == CHOOSE i \in free : \A j \in free : i <= j
        p == host.ictx[s]
    IN /\ Given(host.cmd, chip.cmd)
       /\ CASE t.type = "enable" ->
                 IF free = {} THEN Post(c, "command", at, 0, FALSE, NONE)
                 ELSE Post([c EXCEPT !.dev[first] = 0], "command", at, first, TRUE, NONE)
            [] t.type = "address" ->
                 IF port[p].enabled THEN Post([c EXCEPT !.dev[s] = p, !.ep0[s] = [deq |-> 0, ccs |-> 1]], "command", at, s, TRUE, NONE)
                 ELSE Post(c, "command", at, s, FALSE, NONE)
            [] t.type \in {"evaluate", "configure"} -> Post(c, "command", at, s, TRUE, NONE)
            [] t.type = "disable" -> Post([c EXCEPT !.dev[s] = NONE, !.ep0[s] = NONE, !.set[s] = FALSE], "command", at, s, TRUE, NONE)
       /\ wild' = (wild \/ (t.type \in {"evaluate", "configure"} /\ host.scratchpad # s))
       /\ UNCHANGED <<host, port, poller, plugs>>

\* Where the controller is after a whole request.
AfterRequest(ring, at) ==
    IF Found(ring, at).type = "setup" /\ HasData(Found(ring, at).arg) THEN After(ring, After(ring, After(ring, at)))
    ELSE After(ring, After(ring, at))

\* Memory that a request is answered into.
Answers(s, req) ==
    CASE req \in {"device8", "device"} -> host.slot[s].desc
      [] req \in {"header", "full"} -> host.slot[s].conf
      [] OTHER -> TRUE

Alive(s) == chip.dev[s] \in Ports /\ port[chip.dev[s]].enabled

\* A device answers the next request of its control pipe.
DeviceAnswers(s) ==
    LET ring == host.slot[s].ep0
        req == Found(ring, chip.ep0[s]).arg
    IN /\ Alive(s) /\ chip.ep0[s] # NONE /\ Given(ring, chip.ep0[s])
       /\ Post([chip EXCEPT !.ep0[s] = AfterRequest(ring, @), !.set[s] = (@ \/ req = "config")],
               "transfer", 1, s, TRUE, port[chip.dev[s]].dev)
       /\ wild' = (wild \/ ~Answers(s, req))
       /\ UNCHANGED <<host, port, poller, plugs>>

\* Ports that wait for a slot, or for an answer about them.
SeenEmpty(p) == host.mapping[p] = 0 /\ host.pending # p /\ p \notin host.ignored
Settled(p) ==
    \/ port[p].dev = NONE /\ SeenEmpty(p)
    \/ p \in host.ignored
    \/ host.mapping[p] # 0 /\ host.slot[host.mapping[p]].state = "CONFIGURED"
Unsettled == {p \in Ports : ~Settled(p)}

\* The request fails: the pipe halts.  Careful: no other port waits meanwhile,
\* for the ports are not checked when a slot is given up, and the request is not
\* one that follows an early start of the keyboard (see StartedReady).
RequestFails(s) ==
    /\ chip.dev[s] \in Ports /\ chip.ep0[s] # NONE /\ Given(host.slot[s].ep0, chip.ep0[s])
    /\ Careful => Unsettled \subseteq {chip.dev[s]} /\ (host.slot[s].drvr # 0 => ~Early(host.slot[s].drvr))
    /\ Post([chip EXCEPT !.ep0[s] = NONE], "transfer", 1, s, FALSE, NONE)
    /\ UNCHANGED <<host, port, poller, plugs, wild>>

ResetDone(p) ==
    /\ port[p].reset
    /\ port' = [port EXCEPT ![p].reset = FALSE, ![p].enabled = port[p].dev # NONE]
    /\ PostPort(p)
    /\ UNCHANGED <<host, poller, plugs, wild>>

Driven(d) == xHCI_load_new_drvr(d) # 0

\* Careful: into a port that was seen empty, and a device without a driver only
\* while no other port waits.
Plug(p, d) ==
    /\ port[p].dev = NONE /\ ~port[p].reset
    /\ plugs < MAXPLUGS
    /\ Careful => /\ SeenEmpty(p)
                  /\ \A q \in Unsettled : port[q].dev # NONE /\ Driven(port[q].dev) /\ Driven(d)
    /\ plugs' = plugs + 1
    /\ port' = [port EXCEPT ![p] = [dev |-> d, enabled |-> FALSE, reset |-> FALSE]]
    /\ PostPort(p)
    /\ UNCHANGED <<host, poller, wild>>

\* Careful: a device that is in use, or one that no port waits behind, and not
\* while its slot is being enabled: the slot would be mapped to an empty port.
Unplug(p) ==
    /\ port[p].dev # NONE
    /\ Careful => Unsettled \subseteq {p} /\ host.pending # p
    /\ port' = [port EXCEPT ![p] = [dev |-> NONE, enabled |-> FALSE, reset |-> @.reset]]
    /\ PostPort(p)
    /\ UNCHANGED <<host, poller, plugs, wild>>

-----------------------------------------------------------------------------

\* xHCI_initialize: empty rings, and a first scan of the ports.
Fresh ==
    [ignored |-> {}, resetting |-> {}, pr |-> {}, pending |-> 0, mapping |-> [p \in Ports |-> 0],
     slot |-> [s \in Slots |-> Unused], ictx |-> [s \in Slots |-> 0], scratchpad |-> 0,
     cmd |-> Blank(CMD_LIMIT), ev |-> [deq |-> 0, ccs |-> 1], started |-> {}]

Init ==
    /\ \E devs \in [Ports -> Devices \cup {NONE}] :
        /\ Careful => \A p, q \in Ports : p # q /\ devs[p] # NONE /\ devs[q] # NONE => Driven(devs[p])
        /\ port = [p \in Ports |-> [dev |-> devs[p], enabled |-> FALSE, reset |-> devs[p] # NONE]]
        /\ host = [Fresh EXCEPT !.resetting = {p \in Ports : devs[p] # NONE}]
        /\ plugs = Cardinality({p \in Ports : devs[p] # NONE})
    /\ chip = [cmd |-> [deq |-> 0, ccs |-> 1], ev |-> [enq |-> 0, pcs |-> 1],
               dev |-> [s \in Slots |-> NONE], ep0 |-> [s \in Slots |-> NONE], set |-> [s \in Slots |-> FALSE]]
    /\ evring = [i \in 0..(EVENTS - 1) |-> [kind |-> "none", cycle |-> 0]]
    /\ poller = [w \in Pollers |-> NONE]
    /\ wild = FALSE

Next ==
    \/ \E w \in Pollers : xHCI_poll_evring(w) \/ Started(w)
    \/ Executes
    \/ \E s \in Slots : DeviceAnswers(s) \/ RequestFails(s)
    \/ \E p \in Ports : ResetDone(p) \/ Unplug(p) \/ \E d \in Devices : Plug(p, d)

Spec == Init /\ [][Next]_vars

-----------------------------------------------------------------------------

\* Nothing is under way: no command, request, event, reset or call of a driver.
Quiet ==
    /\ ~EventWaits /\ ~Given(host.cmd, chip.cmd)
    /\ \A w \in Pollers : poller[w] = NONE
    /\ \A p \in Ports : ~port[p].reset
    /\ \A s \in Slots : Alive(s) /\ chip.ep0[s] # NONE => ~Given(host.slot[s].ep0, chip.ep0[s])

\* When nothing is under way, every device that is plugged in is in use: its
\* slot is configured, the driver that fits it best is started and the device
\* was given its configuration; or no driver fits it or a request failed, and its
\* port is ignored.
DevicesServed ==
    Quiet => \A p \in Ports : port[p].dev # NONE =>
        \/ p \in host.ignored
        \/ LET s == host.mapping[p]
           IN /\ s # 0 /\ s \in host.started
              /\ host.slot[s].state = "CONFIGURED" /\ chip.set[s]
              /\ host.slot[s].drvr = xHCI_load_new_drvr(port[p].dev) /\ host.slot[s].drvr # 0

\* The controller finds the input context of the slot that its command is for,
\* and devices answer into buffers that are still allocated for the answer.
MemoryMeant == ~wild

\* "start is seperate, as it runs when the device is generally ready": a driver is
\* started after its device was given its configuration.
StartedReady == \A w \in Pollers : poller[w] # NONE => chip.set[poller[w]]
=============================================================================
