------------------------------- MODULE Input --------------------------------
(***************************************************************************)
(* Keyboards and the mouse: the PS/2 interrupts (dev/ps2.c) with the state *)
(* that turns scancodes into keys (input/keyboard.c), and the reports of a *)
(* USB keyboard (dev/usbkb.c).  The user holds keys down; what reaches the *)
(* terminals is compared with what they meant.                             *)
(*                                                                         *)
(* A key is [code, ext]: two keys may share a code, and then one of them   *)
(* sends it behind the prefix E0.                                          *)
(***************************************************************************)
EXTENDS Integers, Sequences, FiniteSets

CONSTANTS
    Keys,        \* keys of the PS/2 keyboard
    Role,        \* of a key: "shift", "ctrl", "alt", "altgr", "caps", "arrow", "f", "c",
                 \* "dead" or "text"
    Target,      \* the terminal to which an F key switches
    UsbKeys,     \* keys of the USB keyboard, none of them with the role "f"
    ROLLOVER,    \* keycodes in a USB report (6)
    PHANTOM,     \* the keycode a report is full of when more keys are down
    Moves,       \* packets of the mouse: sequences of bytes, [sync, n] each
    WIRE,        \* bound: bytes of a device that wait
    Careful,     \* TRUE: no byte of the mouse is lost, it has a wheel, and no more keys
                 \* than a report holds are down
    NONE

VARIABLES
    device,      \* the device in use; they share nothing but the terminal
    down,        \* the keys held on the PS/2 keyboard
    lamp,        \* caps lock as the user knows it
    accent,      \* the dead key the user has pressed last, if nothing followed it
    wire,        \* bytes the keyboard has sent
    kb,          \* g_kb
    active,      \* the terminal in front, and whether it shows text
    due,         \* what the user meant and no terminal has got yet
    wrong,       \* something else reached a terminal
    usb,         \* the USB keyboard: keys down, last_report, keys pressed since then
    mouse        \* bytes on the wire, mouse_cycle, mouse_byte; packets not yet delivered

vars == <<device, down, lamp, accent, wire, kb, active, due, wrong, usb, mouse>>

E0 == [code |-> "E0", rel |-> FALSE]
Bytes(k, rel) == (IF k.ext THEN <<E0>> ELSE <<>>) \o <<[code |-> k.code, rel |-> rel]>>

Init ==
    /\ device \in {"ps2", "usb", "mouse"}
    /\ down = {} /\ lamp = FALSE /\ accent = NONE
    /\ wire = <<>>
    /\ kb = [e0 |-> FALSE, held |-> {}, caps |-> FALSE, dead |-> NONE]
    /\ active = [tty |-> 0, meant |-> 0, text |-> TRUE]
    /\ due = <<>> /\ wrong = FALSE
    /\ usb = [down |-> {}, last |-> {}, fresh |-> {}]
    /\ mouse = [wire |-> <<>>, cycle |-> 0, byte |-> <<>>, due |-> <<>>]

\* Mutant: each modifier is one flag, whichever of its two keys changes.
OneFlagEach(held, k, rel) ==
    IF rel THEN {x \in held : Role[x] # Role[k]} ELSE held \cup {k}

\* The modifier keys that are held once a key is pressed or released.
Modifier(k) == Role[k] \in {"shift", "ctrl", "alt", "altgr"}
update_mod_state(held, k, rel) ==
    IF ~Modifier(k) THEN held
    ELSE IF rel THEN held \ {k} ELSE held \cup {k}

keyboard_get_modifiers(held, caps) ==
    {Role[k] : k \in held} \cup (IF caps THEN {"caps"} ELSE {})

\* What a key does, pressed with these modifiers and behind this dead key.
Outcome(k, mods, dead) ==
    CASE Role[k] = "f" -> IF {"ctrl", "alt"} \subseteq mods THEN <<"switch", k, {}, NONE>> ELSE <<"none", k, {}, NONE>>
      [] Role[k] = "arrow" -> <<"escape", k, {}, NONE>>
      [] Role[k] \in {"text", "c"} ->
            IF "ctrl" \in mods /\ "alt" \notin mods
            THEN <<IF Role[k] = "c" THEN "interrupt" ELSE "control", k, {}, dead>>
            ELSE <<IF "alt" \in mods THEN "meta" ELSE "char", k, mods \cap {"shift", "caps", "altgr"}, dead>>
      [] OTHER -> <<"none", k, {}, NONE>>

After(k, dead) ==
    CASE Role[k] = "dead" -> k
      [] Role[k] \in {"text", "c"} -> NONE
      [] OTHER -> dead

\* The user presses or releases a key.
Press(k) ==
    LET mods == keyboard_get_modifiers({x \in down : Modifier(x)}, lamp)
        o == Outcome(k, mods, accent)
    IN /\ k \notin down /\ Len(wire) < WIRE
       /\ down' = down \cup {k}
       /\ lamp' = (lamp # (Role[k] = "caps"))
       /\ accent' = After(k, accent)
       /\ wire' = wire \o Bytes(k, FALSE)
       /\ due' = Append(due, <<active.meant, o>>)
       /\ active' = [active EXCEPT !.meant = IF o[1] = "switch" THEN Target[k] ELSE @]
       /\ UNCHANGED <<kb, wrong, usb, mouse>>

Release(k) ==
    /\ k \in down /\ Len(wire) < WIRE
    /\ down' = down \ {k}
    /\ wire' = wire \o Bytes(k, TRUE)
    /\ UNCHANGED <<lamp, accent, kb, active, due, wrong, usb, mouse>>

\* Mutant: the prefix is kept when the key that follows it has been found.
PrefixKept(b) == kb.e0

PrefixAfter(b) == b = E0

KeyOf(b) == CHOOSE k \in Keys : k.code = b.code /\ k.ext = kb.e0

\* Something other than what the user meant next reaches a terminal.
Differs(o) == (active.text \/ o[2][1] = "switch") /\ (due = <<>> \/ o # Head(due))

\* A byte of the keyboard.  In graphics mode the character is left to /dev/keyboard.
keyboard_handler ==
    LET b == Head(wire)
        known == b # E0 /\ \E k \in Keys : k.code = b.code /\ k.ext = kb.e0
        k == KeyOf(b)
        held == update_mod_state(kb.held, k, b.rel)
        caps == kb.caps # (Role[k] = "caps" /\ ~b.rel)
        o == Outcome(k, keyboard_get_modifiers(held, caps), kb.dead)
    IN /\ wire # <<>>
       /\ wire' = Tail(wire)
       /\ IF ~known
          THEN /\ kb' = [kb EXCEPT !.e0 = PrefixAfter(b)]
               /\ UNCHANGED <<active, due, wrong>>
          ELSE /\ kb' = [e0 |-> PrefixAfter(b), held |-> held, caps |-> caps,
                         dead |-> IF b.rel THEN kb.dead ELSE After(k, kb.dead)]
               /\ active' = [active EXCEPT !.tty = IF ~b.rel /\ o[1] = "switch" THEN Target[k] ELSE @]
               /\ due' = IF b.rel \/ due = <<>> THEN due ELSE Tail(due)
               /\ wrong' = (wrong \/ (~b.rel /\ Differs(<<active.tty, o>>)))
       /\ UNCHANGED <<down, lamp, accent, usb, mouse>>

\* A program changes the mode of its terminal with an ioctl.
KdSetMode ==
    /\ active' = [active EXCEPT !.text = ~@]
    /\ UNCHANGED <<down, lamp, accent, wire, kb, due, wrong, usb, mouse>>

UsbPress(k) ==
    /\ k \notin usb.down
    /\ Careful => Modifier(k) \/ Cardinality({x \in usb.down : ~Modifier(x)}) < ROLLOVER
    /\ usb' = [usb EXCEPT !.down = @ \cup {k}, !.fresh = @ \cup ({k} \ {x \in UsbKeys : Modifier(x)})]
    /\ UNCHANGED <<down, lamp, accent, wire, kb, active, due, wrong, mouse>>

UsbRelease(k) ==
    /\ k \in usb.down
    /\ usb' = [usb EXCEPT !.down = @ \ {k}]
    /\ UNCHANGED <<down, lamp, accent, wire, kb, active, due, wrong, mouse>>

\* Mutant: all keys of a report are taken to be new.
AllNew(codes) == codes

NewIn(codes) == codes \ usb.last

\* A report: the modifiers, and the keys; those that the last report did not have are
\* new and do what they mean with the modifiers of the report.
kbusb_process_report ==
    LET keys == {k \in usb.down : ~Modifier(k)}
        codes == IF Cardinality(keys) > ROLLOVER THEN {PHANTOM} ELSE keys
    IN /\ codes # usb.last
       /\ usb' = [usb EXCEPT !.last = codes, !.fresh = {}]
       /\ wrong' = (wrong \/ (active.text /\ ~(NewIn(codes) \subseteq usb.fresh)))
       /\ UNCHANGED <<down, lamp, accent, wire, kb, active, due, mouse>>

MouseMoves(p) ==
    /\ Len(mouse.wire) < WIRE
    /\ mouse' = [mouse EXCEPT !.due = Append(@, p), !.wire = @ \o p]
    /\ UNCHANGED <<down, lamp, accent, wire, kb, active, due, wrong, usb>>

InSync(b) == b.sync

mouse_handler(lost) ==
    LET b == Head(mouse.wire)
    IN /\ mouse.wire # <<>>
       /\ Careful => ~lost
       /\ mouse' =
             IF lost \/ (mouse.cycle = 0 /\ ~InSync(b)) THEN [mouse EXCEPT !.wire = Tail(@)]
             ELSE IF mouse.cycle < 3
             THEN [mouse EXCEPT !.wire = Tail(@), !.cycle = @ + 1, !.byte = Append(@, b)]
             ELSE [mouse EXCEPT !.wire = Tail(@), !.cycle = 0, !.byte = <<>>,
                                !.due = IF @ = <<>> THEN @ ELSE Tail(@)]
       /\ wrong' = (wrong \/ (~lost /\ mouse.cycle = 3 /\
                                (mouse.due = <<>> \/ Append(mouse.byte, b) # Head(mouse.due))))
       /\ UNCHANGED <<down, lamp, accent, wire, kb, active, due, usb>>

Next ==
    /\ UNCHANGED device
    /\ \/ device = "ps2" /\ ((\E k \in Keys : Press(k) \/ Release(k)) \/ keyboard_handler)
       \/ device = "usb" /\ ((\E k \in UsbKeys : UsbPress(k) \/ UsbRelease(k)) \/ kbusb_process_report)
       \/ device = "mouse" /\ ((\E p \in Moves : MouseMoves(p)) \/ \E lost \in BOOLEAN : mouse_handler(lost))
       \/ KdSetMode

Spec == Init /\ [][Next]_vars

-----------------------------------------------------------------------------

\* Every key does on the terminal in front what it means with the modifiers, the
\* locks and the dead key that the user had set when pressing it, however far the
\* interrupts are behind and whichever of two like keys was used; no key of a USB
\* keyboard is taken twice for one press; and the packets of the mouse are
\* delivered as they were sent.
InputExact ==
    /\ ~wrong
    /\ wire = <<>> => due = <<>>
    /\ mouse.wire = <<>> => mouse.due = <<>>
=============================================================================
