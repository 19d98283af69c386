----------------------------- MODULE MCDevices ------------------------------
(* The device drivers.  A behaviour is one of a SATA port (Ahci), of sockets *)
(* above the network stack (Inet), of a USB controller (Xhci) or a USB stick *)
(* (UsbStorage), of a network card (Nic), of sound output (Audio), of the    *)
(* clock (Clock), of keyboards and the mouse (Input) or of the translations  *)
(* that CPUs cache (Shootdown); the variables of the others rest.            *)
EXTENDS Shootdown, Sequences, TLC

CONSTANTS KNET, PING

VARIABLES part,
    lock, req, slot, table, ci, tfes, drive, memory, medium, made,
    sock, pcb, raw_taps, network_lock, knet, ping, sockets_made,
    host, port, chip, evring, poller, plugs, wild,
    transfers_lock, usb_req, usb_state, cbw, bounce, ring, pipe_at, phase, event, usb_poller,
    stick, usb_made,
    nic, tx, rx, polled, sent, frames_out, arrived, got, exact,
    client, handle, call, sem, mixer, filled, hw, sound_due, sound_wrong, opens, given,
    date, mode, frozen, user, offset, uptime,
    device, down, lamp, accent, wire, kb, active, due, wrong, usb, mouse

\* Two threads whose buffers and partitions are apart; buffers scattered over
\* two pages in either order, requests of two commands.
Sata == INSTANCE Ahci
    WITH Threads <- {1, 2}, Slots <- {0, 1}, PAGE <- 2, MAX_CHUNK <- 2, MAX_PRDT <- 2, MAX_LEN <- 3,
         Buffers <- <<{<<0, 1>>, <<1, 0>>}, {<<2>>}>>, Offset <- <<0, 3>>, Sectors <- {0, 1, 2},
         Requests <- <<{<<"read", 0, 3, 1>>, <<"write", 0, 3, 1>>},
                       {<<"read", 0, 1, 1>>, <<"write", 0, 1, 1>>, <<"flush", 0, 0, 0>>}>>,
         MAXREQUESTS <- 3

\* A TCP socket and one of another kind; windows and buffers of one byte.
Net == INSTANCE Inet
    WITH Sockets <- {1, 2}, Pcbs <- {11, 12}, Kinds <- <<{"tcp"}, {"udp", "packet"}>>,
         TCP_WND <- 1, HIWAT <- 1, SND_BUF <- 1, Backlogs <- {1}, Segments <- {1}, Lens <- {1},
         MAX_RAW_TAPS <- 1, MAXSENT <- 2, MAXSOCKETS <- 2, Careful <- TRUE, made <- sockets_made

MCUsbDevices ==
    {[cc |-> 3, sc |-> 1, prot |-> 1, full |-> TRUE, mps |-> 8],
     [cc |-> 9, sc |-> 0, prot |-> 0, full |-> FALSE, mps |-> 64]}
MCTemplates ==
    <<[name |-> "keyboard", cc |-> 3, sc |-> 1, prot |-> 1, match |-> {"sc", "prot"}],
      [name |-> "storage", cc |-> 8, sc |-> 0, prot |-> 0, match |-> {}]>>

\* A keyboard, and a hub for which there is no driver; a command ring that wraps.
Usb == INSTANCE Xhci
    WITH Ports <- {1, 2}, Slots <- {1, 2}, Devices <- MCUsbDevices, Templates <- MCTemplates,
         MAX_DRVRS <- 16, CMD_LIMIT <- 5, EP0_LIMIT <- 24, EVENTS <- 3, Pollers <- {1},
         MAXPLUGS <- 2, Careful <- TRUE

\* Two threads on two partitions, and the worker; rings of two transfers.
Stick == INSTANCE UsbStorage
    WITH Threads <- {1, 2}, Worker <- 3, LIMIT <- 3, MAX_CHUNK <- 1, Offset <- <<0, 1>>,
         Requests <- {<<"read", 0, 2>>, <<"write", 0, 2>>, <<"read", 1, 1>>, <<"write", 0, 1>>,
                      <<"size", 0, 1>>},
         Sectors <- {0, 1, 2}, MAXREQUESTS <- 3, req <- usb_req, state <- usb_state,
         chip <- pipe_at, poller <- usb_poller, medium <- stick, made <- usb_made

Card == INSTANCE Nic
    WITH N <- 4, BUDGET <- 2, RXLEN <- 8, Sizes <- {2, 3}, MAXFRAMES <- 6, Careful <- TRUE,
         wire <- frames_out

\* Two slots whose rings hold one write, and two threads that may share a file.
Sound == INSTANCE Audio
    WITH Threads <- {"a1", "a2"}, Clients <- {1, 2}, CAP <- 2, CHUNK <- 2, TEMP <- 4, SLOTS <- 3,
         DEPTH <- 1, UNIT <- 4, Speeds <- {5}, Lens <- {2}, MAXFRAMES <- 4, MAXOPENS <- 2,
         Careful <- TRUE, due <- sound_due, wrong <- sound_wrong

\* One file with a longer ring, so that the phase keeps its fraction from buffer
\* to buffer.
Stream == INSTANCE Audio
    WITH Threads <- {"a1", "a2"}, Clients <- {1, 2}, CAP <- 3, CHUNK <- 2, TEMP <- 4, SLOTS <- 3,
         DEPTH <- 2, UNIT <- 4, Speeds <- {5}, Lens <- {2}, MAXFRAMES <- 4, MAXOPENS <- 1,
         Careful <- TRUE, due <- sound_due, wrong <- sound_wrong

\* The last second of the days at which months and years end, in leap years and
\* others; the times are ends of leap days, the first and the last.
MCStarts ==
    {s \in {<<59, 59, 23, d, m, y>> : d \in {28, 29, 30, 31}, m \in {1, 2, 6, 12}, y \in {2000, 2023, 2024}} :
        s[4] <= <<31, IF s[6] % 4 = 0 THEN 29 ELSE 28, 31, 30, 31, 30, 31, 31, 30, 31, 30, 31>>[s[5]]}
    \cup {<<58, 59, 11, 1, 2, 2005>>}

Chip == INSTANCE Clock
    WITH Starts <- MCStarts, Targets <- {951782399, 1709251199, 0, 2082758399}, MAXUP <- 3,
         Careful <- TRUE

Key(c, e) == [code |-> c, ext |-> e]
Byte(y, n) == [sync |-> y, n |-> n]
MCKeys == {Key("1D", FALSE), Key("1D", TRUE), Key("2E", FALSE), Key("48", TRUE), Key("3B", FALSE),
           Key("1A", FALSE)}
MCUsbKeys == {Key("E1", FALSE), Key("04", FALSE), Key("05", FALSE)}
MCRoles == [c \in {"1D", "2E", "48", "3B", "1A", "E1", "04", "05", "01"} |->
               CASE c = "1D" -> "ctrl" [] c = "2E" -> "c" [] c = "48" -> "arrow" [] c = "3B" -> "f"
                 [] c = "1A" -> "dead" [] c = "E1" -> "shift" [] OTHER -> "text"]

\* Both control keys, C, a cursor key, a function key and a dead key; three keys
\* of a USB keyboard; packets of the mouse in which other bytes look like the
\* first.
Keyboard == INSTANCE Input
    WITH Keys <- MCKeys, UsbKeys <- MCUsbKeys,
         Role <- [k \in MCKeys \cup MCUsbKeys \cup {Key("01", FALSE)} |-> MCRoles[k.code]],
         Target <- [k \in MCKeys |-> 1], ROLLOVER <- 2, PHANTOM <- Key("01", FALSE),
         Moves <- {<<Byte(TRUE, 1), Byte(FALSE, 2), Byte(TRUE, 2), Byte(FALSE, 0)>>,
                   <<Byte(TRUE, 2), Byte(TRUE, 2), Byte(TRUE, 2), Byte(TRUE, 1)>>},
         WIRE <- 2, Careful <- TRUE

\* A range that is flushed as a whole, a page that is protected and one that is
\* copied; two spaces, so that exec has a new one.
MCPageOps == {<<"unmap", 1, 2>>, <<"protect", 1, 1>>, <<"cow", 2, 1>>}

ahci_vars == <<lock, req, slot, table, ci, tfes, drive, memory, medium, made>>
inet_vars == <<sock, pcb, raw_taps, network_lock, knet, ping, sockets_made>>
xhci_vars == <<host, port, chip, evring, poller, plugs, wild>>
storage_vars == <<transfers_lock, usb_req, usb_state, cbw, bounce, ring, pipe_at, phase,
                  event, usb_poller, stick, usb_made>>
nic_vars == <<nic, tx, rx, polled, sent, frames_out, arrived, got, exact>>
audio_vars == <<client, handle, call, sem, mixer, filled, hw, sound_due, sound_wrong,
                opens, given>>
clock_vars == <<date, mode, frozen, user, offset, uptime>>
input_vars == <<device, down, lamp, accent, wire, kb, active, due, wrong, usb, mouse>>

ahci_rests ==
    /\ lock = NONE /\ req = NONE /\ slot = NONE /\ table = NONE /\ ci = NONE
    /\ tfes = NONE /\ drive = NONE /\ memory = NONE /\ medium = NONE /\ made = NONE
inet_rests ==
    /\ sock = NONE /\ pcb = NONE /\ raw_taps = NONE /\ network_lock = NONE
    /\ knet = NONE /\ ping = NONE /\ sockets_made = NONE
xhci_rests ==
    /\ host = NONE /\ port = NONE /\ chip = NONE /\ evring = NONE /\ poller = NONE
    /\ plugs = NONE /\ wild = NONE
storage_rests ==
    /\ transfers_lock = NONE /\ usb_req = NONE /\ usb_state = NONE /\ cbw = NONE
    /\ bounce = NONE /\ ring = NONE /\ pipe_at = NONE /\ phase = NONE /\ event = NONE
    /\ usb_poller = NONE /\ stick = NONE /\ usb_made = NONE
nic_rests ==
    /\ nic = NONE /\ tx = NONE /\ rx = NONE /\ polled = NONE /\ sent = NONE
    /\ frames_out = NONE /\ arrived = NONE /\ got = NONE /\ exact = NONE
audio_rests ==
    /\ client = NONE /\ handle = NONE /\ call = NONE /\ sem = NONE /\ mixer = NONE
    /\ filled = NONE /\ hw = NONE /\ sound_due = NONE /\ sound_wrong = NONE
    /\ opens = NONE /\ given = NONE
clock_rests ==
    /\ date = NONE /\ mode = NONE /\ frozen = NONE /\ user = NONE /\ offset = NONE
    /\ uptime = NONE
input_rests ==
    /\ device = NONE /\ down = NONE /\ lamp = NONE /\ accent = NONE /\ wire = NONE
    /\ kb = NONE /\ active = NONE /\ due = NONE /\ wrong = NONE /\ usb = NONE
    /\ mouse = NONE

\* The variables of Shootdown, when it is not what runs, are as they are at the start.
MCInit ==
    /\ Init
    /\ \/ /\ part = "ahci" /\ Sata!Init
          /\ inet_rests /\ xhci_rests /\ storage_rests /\ nic_rests /\ audio_rests
          /\ clock_rests /\ input_rests
       \/ /\ part = "inet" /\ Net!Init
          /\ ahci_rests /\ xhci_rests /\ storage_rests /\ nic_rests /\ audio_rests
          /\ clock_rests /\ input_rests
       \/ /\ part = "xhci" /\ Usb!Init
          /\ ahci_rests /\ inet_rests /\ storage_rests /\ nic_rests /\ audio_rests
          /\ clock_rests /\ input_rests
       \/ /\ part = "storage" /\ Stick!Init
          /\ ahci_rests /\ inet_rests /\ xhci_rests /\ nic_rests /\ audio_rests
          /\ clock_rests /\ input_rests
       \/ /\ part = "nic" /\ Card!Init
          /\ ahci_rests /\ inet_rests /\ xhci_rests /\ storage_rests /\ audio_rests
          /\ clock_rests /\ input_rests
       \/ /\ \/ part = "audio" /\ Sound!Init
             \/ part = "stream" /\ Stream!Init
          /\ ahci_rests /\ inet_rests /\ xhci_rests /\ storage_rests /\ nic_rests
          /\ clock_rests /\ input_rests
       \/ /\ part = "clock" /\ Chip!Init
          /\ ahci_rests /\ inet_rests /\ xhci_rests /\ storage_rests /\ nic_rests
          /\ audio_rests /\ input_rests
       \/ /\ part = "input" /\ Keyboard!Init
          /\ ahci_rests /\ inet_rests /\ xhci_rests /\ storage_rests /\ nic_rests
          /\ audio_rests /\ clock_rests
       \/ /\ part = "tlb"
          /\ ahci_rests /\ inet_rests /\ xhci_rests /\ storage_rests /\ nic_rests
          /\ audio_rests /\ clock_rests /\ input_rests

MCNext ==
    /\ UNCHANGED part
    /\ \/ /\ part = "ahci" /\ Sata!Next
          /\ UNCHANGED <<inet_vars, xhci_vars, storage_vars, nic_vars, audio_vars,
                       clock_vars, input_vars, vars>>
       \/ /\ part = "inet" /\ Net!Next
          /\ UNCHANGED <<ahci_vars, xhci_vars, storage_vars, nic_vars, audio_vars,
                       clock_vars, input_vars, vars>>
       \/ /\ part = "xhci" /\ Usb!Next
          /\ UNCHANGED <<ahci_vars, inet_vars, storage_vars, nic_vars, audio_vars,
                       clock_vars, input_vars, vars>>
       \/ /\ part = "storage" /\ Stick!Next
          /\ UNCHANGED <<ahci_vars, inet_vars, xhci_vars, nic_vars, audio_vars, clock_vars,
                       input_vars, vars>>
       \/ /\ part = "nic" /\ Card!Next
          /\ UNCHANGED <<ahci_vars, inet_vars, xhci_vars, storage_vars, audio_vars,
                       clock_vars, input_vars, vars>>
       \/ /\ \/ part = "audio" /\ Sound!Next
             \/ part = "stream" /\ Stream!Next
          /\ UNCHANGED <<ahci_vars, inet_vars, xhci_vars, storage_vars, nic_vars,
                       clock_vars, input_vars, vars>>
       \/ /\ part = "clock" /\ Chip!Next
          /\ UNCHANGED <<ahci_vars, inet_vars, xhci_vars, storage_vars, nic_vars,
                       audio_vars, input_vars, vars>>
       \/ /\ part = "input" /\ Keyboard!Next
          /\ UNCHANGED <<ahci_vars, inet_vars, xhci_vars, storage_vars, nic_vars,
                       audio_vars, clock_vars, vars>>
       \/ /\ part = "tlb" /\ Next
          /\ UNCHANGED <<ahci_vars, inet_vars, xhci_vars, storage_vars, nic_vars,
                       audio_vars, clock_vars, input_vars>>

mc_vars == <<part, ahci_vars, inet_vars, xhci_vars, storage_vars, nic_vars, audio_vars,
             clock_vars, input_vars, vars>>

MCSpec == MCInit /\ [][MCNext]_mc_vars

\* The sockets alone.
InetSpec == part = "inet" /\ MCSpec

----------------------------------------------------------------------------
\* Ahci and UsbStorage: a request that succeeds has moved exactly its sectors, and
\* a drive touches memory and sectors only for a thread that still waits.
DiskRequests ==
    /\ [](part = "ahci" => Sata!RequestsExact)
    /\ [][part = "ahci" => Sata!WaitedFor]_mc_vars
    /\ [][part = "storage" => Stick!ChunkMoved]_mc_vars

\* Inet: sockets and the control blocks of the stack name each other until both
\* are gone, nobody waits for a lock in a circle, and what is read from a
\* connection is what the peer sent, in order.
SocketsSafe == part = "inet" => Net!SocketsSafe /\ Net!BytesInOrder

\* Xhci and UsbStorage: when nothing is under way every device that is plugged in
\* is in use or ignored, the controller uses the memory that was meant for it,
\* and no request to a stick is left waiting for ever.
UsbServed ==
    /\ part = "xhci" => Usb!DevicesServed /\ Usb!MemoryMeant
    /\ part = "storage" => Stick!ChunkAlive

\* Nic: frames leave and arrive in order and unharmed.
FramesExact == part = "nic" => Card!FramesExact

\* Audio: every stream is played in order and without gaps, and neither the mixer
\* nor a thread that writes or waits for the end sleeps on for ever.
SoundServed ==
    /\ part = "audio" => Sound!SoundServed
    /\ part = "stream" => Stream!SoundServed

\* Clock: dates and times agree with the calendar, and the time programs are given
\* is that of the chip.
ClockRight == part = "clock" => Chip!ClockRight

\* Input: every key and every movement of the mouse arrives once, in order, with
\* what it meant when it was made.
InputExact == part = "input" => Keyboard!InputExact

\* Inet: a reader that is told of the end of the stream has read all of it.
ReadsWhole == part = "inet" => Net!ReadsWhole
=============================================================================
