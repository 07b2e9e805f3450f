------------------------------ MODULE UartFlash ------------------------------
(***************************************************************************)
(* External flash on a neighbour system: the calls of uart_flash.c on the  *)
(* device, the flash server of tools/uart-flash-server on the host, and    *)
(* the serial line between them.  A call sends a header and its data byte  *)
(* by byte and waits for an acknowledgement after each.  Bytes can be      *)
(* lost, the device can give up before an answer arrives, and it can be    *)
(* reset in a call.                                                        *)
(***************************************************************************)
EXTENDS Integers, Sequences

CONSTANTS
  Size,      \* bytes of flash: FIRMWARE_PARTITION_SIZE + SWAP_SIZE
  WordBytes, \* bytes of an address and of a length (4 in the code)
  Data,      \* bytes that are written
  MaxLen,    \* bound on the length of a call
  MaxFaults, \* bound on lost bytes, early timeouts and resets
  MaxBlind   \* bound on calls that send bytes when the line is not ready

ASSUME UartAssumption ==
  /\ Size \in Nat \ {0} /\ WordBytes \in Nat \ {0} /\ MaxLen \in Nat
  /\ Data \subseteq 0 .. 255 /\ MaxFaults \in Nat
  /\ MaxBlind \in Nat

VARIABLES
  dev,      \* where the device is in a call, or "idle"
  call,     \* the call it makes, or made last
  todo,     \* bytes that it has still to send
  got,      \* bytes that it has read
  result,   \* "none" while the call runs, then "ok" or "fail"
  sv,       \* the server's place in serve_update and its locals
  flash,    \* the file that the server maps
  toServer, toDevice,  \* bytes on the line
  faults,   \* history: faults so far
  blind,    \* history: calls so far that sent bytes when the line was not ready
  start     \* history: flash, the line and the faults when the call began

device == <<dev, call, todo, got, result, blind, start>>
server == <<sv, flash>>
vars == <<device, server, toServer, toDevice, faults>>

CMD_HDR_WOLF == 87
CMD_HDR_VER == 86
CMD_APP_VER == 42
CMD_ACK == 6
Code == [write |-> 1, read |-> 2, erase |-> 3]

Erased == 255
Addrs == 0 .. Size - 1

\* the bytes of a word, the lowest first
Word(v) == [i \in 1 .. WordBytes |-> (v \div 256 ^ (i - 1)) % 256]

\* ext_flash_write, ext_flash_read, ext_flash_erase
FlashCalls ==
  {[op |-> "write", addr |-> a, len |-> Len(d), data |-> d] :
     a \in 0 .. Size, d \in UNION {[1 .. n -> Data] : n \in 0 .. MaxLen}}
  \cup {[op |-> o, addr |-> a, len |-> n, data |-> <<>>] :
          o \in {"read", "erase"}, a \in 0 .. Size, n \in 0 .. MaxLen}

\* uart_send_current_version, the version that the test application sends, and
\* ext_flash_lock or ext_flash_unlock
OtherCalls == {[op |-> o, addr |-> 0, len |-> 0, data |-> <<>>]
                 : o \in {"version", "app_version", "lock"}}

\* what a call sends
Sent(c) ==
  IF c.op = "version" THEN <<CMD_HDR_VER>> \o Word(1)
  ELSE IF c.op = "app_version" THEN <<CMD_APP_VER>> \o Word(1)
  ELSE <<CMD_HDR_WOLF, Code[c.op]>> \o Word(c.addr) \o Word(c.len) \o c.data

Idle == [pc |-> "stx", op |-> 0, addr |-> 0, len |-> 0, i |-> 0]

\* the server waits for the last acknowledgement of a read
LastAck == sv.pc = "sent" /\ sv.i + 1 = sv.len

\* the line and the server are ready for a call
Ready == /\ toDevice = <<>>
         /\ \/ sv.pc = "stx" /\ toServer = <<>>
            \/ LastAck /\ toServer = <<CMD_ACK>>
            \/ sv.pc = "app_version" /\ Len(toServer) = WordBytes - sv.i
            \/ sv.pc = "stx" /\ toServer = <<CMD_APP_VER>> \o Word(1)

\* as Ready, but the acknowledgement is lost
NoAck == toDevice = <<>> /\ LastAck /\ toServer = <<>>

Init ==
  /\ dev = "idle" /\ todo = <<>> /\ got = <<>> /\ result = "ok"
  /\ call = [op |-> "lock", addr |-> 0, len |-> 0, data |-> <<>>]
  /\ sv = Idle /\ flash = [a \in Addrs |-> Erased]
  /\ toServer = <<>> /\ toDevice = <<>> /\ faults = 0 /\ blind = 0
  /\ start = [flash |-> flash, ready |-> TRUE, noack |-> FALSE, faults |-> 0]

-----------------------------------------------------------------------------
(* The device *)

Return(r) == dev' = "idle" /\ result' = r /\ todo' = <<>>

Begin(c) ==
  /\ dev = "idle"
  /\ call' = c /\ got' = <<>>
  /\ blind' = IF Ready \/ c.op = "lock" THEN blind ELSE blind + 1
  /\ blind' <= MaxBlind
  /\ start' = [flash |-> flash, ready |-> Ready, noack |-> NoAck,
               faults |-> faults]
  /\ CASE c.op = "lock" ->
            dev' = "last" /\ todo' = <<>> /\ result' = "none"
              /\ UNCHANGED toServer
       [] c.op = "app_version" ->
            Return("ok") /\ toServer = <<>> /\ toServer' = Sent(c)
       [] OTHER ->
            /\ dev' = "ack" /\ result' = "none"
            /\ todo' = Tail(Sent(c))
            /\ toServer' = Append(toServer, Head(Sent(c)))
  /\ UNCHANGED <<server, toDevice, faults>>

\* a write returns without waiting for the last acknowledgement
AfterAck_Early ==
  \/ /\ Len(todo) > 1 \/ (todo # <<>> /\ call.op # "write")
     /\ toServer' = Append(toServer, Head(todo)) /\ todo' = Tail(todo)
     /\ UNCHANGED <<dev, result>>
  \/ /\ Len(todo) = 1 /\ call.op = "write"
     /\ toServer' = Append(toServer, Head(todo)) /\ Return("ok")
  \/ /\ todo = <<>>
     /\ IF call.op = "erase" THEN dev' = "last" /\ UNCHANGED <<todo, result>>
        ELSE IF call.op = "read" /\ call.len > 0
        THEN dev' = "data" /\ UNCHANGED <<todo, result>>
        ELSE Return("ok")
     /\ UNCHANGED toServer

\* send the next byte; after the last one an erase waits for one more
\* acknowledgement, and a read for the data
AfterAck ==
  \/ /\ todo # <<>>
     /\ toServer' = Append(toServer, Head(todo)) /\ todo' = Tail(todo)
     /\ UNCHANGED <<dev, result>>
  \/ /\ todo = <<>>
     /\ IF call.op = "erase" THEN dev' = "last" /\ UNCHANGED <<todo, result>>
        ELSE IF call.op = "read" /\ call.len > 0
        THEN dev' = "data" /\ UNCHANGED <<todo, result>>
        ELSE Return("ok")
     /\ UNCHANGED toServer

\* wait_ack: other bytes are discarded
wait_ack ==
  /\ dev \in {"ack", "last"} /\ toDevice # <<>>
  /\ toDevice' = Tail(toDevice)
  /\ \/ Head(toDevice) # CMD_ACK /\ UNCHANGED <<dev, todo, result, toServer>>
     \/ Head(toDevice) = CMD_ACK /\ dev = "ack" /\ AfterAck
     \/ Head(toDevice) = CMD_ACK /\ dev = "last" /\ Return("ok")
          /\ UNCHANGED toServer
  /\ UNCHANGED <<call, got, blind, start, server, faults>>

\* uart_rx_timeout in ext_flash_read
ReadByte ==
  /\ dev = "data" /\ toDevice # <<>>
  /\ got' = Append(got, Head(toDevice)) /\ toDevice' = Tail(toDevice)
  /\ toServer' = Append(toServer, CMD_ACK)
  /\ IF Len(got') = call.len THEN Return("ok") ELSE UNCHANGED <<dev, todo, result>>
  /\ UNCHANGED <<call, blind, start, server, faults>>

\* a read asks again for a byte that does not arrive, without a limit
Timeout_Retries ==
  /\ dev # "idle" /\ toServer = <<>> /\ toDevice = <<>>
  /\ \/ dev = "data" /\ toServer' = <<CMD_ACK>> /\ UNCHANGED <<dev, todo, result>>
     \/ /\ dev # "data" /\ UNCHANGED toServer
        /\ Return(IF call.op = "lock" THEN "ok" ELSE "fail")
  /\ UNCHANGED <<call, got, blind, start, server, toDevice, faults>>

\* nothing is on the line and the server waits: WAIT_CYCLES pass
Timeout ==
  /\ dev # "idle" /\ toServer = <<>> /\ toDevice = <<>>
  /\ Return(IF call.op = "lock" THEN "ok" ELSE "fail")
  /\ UNCHANGED <<call, got, blind, start, server, toServer, toDevice, faults>>

Fault == faults < MaxFaults /\ faults' = faults + 1

\* the answer arrives after WAIT_CYCLES
EarlyTimeout ==
  /\ dev # "idle" /\ Fault
  /\ Return(IF call.op = "lock" THEN "ok" ELSE "fail")
  /\ UNCHANGED <<call, got, blind, start, server, toServer, toDevice>>

\* the device is reset, and the receiver loses what it holds
Reset ==
  /\ Fault
  /\ Return("fail")
  /\ toDevice' = <<>>
  /\ UNCHANGED <<call, got, blind, start, server, toServer>>

LoseByte ==
  /\ Fault
  /\ \/ toServer # <<>> /\ toServer' = Tail(toServer) /\ UNCHANGED toDevice
     \/ toDevice # <<>> /\ toDevice' = Tail(toDevice) /\ UNCHANGED toServer
  /\ UNCHANGED <<device, server>>

-----------------------------------------------------------------------------
(* The server *)

\* read one byte
Receive == toServer # <<>> /\ toServer' = Tail(toServer)

\* send_ack, and the bytes of a read
Answer(s) == toDevice' = toDevice \o s

\* serve_update: the first byte of a command
ServeStx ==
  /\ sv.pc = "stx" /\ Receive
  /\ CASE Head(toServer) = CMD_HDR_WOLF -> sv' = [Idle EXCEPT !.pc = "op"]
       [] Head(toServer) = CMD_HDR_VER -> sv' = [Idle EXCEPT !.pc = "version"]
       [] Head(toServer) = CMD_APP_VER -> sv' = [Idle EXCEPT !.pc = "app_version"]
       [] OTHER -> sv' = sv
  /\ Answer(IF Head(toServer) \in {CMD_HDR_WOLF, CMD_HDR_VER}
            THEN <<CMD_ACK>> ELSE <<>>)
  /\ UNCHANGED <<flash, device, faults>>

\* serve_update: the command code
ServeOp ==
  /\ sv.pc = "op" /\ Receive
  /\ IF Head(toServer) \in {Code[o] : o \in DOMAIN Code}
     THEN sv' = [sv EXCEPT !.pc = "addr", !.op = Head(toServer)]
            /\ Answer(<<CMD_ACK>>)
     ELSE sv' = Idle /\ Answer(<<>>)
  /\ UNCHANGED <<flash, device, faults>>

\* serve_update: a version, acknowledged or not
ServeVersion ==
  /\ sv.pc \in {"version", "app_version"} /\ Receive
  /\ sv' = IF sv.i + 1 = WordBytes THEN Idle ELSE [sv EXCEPT !.i = @ + 1]
  /\ Answer(IF sv.pc = "version" THEN <<CMD_ACK>> ELSE <<>>)
  /\ UNCHANGED <<flash, device, faults>>

\* read_word: the address
ServeAddr ==
  /\ sv.pc = "addr" /\ Receive
  /\ LET w == sv.addr + Head(toServer) * 256 ^ sv.i
     IN sv' = IF sv.i + 1 = WordBytes
              THEN [sv EXCEPT !.addr = w, !.pc = "len", !.i = 0]
              ELSE [sv EXCEPT !.addr = w, !.i = @ + 1]
  /\ Answer(<<CMD_ACK>>)
  /\ UNCHANGED <<flash, device, faults>>

\* the erase is not acknowledged when it is done
uart_flash_erase_NoAck(s) ==
  /\ flash' = [a \in Addrs |-> IF a \in s.addr .. s.addr + s.len - 1
                               THEN Erased ELSE flash[a]]
  /\ Answer(<<CMD_ACK>>) /\ sv' = Idle

\* uart_flash_erase, uart_flash_read and uart_flash_write once they have read
\* their parameters, whose last byte is acknowledged
uart_flash_erase(s) ==
  /\ flash' = [a \in Addrs |-> IF a \in s.addr .. s.addr + s.len - 1
                               THEN Erased ELSE flash[a]]
  /\ Answer(<<CMD_ACK, CMD_ACK>>) /\ sv' = Idle

uart_flash_read(s) ==
  /\ IF s.len = 0 THEN Answer(<<CMD_ACK>>) /\ sv' = Idle
     ELSE Answer(<<CMD_ACK, flash[s.addr]>>) /\ sv' = [s EXCEPT !.pc = "sent"]
  /\ UNCHANGED flash

uart_flash_write(s) ==
  /\ Answer(<<CMD_ACK>>)
  /\ sv' = IF s.len = 0 THEN Idle ELSE [s EXCEPT !.pc = "data"]
  /\ UNCHANGED flash

\* the last byte of the range is not counted
OutOfRange_OffByOne(s) == s.addr + s.len > Size + 1

OutOfRange(s) == s.addr + s.len > Size

\* read_word: the length; then the command
ServeLen ==
  /\ sv.pc = "len" /\ Receive
  /\ LET w == sv.len + Head(toServer) * 256 ^ sv.i
         s == [sv EXCEPT !.len = w, !.i = 0]
     IN IF sv.i + 1 < WordBytes
        THEN sv' = [sv EXCEPT !.len = w, !.i = @ + 1]
               /\ Answer(<<CMD_ACK>>) /\ UNCHANGED flash
        ELSE \/ OutOfRange(s) /\ sv' = Idle
                  /\ Answer(<<CMD_ACK>>) /\ UNCHANGED flash
             \/ ~OutOfRange(s) /\ s.op = Code.erase /\ uart_flash_erase(s)
             \/ ~OutOfRange(s) /\ s.op = Code.read /\ uart_flash_read(s)
             \/ ~OutOfRange(s) /\ s.op = Code.write /\ uart_flash_write(s)
  /\ UNCHANGED <<device, faults>>

\* the loop of uart_flash_write
ServeData ==
  /\ sv.pc = "data" /\ Receive
  /\ flash' = [flash EXCEPT ![sv.addr + sv.i] = Head(toServer)]
  /\ sv' = IF sv.i + 1 = sv.len THEN Idle ELSE [sv EXCEPT !.i = @ + 1]
  /\ Answer(<<CMD_ACK>>)
  /\ UNCHANGED <<device, faults>>

\* the loop of uart_flash_read: any byte counts as an acknowledgement
ServeAck ==
  /\ sv.pc = "sent" /\ Receive
  /\ IF sv.i + 1 = sv.len THEN sv' = Idle /\ Answer(<<>>)
     ELSE sv' = [sv EXCEPT !.i = @ + 1] /\ Answer(<<flash[sv.addr + sv.i + 1]>>)
  /\ UNCHANGED <<flash, device, faults>>

-----------------------------------------------------------------------------
Device == wait_ack \/ ReadByte \/ Timeout

Server == ServeStx \/ ServeOp \/ ServeVersion \/ ServeAddr \/ ServeLen
            \/ ServeData \/ ServeAck

Next ==
  \/ \E c \in FlashCalls \cup OtherCalls : Begin(c)
  \/ Device \/ Server \/ EarlyTimeout \/ Reset \/ LoseByte

\* both programs run on: the server blocks only in read, and the device counts
\* WAIT_CYCLES while it waits
Spec == Init /\ [][Next]_vars /\ WF_vars(Device) /\ WF_vars(Server)

-----------------------------------------------------------------------------
(* Properties *)

\* The variables have their types, and the server touches only the bytes that
\* it maps, whatever it reads from the line.
TypeOK ==
  /\ dev \in {"idle", "ack", "last", "data"}
  /\ call \in FlashCalls \cup OtherCalls
  /\ todo \in Seq(0 .. 255) /\ got \in Seq(0 .. 255) /\ Len(got) <= call.len
  /\ result \in {"none", "ok", "fail"} /\ (dev = "idle" <=> result # "none")
  /\ flash \in [Addrs -> 0 .. 255]
  /\ toServer \in Seq(0 .. 255) /\ toDevice \in Seq(0 .. 255)
  /\ faults \in 0 .. MaxFaults /\ blind \in 0 .. MaxBlind
  /\ sv.pc \in {"data", "sent"} => sv.i < sv.len /\ sv.addr + sv.len <= Size

InRange(c) == c.addr + c.len <= Size

\* what flash holds after a call
Effect(c, f) ==
  [a \in Addrs |->
     IF ~InRange(c) \/ a < c.addr \/ a >= c.addr + c.len THEN f[a]
     ELSE CASE c.op = "write" -> c.data[a - c.addr + 1]
            [] c.op = "erase" -> Erased
            [] OTHER -> f[a]]

\* A call outside the flash is not noticed by its data when that looks like
\* a command.
LooksLikeCommand(c) ==
  ~InRange(c) /\ c.op = "write"
    /\ c.data[1] \in {CMD_HDR_WOLF, CMD_HDR_VER, CMD_APP_VER}

\* A call that begins when the line is ready, or when only the last
\* acknowledgement of a read is missing, is exact however many bytes are lost
\* in it: if it succeeds the server has done all of it and a read returns what
\* flash holds, a call outside the flash fails, and no call changes a byte
\* outside its range or to another value.
ExactCalls ==
  start.ready \/ start.noack =>
    /\ \A a \in Addrs : flash[a] \in {start.flash[a], Effect(call, start.flash)[a]}
    /\ result = "ok" /\ ~LooksLikeCommand(call) =>
         /\ InRange(call)
         /\ flash = Effect(call, start.flash)
         /\ call.op = "read" =>
              got = [i \in 1 .. call.len |-> flash[call.addr + i - 1]]

\* A call that begins when the line is ready fails only when it is outside the
\* flash or a fault happens while it runs: the server and the device never wait
\* for each other, and no answer is taken for another one.
FailureExplained ==
  start.ready /\ result = "fail" => faults > start.faults \/ ~InRange(call)

\* Every call returns, whatever the server has understood.
CallEnds == dev # "idle" ~> dev = "idle"
=============================================================================
