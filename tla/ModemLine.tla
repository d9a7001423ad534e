----------------------------- MODULE ModemLine ------------------------------
(***************************************************************************)
(* The serial line to the modem (_utils/serial_conn.py, SerialConn), and   *)
(* the handlers of _engines/ec2x_manager.py that read and delete the text  *)
(* messages it has stored.  Handlers are served one at a time, but the     *)
(* port may be closed at any moment, and an answer may come after the      *)
(* reader has given up.                                                    *)
(*                                                                         *)
(* An answer is taken from the line as a whole.  Formats and the time of   *)
(* a message are left out.                                                 *)
(***************************************************************************)
EXTENDS Naturals, Sequences, FiniteSetsExt

CONSTANTS
  Slots,         \* storage indexes of the modem
  MaxMessages,   \* bound: messages that arrive
  MaxTimeouts,   \* bound: answers that are not waited for
  MaxCloses      \* bound: times the port is closed, by a command or a restart

ASSUME ModemAssumption ==
  /\ Slots \subseteq Nat /\ IsFiniteSet(Slots)
  /\ {MaxMessages, MaxTimeouts, MaxCloses} \subseteq Nat

VARIABLES
  stored,    \* the messages in the modem, by index
  arrived,   \* number of messages that have arrived
  asked,     \* commands the modem has not answered
  line,      \* answers in the input buffer
  port,      \* is the port open?
  handler,   \* the handler that is served
  timeouts,  \* number of reads that timed out
  closes,    \* number of times the port was closed
  late,      \* history: may an answer to a command that was given up be on its way?
  told,      \* history: messages whose event was sent, or failed to be sent
  unread     \* history: messages that were deleted and not told of

modemVars == <<stored, arrived, asked, line, port, handler, timeouts, closes, late, told, unread>>

NoMessage == 0
Command(name, slot) == [name |-> name, slot |-> slot]
Answer(name, messages) == [to |-> name, messages |-> messages]
NoHandler == [pc |-> "idle", cmd |-> Command("none", 0), then |-> "idle", todo |-> {}]

ModemInit ==
  /\ stored = [s \in Slots |-> NoMessage]
  /\ arrived = 0
  /\ asked = <<>>
  /\ line = <<>>
  /\ port = FALSE
  /\ handler = NoHandler
  /\ timeouts = 0
  /\ closes = 0
  /\ late = FALSE
  /\ told = {}
  /\ unread = {}
-----------------------------------------------------------------------------
(* The modem: a message goes to the lowest free index, and commands are    *)
(* carried out and answered in their order.                                *)
MessageArrives ==
  LET free == {s \in Slots : stored[s] = NoMessage} IN
  /\ arrived < MaxMessages /\ free # {}
  /\ arrived' = arrived + 1
  /\ stored' = [stored EXCEPT ![Min(free)] = arrived + 1]
  /\ UNCHANGED <<asked, line, port, handler, timeouts, closes, late, told, unread>>

Listed == {<<s, stored[s]>> : s \in {t \in Slots : stored[t] # NoMessage}}

(* What it sends while the port is closed is lost. *)
ModemAnswers ==
  /\ asked # <<>>
  /\ LET c == Head(asked)  a == Answer(c.name, IF c.name = "list" THEN Listed ELSE {}) IN
       /\ line' = IF port THEN Append(line, a) ELSE line
       /\ IF c.name = "delete" /\ stored[c.slot] # NoMessage
            THEN /\ stored' = [stored EXCEPT ![c.slot] = NoMessage]
                 /\ unread' = unread \union ({stored[c.slot]} \ told)
            ELSE UNCHANGED <<stored, unread>>
  /\ asked' = Tail(asked)
  /\ UNCHANGED <<arrived, port, handler, timeouts, closes, late, told>>
-----------------------------------------------------------------------------
(* _exec: write_line and read_until, each of which opens the port again if *)
(* it is closed.                                                           *)
Exec(cmd, then, todo) == handler' = [pc |-> "write", cmd |-> cmd, then |-> then, todo |-> todo]

Using == handler.pc \in {"write", "read", "echo, write", "echo, read"}
Outstanding == asked # <<>> \/ line # <<>>

(* Mutant: the input buffer is not cleared. *)
OpenPortUncleared ==
  /\ Using /\ ~port
  /\ port' = TRUE
  /\ late' = (asked # <<>>)
  /\ asked' = Append(asked, Command("echo", 0))
  /\ handler' = [handler EXCEPT !.pc = CASE @ = "write" -> "echo, write"
                                        [] @ = "read"  -> "echo, read"
                                        [] OTHER       -> @]
  /\ UNCHANGED <<stored, arrived, line, timeouts, closes, told, unread>>

(* open clears the input buffer, and on_open sends ATE1, whose answer is   *)
(* awaited.  If the port is closed before that comes, it is opened once    *)
(* more, and the first wait then times out to no effect.                   *)
OpenPort ==
  /\ Using /\ ~port
  /\ port' = TRUE
  /\ line' = <<>>
  /\ late' = (asked # <<>>)
  /\ asked' = Append(asked, Command("echo", 0))
  /\ handler' = [handler EXCEPT !.pc = CASE @ = "write" -> "echo, write"
                                        [] @ = "read"  -> "echo, read"
                                        [] OTHER       -> @]
  /\ UNCHANGED <<stored, arrived, timeouts, closes, told, unread>>

(* It cannot be opened, or it is closed while it is used: that raises. *)
PortFails ==
  /\ Using /\ ~port
  /\ handler' = NoHandler
  /\ UNCHANGED <<stored, arrived, asked, line, port, timeouts, closes, late, told, unread>>

WriteLine ==
  /\ handler.pc = "write" /\ port
  /\ asked' = Append(asked, handler.cmd)
  /\ handler' = [handler EXCEPT !.pc = "read"]
  /\ UNCHANGED <<stored, arrived, line, port, timeouts, closes, late, told, unread>>

(* What the handlers do with an answer.  Only the one that lists messages  *)
(* looks at it: read_sms_handler parses all of them and then handles one   *)
(* after the other, the lowest index first.                                *)
NextMessage(todo) == IF todo = {} THEN NoHandler ELSE [NoHandler EXCEPT !.pc = "tell", !.todo = todo]

Received(a) ==
  IF handler.pc # "read" THEN [handler EXCEPT !.pc = IF @ = "echo, write" THEN "write" ELSE "read"]
  ELSE CASE handler.then = "list"  -> [NoHandler EXCEPT !.pc = "write", !.cmd = Command("list", 0),
                                                        !.then = "parse"]
         [] handler.then = "parse" -> NextMessage(a.messages)
         [] OTHER                  -> NextMessage(handler.todo)

Awaiting == handler.pc \in {"read", "echo, write", "echo, read"} /\ port
Awaited == IF handler.pc = "read" THEN handler.cmd.name ELSE "echo"

ReadUntil ==
  /\ Awaiting /\ line # <<>>
  /\ handler' = Received(Head(line))
  /\ line' = Tail(line)
  /\ UNCHANGED <<stored, arrived, asked, port, timeouts, closes, late, told, unread>>

(* "Mark timeout occured and next read might be false?"  The error that is *)
(* returned has no data, and the answer stays on its way.                  *)
ReadTimesOut ==
  /\ Awaiting /\ line = <<>>
  /\ timeouts < MaxTimeouts
  /\ timeouts' = timeouts + 1
  /\ late' = TRUE
  /\ handler' = Received(Answer("none", {}))
  /\ UNCHANGED <<stored, arrived, asked, line, port, closes, told, unread>>
-----------------------------------------------------------------------------
(* read_sms_handler, exec_handler and delete_sms_handler. *)
StartReadSms ==
  /\ handler = NoHandler
  /\ Exec(Command("format", 0), "list", {})
  /\ UNCHANGED <<stored, arrived, asked, line, port, timeouts, closes, late, told, unread>>

StartExec ==
  /\ handler = NoHandler
  /\ Exec(Command("other", 0), "idle", {})
  /\ UNCHANGED <<stored, arrived, asked, line, port, timeouts, closes, late, told, unread>>

(* Mutant: it is deleted by its place in the list. *)
TellByPlace ==
  /\ handler.pc = "tell"
  /\ \E m \in handler.todo :
       /\ \A n \in handler.todo : m[1] <= n[1]
       /\ told' = told \union {m[2]}
       /\ Exec(Command("delete", Min(Slots)), "next", handler.todo \ {m})
  /\ UNCHANGED <<stored, arrived, asked, line, port, timeouts, closes, late, unread>>

(* The event, and then the command that deletes the message. *)
TellMessage ==
  /\ handler.pc = "tell"
  /\ \E m \in handler.todo :
       /\ \A n \in handler.todo : m[1] <= n[1]
       /\ told' = told \union {m[2]}
       /\ Exec(Command("delete", m[1]), "next", handler.todo \ {m})
  /\ UNCHANGED <<stored, arrived, asked, line, port, timeouts, closes, late, unread>>

(* connection_handler does not wait for the handler that is served.        *)
ClosePort ==
  /\ port
  /\ closes < MaxCloses
  /\ closes' = closes + 1
  /\ port' = FALSE
  /\ late' = (late \/ Outstanding)
  /\ UNCHANGED <<stored, arrived, asked, line, handler, timeouts, told, unread>>

(* The service is restarted. *)
RestartModemService ==
  /\ closes < MaxCloses
  /\ closes' = closes + 1
  /\ port' = FALSE
  /\ late' = (late \/ Outstanding)
  /\ handler' = NoHandler
  /\ UNCHANGED <<stored, arrived, asked, line, timeouts, told, unread>>

ModemNext ==
  \/ MessageArrives \/ ModemAnswers
  \/ OpenPort \/ PortFails \/ WriteLine \/ ReadUntil \/ ReadTimesOut
  \/ StartReadSms \/ StartExec \/ TellMessage
  \/ ClosePort \/ RestartModemService

ModemSpec == ModemInit /\ [][ModemNext]_modemVars
-----------------------------------------------------------------------------
CommandNames == {"none", "echo", "format", "list", "delete", "other"}
ModemCommands == [name : CommandNames \ {"delete"}, slot : {0}] \union [name : {"delete"}, slot : Slots]
MessageIds == 1..MaxMessages
Answers == [to : CommandNames, messages : SUBSET (Slots \X MessageIds)]

ModemTypeOK ==
  /\ stored \in [Slots -> MessageIds \union {NoMessage}]
  /\ arrived \in 0..MaxMessages
  /\ asked \in Seq(ModemCommands)
  /\ line \in Seq(Answers)
  /\ {port, late} \subseteq BOOLEAN
  /\ handler \in [pc : {"idle", "write", "read", "echo, write", "echo, read", "tell"},
                  cmd : ModemCommands, then : {"idle", "list", "parse", "next"},
                  todo : SUBSET (Slots \X MessageIds)]
  /\ timeouts \in 0..MaxTimeouts /\ closes \in 0..MaxCloses
  /\ {told, unread} \subseteq SUBSET MessageIds

(* As long as no answer was given up since the port was opened, each read  *)
(* returns the answer to the command it waits for, whoever closes the port *)
(* meanwhile (read_until).                                                 *)
AnswerIsForCommand ==
  [][line # <<>> /\ line' = Tail(line) /\ Awaiting /\ ~late => Head(line).to = Awaited]_modemVars

(* "Messages will be deleted from the modem after being processed": no     *)
(* message that was not told of is deleted, though its index may have      *)
(* belonged to one that was: it takes more than two reads that time out or *)
(* ports that are closed (read_sms_handler).                               *)
DeletedWasTold == unread = {} \/ timeouts + closes > 2
=============================================================================
