--------------------------- MODULE WaitForMessage ---------------------------
(***************************************************************************)
(* Connection::waitForMessage(): the client thread of one end blocks until  *)
(* a message of one kind arrives.  It races with the thread of the          *)
(* connection's work queue, which looks for a waiter under one lock and     *)
(* appends to the queue of incoming messages under another.  Messages not   *)
(* taken this way go through the queue and RunLoop as in Connection.        *)
(***************************************************************************)
EXTENDS Integers, Sequences, SequencesExt

CONSTANTS
    MaxMessages     \* bound: messages that arrive on the connection

ASSUME MaxMessagesAssumption == MaxMessages \in Nat

VARIABLES
    waiter,      \* where the client thread is in waitForMessage()
    entry,       \* the entry of m_waitForMessageMap for the awaited kind
    incoming,    \* m_incomingMessages
    functions,   \* how many dispatchOneMessage are on the run loop's queue
    inHand,      \* the message the work queue's thread is about to enqueue
    arrived,     \* history: messages received so far
    handled,     \* history: messages handled, in order
    dropped      \* history: messages freed without being handled

vars == <<waiter, entry, incoming, functions, inHand, arrived, handled, dropped>>

(* Messages are numbered in the order in which they arrive.                  *)
Message == [awaited : BOOLEAN, serial : Nat \ {0}]
NoMessage == [awaited |-> FALSE, serial |-> 0]
Absent == [awaited |-> TRUE, serial |-> 0]

Init ==
    /\ waiter = "idle"
    /\ entry = Absent
    /\ incoming = <<>>
    /\ functions = 0
    /\ inHand = NoMessage
    /\ arrived = 0
    /\ handled = <<>>
    /\ dropped = {}

Handles(m, waited) == handled' = Append(handled, [msg |-> m, waited |-> waited])

-----------------------------------------------------------------------------
(* The thread of the connection's work queue.                                *)

(* A mutant of Deposit. *)
DepositAndEnqueue ==
    /\ inHand = NoMessage
    /\ arrived < MaxMessages
    /\ entry # Absent
    /\ arrived' = arrived + 1
    /\ entry' = [awaited |-> TRUE, serial |-> arrived + 1]
    /\ dropped' = dropped \cup ({entry.serial} \ {0})
    /\ inHand' = entry'
    /\ UNCHANGED <<waiter, incoming, functions, handled>>

(* processIncomingMessage(): give the message to the waiter, replacing what  *)
(* an earlier one may have left there ...                                    *)
Deposit ==
    /\ inHand = NoMessage
    /\ arrived < MaxMessages
    /\ entry # Absent
    /\ arrived' = arrived + 1
    /\ entry' = [awaited |-> TRUE, serial |-> arrived + 1]
    /\ dropped' = dropped \cup ({entry.serial} \ {0})
    /\ UNCHANGED <<waiter, incoming, functions, inHand, handled>>

(* ... or leave the critical section to enqueue it.                          *)
FindNoWaiter(awaited) ==
    /\ inHand = NoMessage
    /\ arrived < MaxMessages
    /\ awaited => entry = Absent
    /\ arrived' = arrived + 1
    /\ inHand' = [awaited |-> awaited, serial |-> arrived + 1]
    /\ UNCHANGED <<waiter, entry, incoming, functions, handled, dropped>>

(* A mutant of enqueueIncomingMessage. *)
EnqueueCoalesced ==
    /\ inHand # NoMessage
    /\ incoming' = Append(incoming, inHand)
    /\ functions' = IF incoming = <<>> THEN functions + 1 ELSE functions
    /\ inHand' = NoMessage
    /\ UNCHANGED <<waiter, entry, arrived, handled, dropped>>

enqueueIncomingMessage ==
    /\ inHand # NoMessage
    /\ incoming' = Append(incoming, inHand)
    /\ functions' = functions + 1
    /\ inHand' = NoMessage
    /\ UNCHANGED <<waiter, entry, arrived, handled, dropped>>

-----------------------------------------------------------------------------
(* The client thread.                                                        *)

(* A mutant of FindInQueue. *)
SwapOutOfQueue ==
    /\ waiter = "idle"
    /\ \E i \in DOMAIN incoming :
           /\ incoming[i].awaited
           /\ \A j \in 1 .. i - 1 : ~incoming[j].awaited
           /\ incoming' = [Front(incoming) EXCEPT ![i] = Last(incoming)]
           /\ Handles(incoming[i], TRUE)
    /\ UNCHANGED <<waiter, entry, functions, inHand, arrived, dropped>>

(* waitForMessage(): the oldest matching message of the queue, if any ...    *)
FindInQueue ==
    /\ waiter = "idle"
    /\ \E i \in DOMAIN incoming :
           /\ incoming[i].awaited
           /\ \A j \in 1 .. i - 1 : ~incoming[j].awaited
           /\ incoming' = RemoveAt(incoming, i)
           /\ Handles(incoming[i], TRUE)
    /\ UNCHANGED <<waiter, entry, functions, inHand, arrived, dropped>>

NotInQueue ==
    /\ waiter = "idle"
    /\ \A i \in DOMAIN incoming : ~incoming[i].awaited
    /\ waiter' = "insert"
    /\ UNCHANGED <<entry, incoming, functions, inHand, arrived, handled, dropped>>

(* ... else announce the wait ...                                            *)
InsertWait ==
    /\ waiter = "insert"
    /\ entry' = NoMessage
    /\ waiter' = "look"
    /\ UNCHANGED <<incoming, functions, inHand, arrived, handled, dropped>>

(* A mutant of TakeDeposit. *)
TakeAnything ==
    /\ waiter = "look"
    /\ Handles(entry, TRUE)
    /\ entry' = Absent
    /\ waiter' = "idle"
    /\ UNCHANGED <<incoming, functions, inHand, arrived, dropped>>

(* ... and take what was deposited, sleep, or give up.                       *)
TakeDeposit ==
    /\ waiter = "look"
    /\ entry # NoMessage
    /\ Handles(entry, TRUE)
    /\ entry' = Absent
    /\ waiter' = "idle"
    /\ UNCHANGED <<incoming, functions, inHand, arrived, dropped>>

Block ==
    /\ waiter = "look"
    /\ entry = NoMessage
    /\ waiter' = "blocked"
    /\ UNCHANGED <<entry, incoming, functions, inHand, arrived, handled, dropped>>

(* timedWait() returns true after a signal ...                               *)
WakeUp ==
    /\ waiter = "blocked"
    /\ entry # NoMessage
    /\ waiter' = "look"
    /\ UNCHANGED <<entry, incoming, functions, inHand, arrived, handled, dropped>>

(* A mutant of TimeOut. *)
TimeOutLeavingEntry ==
    /\ waiter = "blocked"
    /\ dropped' = dropped \cup ({entry.serial} \ {0})
    /\ entry' = NoMessage
    /\ waiter' = "idle"
    /\ UNCHANGED <<incoming, functions, inHand, arrived, handled>>

(* ... or false: the entry goes, with what was deposited after the time was  *)
(* up and before the thread had the mutex again.                             *)
TimeOut ==
    /\ waiter = "blocked"
    /\ dropped' = dropped \cup ({entry.serial} \ {0})
    /\ entry' = Absent
    /\ waiter' = "idle"
    /\ UNCHANGED <<incoming, functions, inHand, arrived, handled>>

-----------------------------------------------------------------------------
dispatchOneMessage ==
    /\ waiter = "idle"
    /\ functions > 0
    /\ functions' = functions - 1
    /\ \/ incoming = <<>> /\ UNCHANGED <<incoming, handled>>
       \/ /\ incoming # <<>>
          /\ incoming' = Tail(incoming)
          /\ Handles(Head(incoming), FALSE)
    /\ UNCHANGED <<waiter, entry, inHand, arrived, dropped>>

-----------------------------------------------------------------------------
ConnectionQueue ==
    \/ Deposit
    \/ \E awaited \in BOOLEAN : FindNoWaiter(awaited)
    \/ enqueueIncomingMessage

waitForMessage == FindInQueue \/ NotInQueue

Waiting == InsertWait \/ TakeDeposit \/ Block \/ WakeUp \/ TimeOut

Next == ConnectionQueue \/ waitForMessage \/ Waiting \/ dispatchOneMessage

Spec == Init /\ [][Next]_vars

(* A wait goes on until its message or its timeout comes, the run loop runs  *)
(* the functions in its queue and the work queue finishes what it received.  *)
(* Nothing forces the client to wait.  Waits are finite, so the run loop is  *)
(* reached again and again between them, even if the client keeps waiting.   *)
Fairness ==
    /\ WF_vars(Waiting)
    /\ SF_vars(dispatchOneMessage)
    /\ WF_vars(enqueueIncomingMessage)

FairSpec == Spec /\ Fairness

-----------------------------------------------------------------------------
(* Properties.                                                               *)

(* Every variable holds a value of the type its C++ counterpart has.         *)
TypeOK ==
    /\ waiter \in {"idle", "insert", "look", "blocked"}
    /\ entry \in Message \cup {NoMessage, Absent}
    /\ incoming \in Seq(Message)
    /\ functions \in Nat
    /\ inHand \in Message \cup {NoMessage}
    /\ arrived \in 0 .. MaxMessages
    /\ handled \in Seq([msg : Message, waited : BOOLEAN])
    /\ dropped \subseteq Nat

(* waitForMessage() takes messages out of the middle of the queue without    *)
(* their dispatchOneMessage: there is still a function for every message     *)
(* left, so none is stranded.                                                *)
FunctionsCoverQueue == Len(incoming) <= functions

(* A message is handled at most once and never after being freed, although   *)
(* it may be taken from the queue, from the map or by the run loop.          *)
HandledOnce ==
    \A i \in DOMAIN handled :
        /\ handled[i].msg.serial \notin dropped
        /\ \A j \in DOMAIN handled : i # j => handled[i].msg.serial # handled[j].msg.serial

(* Waiting for one kind of message never reorders the others.                *)
OthersInOrder ==
    \A i, j \in DOMAIN handled :
        i < j /\ ~handled[i].msg.awaited /\ ~handled[j].msg.awaited =>
            handled[i].msg.serial < handled[j].msg.serial

(* Every message is handled in the end, or was one the wait was about and    *)
(* freed by it.                                                              *)
ArrivedIsHandled ==
    \A n \in 1 .. MaxMessages : arrived >= n ~>
        n \in dropped \/ \E i \in DOMAIN handled : handled[i].msg.serial = n

(* DrawingAreaProxyImpl: "waitForAndDispatchImmediately will always return   *)
(* the oldest DidUpdateBackingStoreState message that hasn't yet been        *)
(* processed".  Serials order arrivals and every message here is awaited or  *)
(* not, so nothing awaited and older is left behind.  With two messages this *)
(* already fails: the queue is searched before the wait is announced.        *)
OldestFirst ==
    \A i, j \in DOMAIN handled :
        i < j /\ handled[i].waited /\ handled[j].msg.awaited =>
            handled[i].msg.serial < handled[j].msg.serial
=============================================================================
