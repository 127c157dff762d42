---------------------------- MODULE InquiryThread ----------------------------
(***************************************************************************)
(* inquiry-svc: the thread of one buyer, seller and SKU.  A call first       *)
(* reads the thread, then writes: CreateInquiry in one READ COMMITTED        *)
(* transaction, the others in two.                                           *)
(***************************************************************************)
EXTENDS Naturals, Sequences

CONSTANTS
  Calls,     \* calls in progress
  MaxCalls,  \* bound: operations started
  MaxFaults  \* bound: calls that fail

VARIABLES
  thread,   \* "none", "open" or "closed"
  messages, \* with the status their call had read and the status they met
  pc,       \* call -> "idle" or "write"
  call,     \* call -> its arguments and the status it read
  started, faults

vars == <<thread, messages, pc, call, started, faults>>

Parties == {"buyer", "seller"}
NoCall == [op |-> "none", by |-> "buyer", saw |-> "none"]

TypeOK ==
  /\ thread \in {"none", "open", "closed"}
  /\ \A m \in {messages[k] : k \in DOMAIN messages} : m.by \in Parties /\ m.read \in BOOLEAN
  /\ pc \in [Calls -> {"idle", "write"}]
  /\ \A c \in Calls : call[c].op \in {"none", "create", "post", "close", "read"}
  /\ started \in 0..MaxCalls /\ faults \in 0..MaxFaults

Init ==
  /\ thread = "none" /\ messages = << >>
  /\ pc = [c \in Calls |-> "idle"] /\ call = [c \in Calls |-> NoCall]
  /\ started = 0 /\ faults = 0

-----------------------------------------------------------------------------
Load(c, op, by) ==
  /\ pc[c] = "idle" /\ started < MaxCalls
  /\ started' = started + 1
  /\ pc' = [pc EXCEPT ![c] = "write"]
  /\ call' = [call EXCEPT ![c] = [op |-> op, by |-> by, saw |-> thread]]
  /\ UNCHANGED <<thread, messages, faults>>

\* Mutant of Postable: the status is not looked at.
PostableAnytime == thread # "none"

\* ErrInquiryNotFound, ErrInquiryClosed.
Postable == thread = "open"

\* A purchase was checked; the thread may be there, open or closed, or not.
CreateInquiry(c) == Load(c, "create", "buyer")
PostMessage(c)   == Postable /\ \E by \in Parties : Load(c, "post", by)
CloseInquiry(c)  == thread # "none" /\ Load(c, "close", "seller")
MarkRead(c)      == thread # "none" /\ \E by \in Parties : Load(c, "read", by)

Return(c) == pc' = [pc EXCEPT ![c] = "idle"] /\ call' = [call EXCEPT ![c] = NoCall]

\* appendMessageTx leaves the status alone.
Message(c) == [by |-> call[c].by, op |-> call[c].op, saw |-> call[c].saw, met |-> thread, read |-> FALSE]
AppendMessage(c) == messages' = Append(messages, Message(c))

\* The row that a creation did not find was inserted meanwhile: the INSERT violates
\* uq_inquiry_per_sku, which aborts the transaction and with it the load that was
\* to find the other's row.
LostRace(c) == call[c].saw = "none" /\ thread # "none"
WriteCreation(c) ==
  /\ pc[c] = "write" /\ call[c].op = "create"
  /\ IF LostRace(c)
     THEN UNCHANGED <<thread, messages>>
     ELSE AppendMessage(c) /\ thread' = (IF thread = "none" THEN "open" ELSE thread)
  /\ Return(c)
  /\ UNCHANGED <<started, faults>>

WritePost(c) ==
  /\ pc[c] = "write" /\ call[c].op = "post"
  /\ AppendMessage(c)
  /\ Return(c)
  /\ UNCHANGED <<thread, started, faults>>

Close(c) ==
  /\ pc[c] = "write" /\ call[c].op = "close"
  /\ thread' = "closed"
  /\ Return(c)
  /\ UNCHANGED <<messages, started, faults>>

\* Every message of the other side, also one that came after the read.
StampRead(c) ==
  /\ pc[c] = "write" /\ call[c].op = "read"
  /\ messages' = [k \in DOMAIN messages |->
       IF messages[k].by # call[c].by THEN [messages[k] EXCEPT !.read = TRUE] ELSE messages[k]]
  /\ Return(c)
  /\ UNCHANGED <<thread, started, faults>>

\* The statement fails or the replica dies.
Fail(c) ==
  /\ pc[c] = "write" /\ faults < MaxFaults
  /\ faults' = faults + 1
  /\ Return(c)
  /\ UNCHANGED <<thread, messages, started>>

Next == \E c \in Calls :
  \/ CreateInquiry(c) \/ PostMessage(c) \/ CloseInquiry(c) \/ MarkRead(c)
  \/ WriteCreation(c) \/ WritePost(c) \/ Close(c) \/ StampRead(c) \/ Fail(c)

Spec == Init /\ [][Next]_vars

-----------------------------------------------------------------------------
\* "Cannot post to a closed inquiry" (errors.go:15-16), as far as the code keeps it:
\* a closed thread only gains what a call sends that read it while it was open, or
\* what the buyer sends through CreateInquiry; and no race of creations leaves a
\* thread without its first message.
ClosedThreadIsQuiet ==
  /\ (thread = "none") <=> (messages = << >>)
  /\ \A k \in DOMAIN messages :
       messages[k].met = "closed" => messages[k].saw = "open" \/ messages[k].op = "create"
=============================================================================
