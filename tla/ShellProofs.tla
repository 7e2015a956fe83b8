---------------------------- MODULE ShellProofs -----------------------------
(***************************************************************************)
(* The shell's safety for any number of threads, commands and parts: one   *)
(* inductive invariant, and that every step of the shell is a step of      *)
(* SingleFlight or none.                                                   *)
(***************************************************************************)
EXTENDS Shell, TLAPS

(* The mark is set while a long operation is between begin_long and drop,  *)
(* and there is one.                                                       *)
OneLong ==
    \A c \in Caller : pc[c] \in InLong =>
        busy = "yes" /\ \A d \in Caller : pc[d] \in InLong => d = c

(* The mutex.                                                              *)
GuardHeld == \A c \in Caller : pc[c] \in Holding <=> guard = c

(* What is connected is open, and so is what midi_connect is about to      *)
(* store, which is nobody else's.                                          *)
PortsApart ==
    /\ conn # 0 => conn \in open
    /\ \A c \in Caller : pc[c] \in Holding => conn # 0
    /\ \A c \in Caller : pc[c] = "store" =>
            /\ port[c] \in open /\ port[c] # conn
            /\ \A d \in Caller : pc[d] = "store" /\ port[d] = port[c] => d = c

Ports == PortsApart /\ NoPortLostOrLeaked

IInv == TypeOK /\ OneLong /\ CancelReaches /\ OnlyWhenAsked /\ GuardHeld /\ Ports

-----------------------------------------------------------------------------
(* The steps that stay out of the long operations' variables.              *)
Aside(c) ==
    \/ Short(c) \/ ShortLock(c) \/ ShortEnd(c) \/ Connect(c) \/ Take(c) \/ Open(c)
    \/ Store(c) \/ Disconnect(c) \/ Close(c)

LEMMA InitInv == Init => IInv
BY CallerAssumption, SlotsAssumption DEF Init, IInv, TypeOK, OneLong, CancelReaches,
   OnlyWhenAsked, GuardHeld, Ports, PortsApart, NoPortLostOrLeaked, InLong, Holding, Places

LEMMA TypeStep == ASSUME TypeOK, [Next]_vars PROVE TypeOK'
<1> USE SlotsAssumption DEF TypeOK, Places, InLong, Holding, Goto, Begin
<1>1. CASE UNCHANGED vars
  BY <1>1 DEF vars
<1>2. ASSUME NEW c \in Caller, Short(c) \/ Disconnect(c) \/ Connect(c) PROVE TypeOK'
  <2>1. CASE Short(c)
    BY <2>1 DEF Short
  <2>2. CASE Disconnect(c)
    BY <2>2 DEF Disconnect
  <2>3. CASE Connect(c)
    BY <2>3 DEF Connect
  <2>. QED
    BY <1>2, <2>1, <2>2, <2>3
<1>3. ASSUME NEW c \in Caller, ShortLock(c) \/ LongLock(c) PROVE TypeOK'
  BY <1>3 DEF ShortLock, LongLock, Lock, LetGoBy
<1>4. ASSUME NEW c \in Caller, ShortEnd(c) \/ LongDrop(c) PROVE TypeOK'
  BY <1>4 DEF ShortEnd, LongDrop
<1>5. ASSUME NEW c \in Caller, Long(c) PROVE TypeOK'
  BY <1>5 DEF Long, Mark
<1>6. ASSUME NEW c \in Caller, Install(c) PROVE TypeOK'
  BY <1>6 DEF Install, FreshToken
<1>7. ASSUME NEW c \in Caller, LongWork(c) PROVE TypeOK'
  BY <1>7 DEF LongWork, Continues
<1>8. ASSUME NEW c \in Caller, MidiCancel(c) PROVE TypeOK'
  BY <1>8 DEF MidiCancel
<1>9. ASSUME NEW c \in Caller, Take(c) \/ Close(c) PROVE TypeOK'
  <2>1. open \ {conn} \subseteq 1..conns /\ 0 \in 0..conns
    OBVIOUS
  <2>. QED
    BY <1>9, <2>1 DEF Take, Close, LetGo
<1>10. ASSUME NEW c \in Caller, Open(c) PROVE TypeOK'
  <2>1. 0..conns \subseteq 0..conns + 1 /\ 1..conns \subseteq 1..conns + 1
    OBVIOUS
  <2>2. port \in [Caller -> 0..conns + 1] /\ open \subseteq 1..conns + 1
    BY <2>1
  <2>3. /\ conns' \in Nat /\ conn' \in 0..conns' /\ open' \subseteq 1..conns'
        /\ port' \in [Caller -> 0..conns']
    <3>1. CASE UNCHANGED <<conns, open, port>>
      BY <1>10, <3>1 DEF Open
    <3>2. CASE conns' = conns + 1 /\ open' = open \cup {conns'}
                 /\ port' = [port EXCEPT ![c] = conns']
      <4>1. conns + 1 \in 0..conns + 1 /\ conns + 1 \in 1..conns + 1 /\ conn \in 0..conns + 1
        OBVIOUS
      <4>2. conn' = conn
        BY <1>10 DEF Open
      <4>. QED
        BY <3>2, <2>2, <4>1, <4>2
    <3>. QED
      BY <1>10, <3>1, <3>2 DEF Open
  <2>4. pc' \in [Caller -> Places]
    BY <1>10 DEF Open
  <2>5. UNCHANGED <<busy, cancel, cancelled, guard, token, left, tokens, begun, asked>>
    BY <1>10 DEF Open
  <2>. QED
    BY <2>3, <2>4, <2>5
<1>11. ASSUME NEW c \in Caller, Store(c) PROVE TypeOK'
  BY <1>11 DEF Store
<1> QED
  BY <1>1, <1>2, <1>3, <1>4, <1>5, <1>6, <1>7, <1>8, <1>9, <1>10, <1>11
     DEF Next, Command, Step

(* What a step away from the long operations leaves as it is.              *)
LEMMA AsideStep ==
    ASSUME TypeOK, NEW c \in Caller, Aside(c)
    PROVE  /\ UNCHANGED <<busy, cancel, cancelled, token, left, tokens, asked>>
           /\ \A d \in Caller : pc[d] \in InLong \/ pc'[d] \in InLong => pc'[d] = pc[d]
<1> USE DEF TypeOK, Goto, Begin, InLong, Places, Holding
<1>1. CASE Short(c) \/ Connect(c) \/ Disconnect(c)
  BY <1>1 DEF Short, Connect, Disconnect
<1>2. CASE ShortLock(c)
  BY <1>2 DEF ShortLock, Lock
<1>3. CASE ShortEnd(c) \/ Take(c) \/ Close(c)
  BY <1>3 DEF ShortEnd, Take, Close
<1>4. CASE Open(c) \/ Store(c)
  BY <1>4 DEF Open, Store
<1> QED
  BY <1>1, <1>2, <1>3, <1>4 DEF Aside

LongInv == OneLong /\ CancelReaches /\ OnlyWhenAsked

(* Cancelling: the fresh token is nobody else's and has not been cancelled.*)
LEMMA LongStep == ASSUME TypeOK, LongInv, [Next]_vars PROVE LongInv'
<1> USE DEF LongInv, OneLong, CancelReaches, OnlyWhenAsked, InLong
<1>1. CASE UNCHANGED vars
  BY <1>1 DEF vars
<1>2. ASSUME NEW c \in Caller, Aside(c) PROVE LongInv'
  BY <1>2, AsideStep
<1>3. ASSUME NEW c \in Caller, Long(c) PROVE LongInv'
  <2>1. UNCHANGED <<cancel, cancelled, token>> /\ asked' = asked \ {c} /\ pc[c] = "idle"
    BY <1>3 DEF Long, Begin
  <2>2. CASE UNCHANGED <<busy, pc>>
    BY <2>1, <2>2
  <2>3. CASE busy = "no" /\ busy' = "yes" /\ Goto(c, "install")
    <3>1. \A d \in Caller : pc[d] \notin InLong
      BY <2>3
    <3>2. \A d \in Caller : pc'[d] = IF d = c THEN "install" ELSE pc[d]
      BY <2>3 DEF Goto, TypeOK
    <3>. QED
      BY <2>1, <2>3, <3>1, <3>2
  <2>4. CASE busy = "yes" /\ Goto(c, "idle") /\ UNCHANGED busy
    <3>1. pc' = pc
      BY <2>1, <2>4 DEF Goto, TypeOK
    <3>. QED
      BY <2>2, <2>4, <3>1
  <2>. QED
    BY <1>3, <2>3, <2>4 DEF Long, Mark
<1>4. ASSUME NEW c \in Caller, Install(c) PROVE LongInv'
  <2>1. /\ pc[c] = "install" /\ cancel' = tokens + 1 /\ token' = [token EXCEPT ![c] = tokens + 1]
        /\ UNCHANGED <<busy, cancelled, asked>>
    BY <1>4 DEF Install, FreshToken
  <2>2. \A d \in Caller : pc'[d] = IF d = c THEN "longLock" ELSE pc[d]
    BY <1>4 DEF Install, Goto, TypeOK
  <2>3. tokens + 1 \notin cancelled
    BY DEF TypeOK
  <2>. QED
    BY <2>1, <2>2, <2>3 DEF TypeOK
<1>5. ASSUME NEW c \in Caller, LongLock(c) \/ LongWork(c) PROVE LongInv'
  <2>1. /\ pc[c] \in {"longLock", "longWork"}
        /\ UNCHANGED <<busy, cancel, cancelled, token, asked>>
    BY <1>5 DEF LongLock, Lock, LongWork
  <2>2. \/ UNCHANGED pc
        \/ \E w \in {"longWork", "longDrop"} :
             \A d \in Caller : pc'[d] = IF d = c THEN w ELSE pc[d]
    BY <1>5 DEF LongLock, Lock, LongWork, Goto, TypeOK
  <2>. QED
    BY <2>1, <2>2
<1>6. ASSUME NEW c \in Caller, LongDrop(c) PROVE LongInv'
  <2>1. pc[c] = "longDrop" /\ UNCHANGED <<cancel, cancelled, token, asked>>
    BY <1>6 DEF LongDrop
  <2>2. \A d \in Caller : pc'[d] = IF d = c THEN "idle" ELSE pc[d]
    BY <1>6 DEF LongDrop, Goto, TypeOK
  <2>. QED
    BY <2>1, <2>2
<1>7. ASSUME NEW c \in Caller, MidiCancel(c) PROVE LongInv'
  BY <1>7 DEF MidiCancel
<1> QED
  BY <1>1, <1>2, <1>3, <1>4, <1>5, <1>6, <1>7 DEF Next, Command, Step, Aside

-----------------------------------------------------------------------------
(* The mutex and the ports.                                                *)

LEMMA GuardStep == ASSUME TypeOK, GuardHeld, [Next]_vars PROVE GuardHeld'
<1> USE CallerAssumption DEF GuardHeld, TypeOK, Goto, Holding
<1>1. CASE UNCHANGED vars
  BY <1>1 DEF vars
<1>2. ASSUME NEW c \in Caller, ShortLock(c) \/ LongLock(c) PROVE GuardHeld'
  BY <1>2 DEF ShortLock, LongLock, Lock, LetGoBy
<1>3. ASSUME NEW c \in Caller, ShortEnd(c) \/ LongWork(c) PROVE GuardHeld'
  BY <1>3 DEF ShortEnd, LongWork
<1>4. ASSUME NEW c \in Caller, Short(c) \/ Disconnect(c) \/ Connect(c) \/ Long(c) PROVE GuardHeld'
  BY <1>4 DEF Short, Disconnect, Connect, Long, Mark, Begin
<1>5. ASSUME NEW c \in Caller, Install(c) \/ LongDrop(c) \/ MidiCancel(c) PROVE GuardHeld'
  BY <1>5 DEF Install, LongDrop, MidiCancel
<1>6. ASSUME NEW c \in Caller, Take(c) \/ Open(c) \/ Store(c) \/ Close(c) PROVE GuardHeld'
  BY <1>6 DEF Take, Open, Store, Close
<1> QED
  BY <1>1, <1>2, <1>3, <1>4, <1>5, <1>6 DEF Next, Command, Step

(* A step that opens and closes nothing, lets go of nothing that is about  *)
(* to be stored, and takes the lock only where there is a connection.      *)
LEMMA PortsKept ==
    ASSUME Ports, UNCHANGED <<conn, open, port>>,
           \A d \in Caller : (pc[d] = "store" <=> pc'[d] = "store"),
           \A d \in Caller : pc'[d] \in Holding => pc[d] \in Holding \/ conn # 0
    PROVE  Ports'
  BY DEF Ports, PortsApart, NoPortLostOrLeaked

LEMMA PortsStep == ASSUME TypeOK, GuardHeld, Ports, [Next]_vars PROVE Ports'
<1> USE DEF Goto
<1>1. CASE UNCHANGED vars
  BY <1>1, PortsKept DEF vars
<1>2. ASSUME NEW c \in Caller, ShortLock(c) \/ LongLock(c) PROVE Ports'
  BY <1>2, PortsKept DEF ShortLock, LongLock, Lock, TypeOK, Holding
<1>3. ASSUME NEW c \in Caller, ShortEnd(c) \/ LongWork(c) PROVE Ports'
  BY <1>3, PortsKept DEF ShortEnd, LongWork, TypeOK, Holding
<1>4. ASSUME NEW c \in Caller, Short(c) \/ Disconnect(c) \/ Connect(c) \/ Long(c) PROVE Ports'
  BY <1>4, PortsKept DEF Short, Disconnect, Connect, Long, Mark, Begin, TypeOK, Holding
<1>5. ASSUME NEW c \in Caller, Install(c) \/ LongDrop(c) \/ MidiCancel(c) PROVE Ports'
  BY <1>5, PortsKept DEF Install, LongDrop, MidiCancel, TypeOK, Holding
<1>6. ASSUME NEW c \in Caller, Take(c) \/ Close(c) PROVE Ports'
  <2>1. \A d \in Caller : pc[d] \notin Holding
    BY <1>6, CallerAssumption DEF Take, Unlocked, Close, GuardHeld
  <2>2. conn' = 0 /\ open' = open \ {conn} /\ UNCHANGED port
    BY <1>6 DEF Take, Close, LetGo
  <2>3. \A d \in Caller : /\ pc[d] = "store" <=> pc'[d] = "store"
                          /\ pc'[d] \notin Holding
    BY <1>6, <2>1 DEF Take, Close, TypeOK, Holding
  <2>4. 0 \notin open
    BY DEF TypeOK
  <2>. QED
    BY <2>2, <2>3, <2>4 DEF Ports, PortsApart, NoPortLostOrLeaked
<1>7. ASSUME NEW c \in Caller, Open(c) PROVE Ports'
  <2>1. CASE UNCHANGED <<conns, open, port>> /\ Goto(c, "idle")
    BY <1>7, <2>1, PortsKept DEF Open, TypeOK, Holding
  <2>2. CASE conns' = conns + 1 /\ open' = open \cup {conns'}
             /\ port' = [port EXCEPT ![c] = conns'] /\ Goto(c, "store")
    <3>1. pc[c] = "open" /\ conn' = conn
      BY <1>7 DEF Open
    <3>2. conns + 1 # conn /\ conns + 1 # 0 /\ \A d \in Caller : port[d] # conns + 1
      BY DEF TypeOK
    <3>3. \A d \in Caller : /\ pc'[d] = IF d = c THEN "store" ELSE pc[d]
                            /\ port'[d] = IF d = c THEN conns + 1 ELSE port[d]
      BY <2>2 DEF TypeOK
    <3>4. PortsApart'
      BY <2>2, <3>1, <3>2, <3>3 DEF Ports, PortsApart, Holding
    <3>5. NoPortLostOrLeaked'
      BY <2>2, <3>1, <3>3 DEF Ports, NoPortLostOrLeaked, Holding
    <3>. QED
      BY <3>4, <3>5 DEF Ports
  <2>. QED
    BY <1>7, <2>1, <2>2 DEF Open
<1>8. ASSUME NEW c \in Caller, Store(c) PROVE Ports'
  <2>1. /\ pc[c] = "store" /\ conn' = port[c] /\ open' = open \ {conn} /\ port' = port
        /\ \A d \in Caller : pc'[d] = IF d = c THEN "idle" ELSE pc[d]
    BY <1>8 DEF Store, TypeOK
  <2>2. \A d \in Caller : pc[d] \notin Holding
    BY <1>8, CallerAssumption DEF Store, GuardHeld
  <2>3. PortsApart'
    BY <2>1, <2>2 DEF Ports, PortsApart, Holding
  <2>4. NoPortLostOrLeaked'
    BY <2>1, <2>2 DEF Ports, NoPortLostOrLeaked, Holding
  <2>. QED
    BY <2>3, <2>4 DEF Ports
<1> QED
  BY <1>1, <1>2, <1>3, <1>4, <1>5, <1>6, <1>7, <1>8 DEF Next, Command, Step

-----------------------------------------------------------------------------
(* The invariant: what the runs check, and what makes it inductive.        *)
THEOREM Inductive == Spec => []IInv
<1>1. Init => IInv
  BY InitInv
<1>2. IInv /\ [Next]_vars => IInv'
  BY TypeStep, LongStep, GuardStep, PortsStep DEF IInv, LongInv
<1> QED
  BY <1>1, <1>2, PTL DEF Spec

(* Every variable of the shell keeps to its type.                          *)
THEOREM TypeCorrect == Spec => []TypeOK
  BY Inductive, PTL DEF IInv

(* midi_cancel reaches the operation that holds or awaits the connection.  *)
THEOREM Cancelling == Spec => []CancelReaches
  BY Inductive, PTL DEF IInv

(* A cancel stops no operation that began after it.                        *)
THEOREM NotStoppedUnasked == Spec => []OnlyWhenAsked
  BY Inductive, PTL DEF IInv

(* No command loses the connection it is using, and no port leaks.         *)
THEOREM PortsSafe == Spec => []NoPortLostOrLeaked
  BY Inductive, PTL DEF IInv, Ports

-----------------------------------------------------------------------------
(* The shell implements SingleFlight.                                      *)

LEMMA RunningIs ==
    ASSUME NEW at, NEW c \in Caller, at[c] \in InLong,
           \A d \in Caller : at[d] \in InLong => d = c
    PROVE  RunningIn(at) = c
  BY DEF RunningIn

LEMMA NobodyRuns ==
    ASSUME NEW at, \A d \in Caller : at[d] \notin InLong
    PROVE  RunningIn(at) = None
  BY DEF RunningIn

Abstract == <<Running, Told, Done>>

LEMMA SomebodyRuns ==
    ASSUME OneLong
    PROVE  \/ Running = None /\ \A d \in Caller : pc[d] \notin InLong
           \/ \E c \in Caller : /\ Running = c /\ pc[c] \in InLong
                               /\ \A d \in Caller : pc[d] \in InLong => d = c
<1>1. CASE \E c \in Caller : pc[c] \in InLong
  <2>1. PICK c \in Caller : pc[c] \in InLong
    BY <1>1
  <2>2. \A d \in Caller : pc[d] \in InLong => d = c
    BY <2>1 DEF OneLong
  <2>3. Running = c
    BY <2>1, <2>2, RunningIs DEF Running
  <2>. QED
    BY <2>1, <2>2, <2>3
<1>2. CASE \A d \in Caller : pc[d] \notin InLong
  BY <1>2, NobodyRuns DEF Running
<1> QED
  BY <1>1, <1>2

(* Nothing of SingleFlight sees a step that leaves the long operations.    *)
LEMMA Unseen ==
    ASSUME OneLong, UNCHANGED <<cancelled, token, left>>,
           \A d \in Caller : pc[d] \in InLong \/ pc'[d] \in InLong => pc'[d] = pc[d]
    PROVE  UNCHANGED Abstract
<1>1. CASE Running = None /\ \A d \in Caller : pc[d] \notin InLong
  <2>1. \A d \in Caller : pc'[d] \notin InLong
    BY <1>1
  <2>2. Running' = None
    BY <2>1, NobodyRuns DEF Running
  <2>. QED
    BY <1>1, <2>2 DEF Abstract, Told, Done, Begun
<1>2. ASSUME NEW c \in Caller, Running = c, pc[c] \in InLong,
             \A d \in Caller : pc[d] \in InLong => d = c
      PROVE  UNCHANGED Abstract
  <2>1. pc'[c] = pc[c] /\ \A d \in Caller : pc'[d] \in InLong => d = c
    BY <1>2
  <2>2. Running' = c
    BY <1>2, <2>1, RunningIs DEF Running
  <2>. QED
    BY <1>2, <2>1, <2>2 DEF Abstract, Told, Done, Begun
<1> QED
  BY <1>1, <1>2, SomebodyRuns

LEMMA FlightStep == ASSUME IInv, IInv', [Next]_vars PROVE [Flight!Next]_(Flight!vars)
<1> USE DEF IInv
<1>1. CASE UNCHANGED vars
  BY <1>1, Unseen DEF vars, Abstract, Flight!vars
<1>2. ASSUME NEW c \in Caller, Aside(c) PROVE [Flight!Next]_(Flight!vars)
  BY <1>2, AsideStep, Unseen DEF Abstract, Flight!vars
<1>3. ASSUME NEW c \in Caller, Long(c) PROVE [Flight!Next]_(Flight!vars)
  <2>1. pc[c] = "idle" /\ UNCHANGED <<cancelled, token, left>>
    BY <1>3 DEF Long, Begin
  <2>2. CASE busy = "no" /\ Goto(c, "install")
    <3>1. \A d \in Caller : pc[d] \notin InLong
      BY <2>2 DEF OneLong
    <3>2. \A d \in Caller : pc'[d] = IF d = c THEN "install" ELSE pc[d]
      BY <2>2 DEF Goto, TypeOK
    <3>3. pc'[c] \in InLong /\ \A d \in Caller : pc'[d] \in InLong => d = c
      BY <3>1, <3>2 DEF InLong
    <3>4. Running = None /\ Running' = c
      BY <3>1, <3>3, NobodyRuns, RunningIs DEF Running
    <3>5. ~Begun'
      BY <3>2, <3>4 DEF Begun
    <3>6. Flight!Start(c)
      BY <3>4, <3>5 DEF Flight!Start, Told, Done
    <3>. QED
      BY <3>6 DEF Flight!Next
  <2>3. CASE Goto(c, "idle")
    <3>1. pc' = pc
      BY <2>1, <2>3 DEF Goto, TypeOK
    <3>. QED
      BY <2>1, <3>1, Unseen DEF Abstract, Flight!vars
  <2>. QED
    BY <1>3, <2>2, <2>3 DEF Long, Mark
<1>4. ASSUME NEW c \in Caller, pc[c] \in InLong, Running = c,
             Install(c) \/ LongLock(c) \/ LongWork(c) \/ LongDrop(c)
      PROVE  [Flight!Next]_(Flight!vars)
  <2>0. \A d \in Caller : pc[d] \in InLong => d = c
    BY <1>4 DEF OneLong
  <2>1. ASSUME NEW w \in InLong, Goto(c, w) PROVE Running' = c /\ pc'[c] = w
    <3>1. \A d \in Caller : pc'[d] = IF d = c THEN w ELSE pc[d]
      BY <2>1 DEF Goto, TypeOK
    <3>2. pc'[c] \in InLong /\ \A d \in Caller : pc'[d] \in InLong => d = c
      BY <2>0, <3>1
    <3>. QED
      BY <3>1, <3>2, RunningIs DEF Running
  <2>2. CASE Install(c)
    <3>1. /\ pc[c] = "install" /\ Goto(c, "longLock") /\ UNCHANGED cancelled
          /\ token'[c] = tokens + 1 /\ left'[c] = Slots
      BY <2>2 DEF Install, FreshToken, TypeOK
    <3>2. Running' = c /\ pc'[c] = "longLock"
      BY <2>1, <3>1 DEF InLong
    <3>3. tokens + 1 \notin cancelled
      BY DEF TypeOK
    <3>4. ~Begun /\ Begun'
      BY <1>4, <3>1, <3>2, CallerAssumption DEF Begun
    <3>5. Told = "no" /\ Told' = "no" /\ Done = 0 /\ Done' = 0
      BY <3>1, <3>2, <3>3, <3>4, SlotsAssumption DEF Told, Done
    <3>. QED
      BY <1>4, <3>2, <3>5 DEF Flight!vars
  <2>3. CASE LongLock(c) \/ (LongWork(c) /\ Goto(c, "longDrop") /\ UNCHANGED left)
    <3>1. /\ pc[c] \in {"longLock", "longWork"} /\ UNCHANGED <<cancelled, token, left>>
          /\ Goto(c, "longWork") \/ Goto(c, "longDrop")
      BY <2>3 DEF LongLock, Lock, LongWork
    <3>2. Running' = c /\ pc'[c] \in {"longWork", "longDrop"}
      BY <2>1, <3>1 DEF InLong
    <3>3. Begun /\ Begun'
      BY <1>4, <3>1, <3>2, CallerAssumption DEF Begun
    <3>. QED
      BY <1>4, <3>1, <3>2, <3>3 DEF Flight!vars, Told, Done
  <2>4. CASE LongWork(c) /\ Continues(c) /\ left' = [left EXCEPT ![c] = @ - 1] /\ UNCHANGED pc
    <3>1. pc[c] = "longWork" /\ UNCHANGED <<cancelled, token>> /\ token[c] \notin cancelled
      BY <2>4 DEF LongWork, Continues
    <3>2. Running' = c
      BY <1>4, <2>4 DEF Running
    <3>3. Begun /\ Begun'
      BY <1>4, <2>4, <3>1, <3>2, CallerAssumption DEF Begun
    <3>4. left'[c] = left[c] - 1 /\ left[c] \in Int
      BY <2>4 DEF TypeOK
    <3>5. Done' = Done + 1
      BY <1>4, <3>2, <3>3, <3>4, SlotsAssumption DEF Done
    <3>6. Told = "no" /\ Told' = "no"
      BY <1>4, <3>1, <3>2 DEF Told
    <3>7. Flight!Work
      BY <1>4, <3>2, <3>5, <3>6, CallerAssumption DEF Flight!Work
    <3>. QED
      BY <3>7 DEF Flight!Next
  <2>5. CASE LongDrop(c)
    <3>1. \A d \in Caller : pc'[d] \notin InLong
      BY <2>0, <2>5 DEF LongDrop, Goto, TypeOK, InLong
    <3>2. Running' = None
      BY <3>1, NobodyRuns DEF Running
    <3>3. ~Begun'
      BY <3>2 DEF Begun
    <3>4. Flight!End
      BY <1>4, <3>2, <3>3, CallerAssumption DEF Flight!End, Told, Done
    <3>. QED
      BY <3>4 DEF Flight!Next
  <2>. QED
    BY <1>4, <2>2, <2>3, <2>4, <2>5 DEF LongWork
<1>5. ASSUME NEW c \in Caller, MidiCancel(c) PROVE [Flight!Next]_(Flight!vars)
  <2>1. UNCHANGED <<pc, token, left>> /\ cancelled \subseteq cancelled'
    BY <1>5 DEF MidiCancel
  <2>2. Running' = Running /\ (Begun' <=> Begun) /\ Done' = Done
    BY <2>1 DEF Running, Begun, Done
  <2>3. CASE Told' = Told
    BY <2>2, <2>3 DEF Flight!vars
  <2>4. CASE Told' # Told
    <3>1. Begun /\ Told' = "yes"
      BY <2>1, <2>2, <2>4 DEF Told
    <3>2. Flight!Tell
      BY <2>2, <3>1 DEF Flight!Tell, Begun
    <3>. QED
      BY <3>2 DEF Flight!Next
  <2>. QED
    BY <2>3, <2>4
<1>6. ASSUME NEW c \in Caller, Install(c) \/ LongLock(c) \/ LongWork(c) \/ LongDrop(c)
      PROVE  [Flight!Next]_(Flight!vars)
  <2>1. pc[c] \in InLong
    BY <1>6 DEF Install, LongLock, Lock, LongWork, LongDrop, InLong
  <2>2. Running = c
    BY <2>1, SomebodyRuns
  <2>. QED
    BY <1>4, <1>6, <2>1, <2>2
<1> QED
  BY <1>1, <1>2, <1>3, <1>5, <1>6 DEF Next, Command, Step, Aside

(* Long operations run one at a time, each starts afresh, and one that is  *)
(* told to stop begins no further part: every step of the shell is a step  *)
(* of SingleFlight, or none.  (That it ends is left to the runs.)          *)
THEOREM Implements == Spec => FlightSafe
<1>1. Init => Flight!Init
  <2>1. Init => Running = None
    BY NobodyRuns DEF Init, Running, InLong
  <2>. QED
    BY <2>1 DEF Flight!Init, Told, Done, Begun
<1>2. Spec => []IInv
  BY Inductive
<1>3. IInv /\ IInv' /\ [Next]_vars => [Flight!Next]_(Flight!vars)
  BY FlightStep
<1> QED
  BY <1>1, <1>2, <1>3, PTL DEF Spec, FlightSafe
=============================================================================
