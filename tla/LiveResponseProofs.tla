------------------------- MODULE LiveResponseProofs -------------------------
(***************************************************************************)
(* Theorems about LiveResponse and, in the last part, about                *)
(* LiveResponseAliases.  The inductive invariant of the first says of      *)
(* every process what its label, its locals, the handle and the service's  *)
(* commands have to do with each other (Good), and of the handle how its   *)
(* three directory fields are related (Dir).  A step moves one process and *)
(* changes the handle or the commands in one of a few ways (Shared) that   *)
(* leave the other processes good (Stable).                                *)
(***************************************************************************)
EXTENDS LiveResponse, LiveResponseAliases, SequenceTheorems, TLAPS

At(cs, c) == IF c \in DOMAIN cs THEN cs[c].at ELSE 0

\* A cd other than c, not created before it, is the last one submitted.
Overtaken(c, h, cs) ==
    \E d \in DOMAIN cs : /\ d # c /\ cs[d].verb = "cd"
                         /\ At(cs, d) >= At(cs, c) /\ h.stamp = At(cs, d)

\* The handle waits for command c, has its result, or c was overtaken.
Tracks(c, h, cs) == h.pending = c \/ h.cwd = c \/ Overtaken(c, h, cs)

SavedOrLate(c, h, cs) == h.cwd = c \/ Overtaken(c, h, cs)

Dir(h, cs) ==
    /\ h \in Handles
    /\ h.cwd \in 0..Len(cs)
    /\ h.pending \in 0..Len(cs)
    /\ At(cs, h.cwd) =< h.stamp
    /\ h.pending # 0 => At(cs, h.pending) = h.stamp /\ cs[h.pending].verb = "cd"
    /\ h.pending = 0 => At(cs, h.cwd) = h.stamp /\ (h.cwd # 0 => cs[h.cwd].verb = "cd")

\* What a process was told and what it knows at each label.
Honest(l, m) ==
    /\ l # "idle" => m.applied = m.asked
    /\ l \in {"check", "send"} => ~m.asked
    /\ l = "check" => m.op = "exec"
    /\ l \in {"bind", "mark", "apply"} => m.asked
    /\ l = "bind" => m.op = "connect"
    /\ l \in {"mark", "apply"} => m.op = "exec" /\ m.verb = "cd"
    /\ l = "inspect" => (m.asked <=> m.op # "exec")
    /\ l = "save" => m.asked \/ m.op = "status"
    /\ l \in {"fetch", "observe"} => m.asked \/ m.op \in {"status", "cancel"}
    /\ l = "idle" /\ m.op \in Mutating =>
          /\ m.says = "failed" => ~m.applied
          /\ m.says \in {"accepted", "done"} => m.applied

\* The command a process is about, and the directory of a cd it executes.
Follows(l, m, h, cs) ==
    /\ l \in {"mark", "apply", "fetch", "observe"} => m.cmd \in DOMAIN cs
    /\ l = "send" /\ m.op = "cancel" => m.cmd \in DOMAIN cs
    /\ l = "mark" => cs[m.cmd].verb = "cd"
    /\ l # "idle" => (m.sink => m.verb # "cd")
    /\ l # "idle" /\ m.op # "exec" => ~m.sink
    /\ l = "save" => m.sink
    /\ l \in {"apply", "fetch", "observe"} /\ m.op = "exec" /\ m.verb = "cd" =>
          Tracks(m.cmd, h, cs)
    /\ l = "idle" /\ m.op = "exec" /\ m.says = "done" /\ m.tracked /\ Completes(m) =>
          m.cmd \in DOMAIN cs /\ SavedOrLate(m.cmd, h, cs)

Good(l, m, h, cs) ==
    /\ l \in Labels
    /\ m \in Locals
    /\ Honest(l, m)
    /\ Follows(l, m, h, cs)

Shapes ==
    /\ session \in SessionStates
    /\ command \in Seq(Commands)
    /\ file \in Nat
    /\ calls \in Nat
    /\ pc \in [Processes -> Labels]
    /\ self \in [Processes -> Locals]

Inv ==
    /\ Shapes
    /\ Dir(handle, command)
    /\ \A p \in Processes : Good(pc[p], self[p], handle, command)

-----------------------------------------------------------------------------
(* How a step changes what processes share *)

\* Commands are only added, and keep their verb and time.
Grows(cs, ds) ==
    /\ Len(cs) =< Len(ds)
    /\ \A c \in DOMAIN cs : ds[c].verb = cs[c].verb /\ ds[c].at = cs[c].at

\* The directory fields stay, a cd is marked, or a result arrives.
Turns(h, g, cs) ==
    /\ g \in Handles
    /\ \/ g.cwd = h.cwd /\ g.pending = h.pending /\ g.stamp = h.stamp
       \/ \E c \in DOMAIN cs :
             \/ /\ cs[c].verb = "cd" /\ At(cs, c) > h.stamp
                /\ g.cwd = h.cwd /\ g.pending = c /\ g.stamp = At(cs, c)
             \/ /\ h.pending = c
                /\ g.cwd = c /\ g.pending = 0 /\ g.stamp = h.stamp

Shared ==
    /\ session' \in SessionStates
    /\ command' \in Seq(Commands)
    /\ file' \in Nat
    /\ calls' \in Nat
    /\ \/ handle' = handle /\ Grows(command, command')
       \/ command' = command /\ Turns(handle, handle', command)

Moves(p) ==
    \E l \in Labels, m \in Locals :
        /\ pc' = [pc EXCEPT ![p] = l]
        /\ self' = [self EXCEPT ![p] = m]
        /\ Good(l, m, handle', command')

-----------------------------------------------------------------------------
(* Commands that are added *)

\* A time is a number.
LEMMA TimesAreNumbers ==
    ASSUME NEW cs \in Seq(Commands), NEW c
    PROVE  At(cs, c) \in Nat
  <1>1. CASE c \in DOMAIN cs
    <2>1. cs[c] \in Commands
      BY <1>1
    <2> QED
      BY <1>1, <2>1 DEF At, Commands
  <1>2. CASE c \notin DOMAIN cs
    BY <1>2 DEF At
  <1> QED
    BY <1>1, <1>2

\* Adding commands leaves the times and verbs of the old ones.
LEMMA GrowingKeepsTimes ==
    ASSUME NEW cs \in Seq(Commands), NEW ds \in Seq(Commands), Grows(cs, ds),
           NEW c \in 0..Len(cs)
    PROVE  /\ At(ds, c) = At(cs, c)
           /\ c \in DOMAIN cs => c \in DOMAIN ds /\ ds[c].verb = cs[c].verb
           /\ At(cs, c) \in Nat
  <1>1. DOMAIN cs = 1..Len(cs) /\ DOMAIN ds = 1..Len(ds) /\ Len(cs) \in Nat /\ Len(ds) \in Nat
    OBVIOUS
  <1>2. c \in DOMAIN cs => cs[c] \in Commands
    OBVIOUS
  <1>3. CASE c \in DOMAIN cs
    BY <1>1, <1>2, <1>3 DEF Grows, At, Commands
  <1>4. CASE c \notin DOMAIN cs
    <2>1. c = 0
      BY <1>1, <1>4
    <2> QED
      BY <1>1, <1>4, <2>1 DEF At
  <1> QED
    BY <1>3, <1>4

\* The handle means the same with more commands.
LEMMA GrowingKeepsDir ==
    ASSUME NEW cs \in Seq(Commands), NEW ds \in Seq(Commands), Grows(cs, ds),
           NEW h, Dir(h, cs)
    PROVE  Dir(h, ds)
  <1>1. DOMAIN cs = 1..Len(cs) /\ DOMAIN ds = 1..Len(ds) /\ Len(cs) \in Nat /\ Len(ds) \in Nat
    OBVIOUS
  <1>2. At(ds, h.cwd) = At(cs, h.cwd) /\ At(ds, h.pending) = At(cs, h.pending)
    BY GrowingKeepsTimes DEF Dir
  <1>3. /\ h.pending # 0 => ds[h.pending].verb = cs[h.pending].verb
        /\ h.cwd # 0 => ds[h.cwd].verb = cs[h.cwd].verb
    BY <1>1 DEF Dir, Grows
  <1> QED
    BY <1>1, <1>2, <1>3 DEF Dir, Grows

\* An overtaken cd stays overtaken.
LEMMA GrowingKeepsOvertaken ==
    ASSUME NEW cs \in Seq(Commands), NEW ds \in Seq(Commands), Grows(cs, ds),
           NEW h, NEW c \in 0..Len(cs), Overtaken(c, h, cs)
    PROVE  Overtaken(c, h, ds)
  <1>1. PICK d \in DOMAIN cs : /\ d # c /\ cs[d].verb = "cd"
                               /\ At(cs, d) >= At(cs, c) /\ h.stamp = At(cs, d)
    BY DEF Overtaken
  <1>2. d \in 0..Len(cs)
    OBVIOUS
  <1>3. /\ At(ds, d) = At(cs, d) /\ At(ds, c) = At(cs, c)
        /\ d \in DOMAIN ds /\ ds[d].verb = cs[d].verb
    BY <1>2, GrowingKeepsTimes
  <1> QED
    BY <1>1, <1>3 DEF Overtaken

\* What is known of a process does not depend on later commands.
LEMMA GrowingKeepsGood ==
    ASSUME NEW cs \in Seq(Commands), NEW ds \in Seq(Commands), Grows(cs, ds),
           NEW h, NEW l, NEW m, Good(l, m, h, cs)
    PROVE  Good(l, m, h, ds)
  <1>1. DOMAIN cs = 1..Len(cs) /\ DOMAIN ds = 1..Len(ds) /\ Len(cs) \in Nat /\ Len(ds) \in Nat
    OBVIOUS
  <1>2. m.cmd \in DOMAIN cs => m.cmd \in DOMAIN ds /\ ds[m.cmd].verb = cs[m.cmd].verb
    BY <1>1 DEF Grows
  <1>3. m.cmd \in DOMAIN cs /\ Overtaken(m.cmd, h, cs) => Overtaken(m.cmd, h, ds)
    BY <1>1, GrowingKeepsOvertaken
  <1> QED
    BY <1>2, <1>3 DEF Good, Follows, Tracks, SavedOrLate

-----------------------------------------------------------------------------
(* The handle *)

\* A turn keeps the three directory fields in their relation.
LEMMA TurningKeepsDir ==
    ASSUME NEW cs \in Seq(Commands), NEW h, NEW g, Dir(h, cs), Turns(h, g, cs)
    PROVE  Dir(g, cs)
  <1>1. DOMAIN cs = 1..Len(cs) /\ Len(cs) \in Nat
    OBVIOUS
  <1>2. \A c \in 0..Len(cs) : At(cs, c) \in Nat
    BY TimesAreNumbers
  <1>3. h.stamp \in Nat /\ At(cs, h.cwd) \in Nat
    BY <1>2 DEF Dir, Handles
  <1>4. CASE g.cwd = h.cwd /\ g.pending = h.pending /\ g.stamp = h.stamp
    BY <1>4 DEF Dir, Turns
  <1>5. ASSUME NEW c \in DOMAIN cs, cs[c].verb = "cd", At(cs, c) > h.stamp,
               g.cwd = h.cwd, g.pending = c, g.stamp = At(cs, c)
        PROVE  Dir(g, cs)
    <2>1. At(cs, c) \in Nat
      BY <1>1, <1>2
    <2>2. At(cs, g.cwd) =< g.stamp
      BY <1>3, <1>5, <2>1 DEF Dir
    <2>3. g.cwd \in 0..Len(cs) /\ g.pending \in 0..Len(cs)
      BY <1>1, <1>5 DEF Dir
    <2> QED
      BY <1>5, <2>2, <2>3 DEF Dir, Turns
  <1>6. ASSUME NEW c \in DOMAIN cs, h.pending = c,
               g.cwd = c, g.pending = 0, g.stamp = h.stamp
        PROVE  Dir(g, cs)
    BY <1>1, <1>3, <1>6 DEF Dir, Turns
  <1> QED
    BY <1>4, <1>5, <1>6 DEF Turns

\* A cd that is waited for, saved or overtaken stays so, and once it is saved or
\* overtaken it does not have to be waited for.
LEMMA TurningKeepsTracks ==
    ASSUME NEW cs \in Seq(Commands), NEW h, NEW g, Dir(h, cs), Turns(h, g, cs),
           NEW e \in DOMAIN cs
    PROVE  /\ Tracks(e, h, cs) => Tracks(e, g, cs)
           /\ SavedOrLate(e, h, cs) => SavedOrLate(e, g, cs)
  <1>1. DOMAIN cs = 1..Len(cs) /\ Len(cs) \in Nat
    OBVIOUS
  <1>2. \A c \in 0..Len(cs) : At(cs, c) \in Nat
    BY TimesAreNumbers
  <1>3. h.stamp \in Nat /\ At(cs, h.cwd) \in Nat /\ At(cs, e) \in Nat
    BY <1>1, <1>2 DEF Dir, Handles
  <1>4. CASE g.cwd = h.cwd /\ g.pending = h.pending /\ g.stamp = h.stamp
    BY <1>4 DEF Tracks, SavedOrLate, Overtaken
  <1>5. ASSUME NEW c \in DOMAIN cs, cs[c].verb = "cd", At(cs, c) > h.stamp,
               g.cwd = h.cwd, g.pending = c, g.stamp = At(cs, c),
               Tracks(e, h, cs) \/ SavedOrLate(e, h, cs)
        PROVE  Overtaken(e, g, cs)
    <2>1. At(cs, c) \in Nat
      BY <1>1, <1>2
    <2>2. At(cs, e) =< h.stamp
      <3>1. CASE h.pending = e
        BY <1>1, <1>3, <3>1 DEF Dir
      <3>2. CASE h.cwd = e
        BY <3>2 DEF Dir
      <3>3. CASE Overtaken(e, h, cs)
        BY <1>3, <3>3 DEF Overtaken
      <3> QED
        BY <1>5, <3>1, <3>2, <3>3 DEF Tracks, SavedOrLate
    <2>3. At(cs, c) > At(cs, e)
      BY <1>3, <1>5, <2>1, <2>2
    <2>4. c # e
      BY <1>3, <2>3
    <2> QED
      BY <1>3, <1>5, <2>1, <2>3, <2>4 DEF Overtaken
  <1>6. ASSUME NEW c \in DOMAIN cs, h.pending = c,
               g.cwd = c, g.pending = 0, g.stamp = h.stamp
        PROVE  Tracks(e, h, cs) \/ SavedOrLate(e, h, cs) => SavedOrLate(e, g, cs)
    <2>1. At(cs, c) = h.stamp /\ cs[c].verb = "cd"
      BY <1>1, <1>6 DEF Dir
    <2>2. Overtaken(e, h, cs) => Overtaken(e, g, cs)
      BY <1>6 DEF Overtaken
    <2>3. h.cwd = e /\ c # e => Overtaken(e, g, cs)
      BY <1>3, <1>6, <2>1 DEF Overtaken, Dir
    <2> QED
      BY <1>6, <2>2, <2>3 DEF Tracks, SavedOrLate
  <1>7. Turns(h, g, cs) => \/ g.cwd = h.cwd /\ g.pending = h.pending /\ g.stamp = h.stamp
                           \/ \E c \in DOMAIN cs :
                                 /\ cs[c].verb = "cd" /\ At(cs, c) > h.stamp
                                 /\ g.cwd = h.cwd /\ g.pending = c /\ g.stamp = At(cs, c)
                           \/ \E c \in DOMAIN cs :
                                 /\ h.pending = c
                                 /\ g.cwd = c /\ g.pending = 0 /\ g.stamp = h.stamp
    BY DEF Turns
  <1>8. CASE \E c \in DOMAIN cs : /\ cs[c].verb = "cd" /\ At(cs, c) > h.stamp
                                  /\ g.cwd = h.cwd /\ g.pending = c /\ g.stamp = At(cs, c)
    BY <1>5, <1>8 DEF Tracks, SavedOrLate
  <1>9. CASE \E c \in DOMAIN cs : /\ h.pending = c
                                  /\ g.cwd = c /\ g.pending = 0 /\ g.stamp = h.stamp
    <2>1. Tracks(e, h, cs) \/ SavedOrLate(e, h, cs) => SavedOrLate(e, g, cs)
      BY <1>6, <1>9
    <2> QED
      BY <2>1 DEF Tracks, SavedOrLate
  <1> QED
    BY <1>4, <1>7, <1>8, <1>9

\* Nor on how others turn the handle.
LEMMA TurningKeepsGood ==
    ASSUME NEW cs \in Seq(Commands), NEW h, NEW g, Dir(h, cs), Turns(h, g, cs),
           NEW l, NEW m, Good(l, m, h, cs)
    PROVE  Good(l, m, g, cs)
  <1>1. m.cmd \in DOMAIN cs => /\ Tracks(m.cmd, h, cs) => Tracks(m.cmd, g, cs)
                               /\ SavedOrLate(m.cmd, h, cs) => SavedOrLate(m.cmd, g, cs)
    BY TurningKeepsTracks
  <1> QED
    BY <1>1 DEF Good, Follows

\* Shared changes keep the handle and every process good.
LEMMA Stable ==
    ASSUME Inv, Shared
    PROVE  /\ Dir(handle', command')
           /\ \A p \in Processes : Good(pc[p], self[p], handle', command')
  <1>1. CASE handle' = handle /\ Grows(command, command')
    BY <1>1, GrowingKeepsDir, GrowingKeepsGood DEF Inv, Shapes, Shared
  <1>2. CASE command' = command /\ Turns(handle, handle', command)
    BY <1>2, TurningKeepsDir, TurningKeepsGood DEF Inv, Shapes, Shared
  <1> QED
    BY <1>1, <1>2 DEF Shared

\* A step of a process that moves it to a good place keeps the invariant.
LEMMA MovingKeepsInv ==
    ASSUME Inv, Shared, NEW p \in Processes, Moves(p)
    PROVE  Inv'
  <1>1. PICK l \in Labels, m \in Locals :
            /\ pc' = [pc EXCEPT ![p] = l]
            /\ self' = [self EXCEPT ![p] = m]
            /\ Good(l, m, handle', command')
    BY DEF Moves
  <1>2. Shapes'
    BY <1>1 DEF Inv, Shapes, Shared
  <1>3. \A q \in Processes : Good(pc'[q], self'[q], handle', command')
    BY <1>1, Stable DEF Inv, Shapes
  <1> QED
    BY <1>2, <1>3, Stable DEF Inv

\* So does a step of the service or the device.
LEMMA RestingKeepsInv ==
    ASSUME Inv, Shared, UNCHANGED <<pc, self>>
    PROVE  Inv'
  <1>1. Shapes'
    BY DEF Inv, Shapes, Shared
  <1> QED
    BY <1>1, Stable DEF Inv

-----------------------------------------------------------------------------
(* The steps of a process that leave service and handle alone *)

\* A step that changes nothing shared but the bound or the file.
LEMMA NothingShared ==
    ASSUME Inv, UNCHANGED <<session, command, handle>>, file' \in Nat, calls' \in Nat
    PROVE  Shared
  BY DEF Inv, Shapes, Shared, Grows

\* A process goes to a label with locals that are good there.
LEMMA Going ==
    ASSUME NEW p \in Processes, NEW l, NEW m, Go(p, l, m), Good(l, m, handle', command')
    PROVE  Moves(p)
  BY DEF Go, Moves, Good

\* The end of an invocation is good when its word is true.
LEMMA Ending ==
    ASSUME NEW p \in Processes, NEW h, NEW cs, NEW m \in Locals, NEW w \in Words,
           End(p, m, w), h = handle', cs = command',
           m.op \in Mutating => /\ w = "failed" => ~m.applied
                                /\ w \in {"accepted", "done"} => m.applied,
           m.op = "exec" /\ w = "done" /\ m.tracked /\ Completes(m) =>
               m.cmd \in DOMAIN cs /\ SavedOrLate(m.cmd, h, cs)
    PROVE  Moves(p)
  <1>1. CASE w = "done" /\ m.op = "exec" /\ m.verb = "cd"
    <2> DEFINE n == [Blank EXCEPT !.op = "exec", !.applied = m.applied, !.says = w,
                                  !.verb = "cd", !.cmd = m.cmd, !.state = m.state,
                                  !.tracked = m.tracked]
    <2>1. n \in Locals
      <3>1. /\ m.applied \in BOOLEAN /\ m.cmd \in Nat /\ m.tracked \in BOOLEAN
            /\ m.state \in CommandStates \cup SessionStates
        BY DEF Locals
      <3>2. "exec" \in Ops /\ "cd" \in Verbs
        BY DEF Ops, Mutating, Reading, Verbs
      <3> QED
        BY <3>1, <3>2 DEF Locals, Blank
    <2>2. /\ n.op = m.op /\ n.applied = m.applied /\ n.says = w /\ n.verb = m.verb
          /\ n.cmd = m.cmd /\ n.state = m.state /\ n.tracked = m.tracked
      BY <1>1 DEF Blank
    <2>3. Good("idle", n, h, cs)
      BY <1>1, <2>1, <2>2 DEF Good, Honest, Follows, Completes, Labels
    <2>4. Go(p, "idle", n)
      BY <1>1 DEF End
    <2> QED
      BY <2>3, <2>4, Going
  <1>2. CASE ~(w = "done" /\ m.op = "exec" /\ m.verb = "cd")
    <2> DEFINE n == [Blank EXCEPT !.op = m.op, !.applied = m.applied, !.says = w]
    <2>1. n \in Locals
      BY DEF Locals, Blank, Ops, Mutating, Reading, Verbs, Words, CommandStates, SessionStates
    <2>2. n.op = m.op /\ n.applied = m.applied /\ n.says = w /\ n.verb = "run"
      BY DEF Blank
    <2>3. Good("idle", n, h, cs)
      BY <2>1, <2>2 DEF Good, Honest, Follows, Completes, Labels
    <2>4. Go(p, "idle", n)
      BY <1>2 DEF End
    <2> QED
      BY <2>3, <2>4, Going
  <1> QED
    BY <1>1, <1>2

\* The end of a wait.
LEMMA Settling ==
    ASSUME NEW p \in Processes, NEW h, NEW cs, NEW m \in Locals, Settle(p, m),
           h = handle', cs = command',
           m.applied = m.asked, m.asked \/ m.op = "status",
           m.cmd \in DOMAIN cs, m.sink => m.verb # "cd", m.op # "exec" => ~m.sink,
           m.op = "exec" /\ m.verb = "cd" =>
               /\ Tracks(m.cmd, h, cs)
               /\ m.tracked /\ Completes(m) => SavedOrLate(m.cmd, h, cs)
    PROVE  Moves(p)
  <1>1. CASE m.state = "running" /\ m.wait > 0
    <2> DEFINE n == [m EXCEPT !.wait = m.wait - 1]
    <2>1. n \in Locals
      BY <1>1 DEF Locals
    <2>2. /\ n.op = m.op /\ n.verb = m.verb /\ n.cmd = m.cmd /\ n.sink = m.sink
          /\ n.asked = m.asked /\ n.applied = m.applied
      BY DEF Locals
    <2>3. Good("fetch", n, h, cs)
      BY <2>1, <2>2 DEF Good, Honest, Follows, Labels
    <2>4. Go(p, "fetch", n)
      BY <1>1 DEF Settle
    <2> QED
      BY <2>3, <2>4, Going
  <1>2. CASE ~(m.state = "running" /\ m.wait > 0) /\ m.sink /\ m.state = "completed"
    <2>1. Go(p, "save", m)
      BY <1>2 DEF Settle
    <2>2. Good("save", m, h, cs)
      BY <1>2 DEF Good, Honest, Follows, Labels
    <2> QED
      BY <2>1, <2>2, Going
  <1>3. CASE ~(m.state = "running" /\ m.wait > 0) /\ ~(m.sink /\ m.state = "completed")
    <2>1. End(p, m, "done")
      BY <1>3 DEF Settle
    <2>2. "status" \notin Mutating /\ "done" \in Words
      BY DEF Mutating, Words
    <2>3. m.op \in Mutating => m.applied
      BY <2>2
    <2>4. m.op = "exec" /\ m.tracked /\ Completes(m) => SavedOrLate(m.cmd, h, cs)
      BY DEF Completes
    <2> QED
      BY <2>1, <2>2, <2>3, <2>4, Ending
  <1> QED
    BY <1>1, <1>2, <1>3

-----------------------------------------------------------------------------
(* The actions before and after the request *)

\* A process that is not at its end has locals of their types and is good.
LEMMA Knows ==
    ASSUME Inv, NEW p \in Processes
    PROVE  /\ pc[p] \in Labels /\ self[p] \in Locals
           /\ Honest(pc[p], self[p]) /\ Follows(pc[p], self[p], handle, command)
  BY DEF Inv, Good

LEMMA BeginStep ==
    ASSUME Inv, NEW p \in Processes, Begin(p)
    PROVE  Shared /\ Moves(p)
  <1>1. Shared
    <2>1. UNCHANGED <<session, command, handle, file>> /\ calls' = calls + 1
      BY DEF Begin, service, local
    <2>2. file' \in Nat /\ calls' \in Nat
      BY <2>1 DEF Inv, Shapes
    <2> QED
      BY <2>1, <2>2, NothingShared
  <1>2. handle' = handle /\ command' = command
    BY DEF Begin, service, local
  <1>3. \A c \in DOMAIN command : command[c].verb \in Verbs /\ c \in Nat
    <2> SUFFICES ASSUME NEW c \in DOMAIN command
                 PROVE  command[c].verb \in Verbs /\ c \in Nat
      OBVIOUS
    <2>1. command[c] \in Commands /\ c \in Nat
      BY DEF Inv, Shapes
    <2> QED
      BY <2>1 DEF Commands
  <1>9. \A wait \in 0..MaxWait : wait \in Nat
    OBVIOUS
  <1>4. ASSUME NEW op \in {"library", "disconnect"}, Go(p, "send", [Blank EXCEPT !.op = op])
        PROVE  Moves(p)
    <2>0. PICK n : n = [Blank EXCEPT !.op = op]
      OBVIOUS
    <2>1. n \in Locals /\ n.op = op /\ n.asked = FALSE /\ n.applied = FALSE /\ n.sink = FALSE
      BY <2>0 DEF Locals, Blank, Ops, Mutating, Reading, Verbs, Words, CommandStates, SessionStates
    <2>2. Good("send", n, handle', command')
      BY <2>1 DEF Good, Honest, Follows, Labels
    <2> QED
      BY <1>4, <2>0, <2>2, Going
  <1>5. ASSUME NEW c \in DOMAIN command,
               Go(p, "fetch", [Blank EXCEPT !.op = "cancel", !.cmd = c, !.verb = command[c].verb])
        PROVE  Moves(p)
    <2>0. PICK n : n = [Blank EXCEPT !.op = "cancel", !.cmd = c, !.verb = command[c].verb]
      OBVIOUS
    <2>1. n \in Locals /\ n.op = "cancel" /\ n.asked = FALSE /\ n.applied = FALSE /\ n.sink = FALSE /\ n.cmd = c
      BY <2>0, <1>3 DEF Locals, Blank, Ops, Mutating, Reading, Verbs, Words, CommandStates, SessionStates
    <2>2. Good("fetch", n, handle', command')
      BY <1>2, <2>1 DEF Good, Honest, Follows, Labels
    <2> QED
      BY <1>5, <2>0, <2>2, Going
  <1>6. ASSUME NEW wait \in 0..MaxWait, NEW op \in {"connect", "batch"},
               Go(p, "send", [Blank EXCEPT !.op = op, !.wait = wait, !.verb = "batch"])
        PROVE  Moves(p)
    <2>0. PICK n : n = [Blank EXCEPT !.op = op, !.wait = wait, !.verb = "batch"]
      OBVIOUS
    <2>1. n \in Locals /\ n.op = op /\ n.asked = FALSE /\ n.applied = FALSE /\ n.sink = FALSE
      BY <1>9, <2>0
      DEF Locals, Blank, Ops, Mutating, Reading, Verbs, Words, CommandStates, SessionStates
    <2>2. Good("send", n, handle', command')
      BY <2>1 DEF Good, Honest, Follows, Labels
    <2> QED
      BY <1>6, <2>0, <2>2, Going
  <1>7. ASSUME NEW wait \in 0..MaxWait, NEW verb \in {"cd", "run"},
               NEW sink \in BOOLEAN, NEW force \in BOOLEAN, sink => verb = "run",
               Go(p, "inspect", [Blank EXCEPT !.op = "exec", !.wait = wait, !.verb = verb,
                                              !.sink = sink, !.force = force])
        PROVE  Moves(p)
    <2>0. PICK n : n = [Blank EXCEPT !.op = "exec", !.wait = wait, !.verb = verb,
                                  !.sink = sink, !.force = force]
      OBVIOUS
    <2>1. /\ n \in Locals /\ n.op = "exec" /\ n.asked = FALSE /\ n.applied = FALSE
          /\ n.sink = sink /\ n.verb = verb
      BY <1>9, <2>0
      DEF Locals, Blank, Ops, Mutating, Reading, Verbs, Words, CommandStates, SessionStates
    <2>2. Good("inspect", n, handle', command')
      BY <1>7, <2>1 DEF Good, Honest, Follows, Labels
    <2> QED
      BY <1>7, <2>0, <2>2, Going
  <1>8. ASSUME NEW wait \in 0..MaxWait, NEW c \in DOMAIN command,
               Go(p, "fetch", [Blank EXCEPT !.op = "status", !.wait = wait, !.cmd = c,
                                            !.verb = command[c].verb])
        PROVE  Moves(p)
    <2>0. PICK n : n = [Blank EXCEPT !.op = "status", !.wait = wait, !.cmd = c,
                                  !.verb = command[c].verb]
      OBVIOUS
    <2>1. n \in Locals /\ n.op = "status" /\ n.asked = FALSE /\ n.applied = FALSE /\ n.sink = FALSE /\ n.cmd = c
      BY <1>9, <2>0, <1>3
      DEF Locals, Blank, Ops, Mutating, Reading, Verbs, Words, CommandStates, SessionStates
    <2>2. Good("fetch", n, handle', command')
      BY <1>2, <2>1 DEF Good, Honest, Follows, Labels
    <2> QED
      BY <1>8, <2>0, <2>2, Going
  <1> QED
    BY <1>1, <1>4, <1>5, <1>6, <1>7, <1>8 DEF Begin

\* Remembering a session leaves the directory fields alone.
LEMMA RememberStep ==
    ASSUME Inv, UNCHANGED <<session, command, file, calls>>,
           \E saved \in BOOLEAN : handle' = [handle EXCEPT !.known = handle.known \/ saved]
    PROVE  Shared
  <1>1. handle \in Handles
    BY DEF Inv, Dir
  <1>2. /\ handle'.cwd = handle.cwd /\ handle'.pending = handle.pending
        /\ handle'.stamp = handle.stamp /\ handle' \in Handles
    BY <1>1 DEF Handles
  <1> QED
    BY <1>2 DEF Inv, Shapes, Shared, Turns

LEMMA InspectStep ==
    ASSUME Inv, NEW p \in Processes, Inspect(p)
    PROVE  Shared /\ Moves(p)
  <1>1. Shared
    BY RememberStep DEF Inspect, service
  <1>2. PICK m : m = self[p]
    OBVIOUS
  <1>3. m \in Locals /\ Honest("inspect", m) /\ Follows("inspect", m, handle, command)
    BY <1>2, Knows DEF Inspect
  <1>4. CASE m.op = "exec"
    <2>1. Go(p, "check", m)
      BY <1>2, <1>4 DEF Inspect
    <2>2. Good("check", m, handle', command')
      BY <1>3, <1>4 DEF Good, Honest, Follows, Labels
    <2> QED
      BY <1>1, <2>1, <2>2, Going
  <1>5. CASE m.op = "connect" /\ session = "pending" /\ m.wait > 0
    <2> DEFINE n == [m EXCEPT !.wait = m.wait - 1]
    <2>1. Go(p, "inspect", n)
      BY <1>2, <1>5 DEF Inspect
    <2>2. /\ n \in Locals /\ n.op = m.op /\ n.verb = m.verb /\ n.sink = m.sink
          /\ n.asked = m.asked /\ n.applied = m.applied
      BY <1>3, <1>5 DEF Locals
    <2>3. Good("inspect", n, handle', command')
      BY <1>3, <1>5, <2>2 DEF Good, Honest, Follows, Labels
    <2> QED
      BY <1>1, <2>1, <2>3, Going
  <1>6. CASE m.op # "exec" /\ ~(m.op = "connect" /\ session = "pending" /\ m.wait > 0)
    <2>1. End(p, m, "done")
      BY <1>2, <1>6 DEF Inspect
    <2>2. m.applied
      BY <1>3, <1>6 DEF Honest
    <2> QED
      BY <1>1, <1>3, <1>6, <2>1, <2>2, Ending DEF Words
  <1> QED
    BY <1>4, <1>5, <1>6

\* An invocation that ends with the right excuse.
LEMMA Excusing ==
    ASSUME Inv, NEW p \in Processes, pc[p] # "idle", End(p, self[p], Excuse(self[p]))
    PROVE  Moves(p)
  <1>1. PICK m : m = self[p]
    OBVIOUS
  <1>2. m \in Locals /\ m.applied = m.asked
    BY <1>1, Knows DEF Honest
  <1>3. PICK w : w = Excuse(m)
    OBVIOUS
  <1>4. /\ w \in {"failed", "unknown", "accepted"}
        /\ w = "failed" => ~m.asked
        /\ w = "accepted" => m.asked
    BY <1>2, <1>3 DEF Excuse, Locals
  <1>5. w \in Words /\ w # "done" /\ End(p, m, w)
    BY <1>1, <1>3, <1>4 DEF Words
  <1> QED
    BY <1>2, <1>4, <1>5, Ending

\* An error before the request, or a death.
LEMMA Failing ==
    ASSUME Inv, NEW p \in Processes, pc[p] # "idle",
           \/ End(p, self[p], "failed") /\ ~self[p].asked
           \/ End(p, self[p], "unknown")
           \/ End(p, self[p], "silent")
           \/ End(p, self[p], "accepted") /\ self[p].asked
    PROVE  Moves(p)
  <1>1. PICK m : m = self[p]
    OBVIOUS
  <1>2. m \in Locals /\ m.applied = m.asked
    BY <1>1, Knows DEF Honest
  <1>3. {"failed", "unknown", "silent", "accepted"} \subseteq Words
    BY DEF Words
  <1> QED
    BY <1>1, <1>2, <1>3, Ending

LEMMA InspectFailsStep ==
    ASSUME Inv, NEW p \in Processes, InspectFails(p)
    PROVE  Shared /\ Moves(p)
  BY NothingShared, Excusing DEF InspectFails, service, local, Inv, Shapes

LEMMA CheckStep ==
    ASSUME Inv, NEW p \in Processes, Check(p)
    PROVE  Shared /\ Moves(p)
  <1>1. Shared
    BY NothingShared DEF Check, service, local, Inv, Shapes
  <1>2. pc[p] = "check" /\ handle' = handle /\ command' = command
    BY DEF Check, service, local
  <1>3. self[p] \in Locals /\ Honest("check", self[p]) /\ Follows("check", self[p], handle, command)
    BY <1>2, Knows
  <1>4. CASE End(p, self[p], "failed")
    BY <1>1, <1>2, <1>3, <1>4, Failing DEF Honest
  <1>5. CASE Go(p, "send", self[p])
    <2>1. Good("send", self[p], handle', command')
      BY <1>2, <1>3, <1>5 DEF Good, Honest, Follows, Labels
    <2> QED
      BY <1>1, <1>5, <2>1, Going
  <1> QED
    BY <1>4, <1>5 DEF Check

LEMMA CheckFailsStep ==
    ASSUME Inv, NEW p \in Processes, CheckFails(p)
    PROVE  Shared /\ Moves(p)
  <1>1. ~self[p].asked
    BY Knows DEF CheckFails, Honest
  <1> QED
    BY <1>1, NothingShared, Failing DEF CheckFails, service, local, Inv, Shapes

-----------------------------------------------------------------------------
(* The request *)

\* What the service does keeps the old commands; a new one is as submitted.
LEMMA Effecting ==
    ASSUME Inv, NEW m \in Locals, Effect(m), m.op = "cancel" => m.cmd \in DOMAIN command
    PROVE  /\ session' \in SessionStates /\ command' \in Seq(Commands)
           /\ Grows(command, command')
           /\ m.op \in {"exec", "batch"} =>
                 /\ Len(command') \in DOMAIN command'
                 /\ command'[Len(command')].verb = m.verb
                 /\ command'[Len(command')].state \in CommandStates
  <1>1. /\ command \in Seq(Commands) /\ session \in SessionStates
        /\ DOMAIN command = 1..Len(command) /\ Len(command) \in Nat
    BY DEF Inv, Shapes
  <1>2. CASE m.op = "connect" /\ session' \in {"pending", "running"} /\ UNCHANGED command
    BY <1>1, <1>2 DEF Grows, SessionStates
  <1>3. ASSUME NEW st \in {"running", "completed"}, NEW later \in {0, 1},
               m.op \in {"exec", "batch"}, Len(command) = 0 => later = 1,
               command' = Append(command, [verb |-> m.verb, state |-> st,
                                           at |-> Time(Len(command)) + later]),
               UNCHANGED session
        PROVE  /\ session' \in SessionStates /\ command' \in Seq(Commands)
               /\ Grows(command, command')
               /\ Len(command') \in DOMAIN command'
               /\ command'[Len(command')].verb = m.verb
               /\ command'[Len(command')].state \in CommandStates
    <2>1. Time(Len(command)) \in Nat
      <3>1. Time(Len(command)) = At(command, Len(command))
        BY DEF Time, At
      <3> QED
        BY <1>1, <3>1, TimesAreNumbers
    <2>6. Time(Len(command)) + later # 0
      <3>1. CASE Len(command) = 0
        BY <1>3, <2>1, <3>1
      <3>2. CASE Len(command) # 0
        <4>1. Len(command) \in DOMAIN command
          BY <1>1, <3>2
        <4>2. command[Len(command)] \in Commands
          BY <1>1, <4>1
        <4> QED
          BY <2>1, <4>1, <4>2 DEF Time, Commands
      <3> QED
        BY <3>1, <3>2
    <2>2. PICK c : c = [verb |-> m.verb, state |-> st, at |-> Time(Len(command)) + later]
      OBVIOUS
    <2>3. c \in Commands /\ c.verb = m.verb /\ c.state \in CommandStates
      BY <2>1, <2>2, <2>6 DEF Commands, Locals, CommandStates
    <2>4. command' = Append(command, c)
      BY <1>3, <2>2
    <2>5. /\ command' \in Seq(Commands) /\ Len(command') = Len(command) + 1
          /\ \A i \in 1..Len(command) : command'[i] = command[i]
          /\ command'[Len(command) + 1] = c
      BY <1>1, <2>3, <2>4
    <2> QED
      BY <1>1, <1>3, <2>3, <2>5 DEF Grows
  <1>4. ASSUME m.op = "cancel",
               \/ UNCHANGED command
               \/ command' = [command EXCEPT ![m.cmd].state = "failed"],
               UNCHANGED session
        PROVE  /\ session' \in SessionStates /\ command' \in Seq(Commands)
               /\ Grows(command, command')
    <2>1. CASE UNCHANGED command
      BY <1>1, <1>4, <2>1 DEF Grows
    <2>2. CASE command' = [command EXCEPT ![m.cmd].state = "failed"]
      <3>1. command[m.cmd] \in Commands
        BY <1>1, <1>4
      <3>2. PICK c : c = [command[m.cmd] EXCEPT !.state = "failed"]
        OBVIOUS
      <3>3. c \in Commands /\ c.verb = command[m.cmd].verb /\ c.at = command[m.cmd].at
        BY <3>1, <3>2 DEF Commands, CommandStates
      <3>4. command' = [command EXCEPT ![m.cmd] = c]
        BY <2>2, <3>2
      <3>5. command' \in Seq(Commands) /\ Len(command') = Len(command)
        BY <1>1, <1>4, <3>3, <3>4, ExceptSeq
      <3>6. \A i \in DOMAIN command : command'[i] = IF i = m.cmd THEN c ELSE command[i]
        BY <1>1, <3>4
      <3> QED
        BY <1>1, <1>4, <3>3, <3>5, <3>6 DEF Grows
    <2> QED
      BY <1>4, <2>1, <2>2
  <1>5. CASE m.op = "disconnect" /\ session' = "closed" /\ UNCHANGED command
    BY <1>1, <1>5 DEF Grows, SessionStates
  <1>6. CASE m.op = "library" /\ UNCHANGED service
    BY <1>1, <1>6 DEF Grows, service
  <1> QED
    BY <1>2, <1>3, <1>4, <1>5, <1>6 DEF Effect

LEMMA SendAnsweredStep ==
    ASSUME Inv, NEW p \in Processes, SendAnswered(p)
    PROVE  Shared /\ Moves(p)
  <1>1. PICK o : o = self[p]
    OBVIOUS
  <1>2. PICK m : m = [o EXCEPT !.asked = TRUE, !.applied = TRUE]
    OBVIOUS
  <1>3. o \in Locals /\ Honest("send", o) /\ Follows("send", o, handle, command)
    BY <1>1, Knows DEF SendAnswered, MaySend
  <1>4. /\ m \in Locals /\ m.asked = TRUE /\ m.applied = TRUE
        /\ m.op = o.op /\ m.verb = o.verb /\ m.cmd = o.cmd /\ m.sink = o.sink
    BY <1>2, <1>3 DEF Locals
  <1>5. m.op = "cancel" => m.cmd \in DOMAIN command
    BY <1>3, <1>4 DEF Follows
  <1>6. Effect(m) /\ handle' = handle /\ file' = file /\ calls' = calls
    BY <1>1, <1>2 DEF SendAnswered, local
  <1>7. /\ session' \in SessionStates /\ command' \in Seq(Commands)
        /\ Grows(command, command')
        /\ m.op \in {"exec", "batch"} =>
              /\ Len(command') \in DOMAIN command'
              /\ command'[Len(command')].verb = m.verb
              /\ command'[Len(command')].state \in CommandStates
    BY <1>4, <1>5, <1>6, Effecting
  <1>8. Shared
    BY <1>6, <1>7 DEF Shared, Inv, Shapes
  <1>9. (m.sink => m.verb # "cd") /\ (m.op # "exec" => ~m.sink)
    BY <1>3, <1>4 DEF Follows
  <1>10. CASE m.op = "connect"
    <2>1. PICK n : n = [m EXCEPT !.state = session']
      OBVIOUS
    <2>2. Go(p, "bind", n)
      BY <1>1, <1>2, <1>10, <2>1 DEF SendAnswered, AfterOpen
    <2>3. /\ n \in Locals /\ n.op = m.op /\ n.asked = TRUE /\ n.applied = TRUE
          /\ n.sink = m.sink /\ n.verb = m.verb
      BY <1>4, <1>7, <2>1 DEF Locals
    <2>4. Good("bind", n, handle', command')
      BY <1>9, <1>10, <2>3 DEF Good, Honest, Follows, Labels
    <2> QED
      BY <1>8, <2>2, <2>4, Going
  <1>11. CASE m.op \in {"exec", "batch"}
    <2>1. PICK n : n = [m EXCEPT !.cmd = Len(command'), !.state = command'[Len(command')].state]
      OBVIOUS
    <2>2. /\ n \in Locals /\ n.op = m.op /\ n.asked = TRUE /\ n.applied = TRUE
          /\ n.sink = m.sink /\ n.verb = m.verb /\ n.cmd = Len(command')
      <3>1. Len(command') \in Nat /\ command'[Len(command')].state \in CommandStates
        BY <1>7, <1>11
      <3> QED
        BY <1>4, <2>1, <3>1 DEF Locals
    <2>3. AfterSubmission(p, m)
      BY <1>1, <1>2, <1>11 DEF SendAnswered
    <2>4. CASE m.op = "exec" /\ m.verb = "cd"
      <3>1. Go(p, "mark", n)
        BY <2>1, <2>3, <2>4 DEF AfterSubmission
      <3>2. Good("mark", n, handle', command')
        BY <1>7, <1>9, <1>11, <2>2, <2>4 DEF Good, Honest, Follows, Labels
      <3> QED
        BY <1>8, <3>1, <3>2, Going
    <2>5. CASE ~(m.op = "exec" /\ m.verb = "cd")
      <3>1. Settle(p, n)
        BY <2>1, <2>3, <2>5 DEF AfterSubmission
      <3>2. n.cmd \in DOMAIN command' /\ n.applied = n.asked /\ n.asked
        BY <1>7, <1>11, <2>2
      <3>3. ~(n.op = "exec" /\ n.verb = "cd")
        BY <2>2, <2>5
      <3>4. (n.sink => n.verb # "cd") /\ (n.op # "exec" => ~n.sink)
        BY <1>9, <2>2
      <3> QED
        BY <1>8, <2>2, <3>1, <3>2, <3>3, <3>4, Settling
    <2> QED
      BY <2>4, <2>5
  <1>12. CASE m.op \in {"cancel", "library"} /\ End(p, m, "done")
    <2>1. "done" \in Words
      BY DEF Words
    <2> QED
      BY <1>4, <1>8, <1>12, <2>1, Ending
  <1>13. CASE m.op = "cancel" /\ Go(p, "fetch", m)
    <2>1. m.cmd \in DOMAIN command'
      BY <1>5, <1>7, <1>13 DEF Grows, Inv, Shapes
    <2>2. Good("fetch", m, handle', command')
      BY <1>4, <1>9, <1>13, <2>1 DEF Good, Honest, Follows, Labels
    <2> QED
      BY <1>8, <1>13, <2>2, Going
  <1>14. CASE m.op = "disconnect"
    <2>1. Go(p, "inspect", m)
      BY <1>1, <1>2, <1>14 DEF SendAnswered, AfterClose
    <2>2. Good("inspect", m, handle', command')
      BY <1>4, <1>9, <1>14 DEF Good, Honest, Follows, Labels
    <2> QED
      BY <1>8, <2>1, <2>2, Going
  <1>15. m.op \in {"connect", "exec", "batch", "cancel", "disconnect", "library"}
    BY <1>6 DEF Effect
  <1>16. m.op = "cancel" => AfterCancel(p, m)
    BY <1>1, <1>2 DEF SendAnswered
  <1>17. m.op = "library" => AfterLibrary(p, m)
    BY <1>1, <1>2 DEF SendAnswered
  <1> QED
    BY <1>10, <1>11, <1>12, <1>13, <1>14, <1>15, <1>16, <1>17 DEF AfterCancel, AfterLibrary

LEMMA SendLostStep ==
    ASSUME Inv, NEW p \in Processes, SendLost(p)
    PROVE  Shared /\ Moves(p)
  <1>1. PICK o : o = self[p]
    OBVIOUS
  <1>2. /\ o \in Locals /\ Honest("send", o) /\ Follows("send", o, handle, command)
        /\ pc[p] = "send"
    BY <1>1, Knows DEF SendLost, MaySend
  <1>3. handle' = handle /\ file' = file /\ calls' = calls
    BY DEF SendLost, local
  <1>4. CASE Effect(o) /\ End(p, [o EXCEPT !.applied = TRUE], "unknown")
    <2>1. PICK m : m = [o EXCEPT !.applied = TRUE]
      OBVIOUS
    <2>2. m \in Locals
      BY <1>2, <2>1 DEF Locals
    <2>3. /\ session' \in SessionStates /\ command' \in Seq(Commands)
          /\ Grows(command, command')
      BY <1>2, <1>4, Effecting DEF Follows
    <2>4. Shared
      BY <1>3, <2>3 DEF Shared, Inv, Shapes
    <2>5. "unknown" \in Words
      BY DEF Words
    <2> QED
      BY <1>4, <2>1, <2>2, <2>4, <2>5, Ending
  <1>5. CASE UNCHANGED service /\ End(p, o, "unknown")
    BY <1>1, <1>2, <1>3, <1>5, NothingShared, Failing DEF service, Inv, Shapes
  <1> QED
    BY <1>1, <1>4, <1>5 DEF SendLost

LEMMA SendRefusedStep ==
    ASSUME Inv, NEW p \in Processes, SendRefused(p)
    PROVE  Shared /\ Moves(p)
  <1>1. ~self[p].asked
    BY Knows DEF SendRefused, Honest
  <1> QED
    BY <1>1, NothingShared, Failing DEF SendRefused, service, local, Inv, Shapes

LEMMA BindStep ==
    ASSUME Inv, NEW p \in Processes, Bind(p)
    PROVE  Shared /\ Moves(p)
  <1>1. Shared
    BY RememberStep DEF Bind, service
  <1>2. PICK m : m = self[p]
    OBVIOUS
  <1>3. m \in Locals /\ Honest("bind", m) /\ Follows("bind", m, handle, command)
    BY <1>2, Knows DEF Bind
  <1>4. CASE m.state = "pending" /\ m.wait > 0
    <2>1. PICK n : n = [m EXCEPT !.wait = m.wait - 1]
      OBVIOUS
    <2>2. Go(p, "inspect", n)
      BY <1>2, <1>4, <2>1 DEF Bind
    <2>3. /\ n \in Locals /\ n.op = m.op /\ n.verb = m.verb /\ n.sink = m.sink
          /\ n.asked = m.asked /\ n.applied = m.applied
      BY <1>3, <1>4, <2>1 DEF Locals
    <2>4. Good("inspect", n, handle', command')
      BY <1>3, <2>3 DEF Good, Honest, Follows, Labels
    <2> QED
      BY <1>1, <2>2, <2>4, Going
  <1>5. CASE ~(m.state = "pending" /\ m.wait > 0)
    <2>1. End(p, m, "done") /\ "done" \in Words
      BY <1>2, <1>5 DEF Bind, Words
    <2>2. m.applied /\ m.op # "exec"
      BY <1>3 DEF Honest
    <2> QED
      BY <1>1, <1>3, <2>1, <2>2, Ending
  <1> QED
    BY <1>4, <1>5

LEMMA BindFailsStep ==
    ASSUME Inv, NEW p \in Processes, BindFails(p)
    PROVE  Shared /\ Moves(p)
  BY NothingShared, Failing DEF BindFails, service, local, Inv, Shapes

-----------------------------------------------------------------------------
(* The working directory *)

\* Marking a cd turns the handle, and the cd is then tracked.
LEMMA Marking ==
    ASSUME Inv, NEW c \in DOMAIN command, command[c].verb = "cd", NEW h, h = Marked(handle, c)
    PROVE  Turns(handle, h, command) /\ Tracks(c, h, command)
  <1>1. Time(c) = At(command, c) /\ At(command, c) \in Nat /\ c \in Nat
    BY TimesAreNumbers DEF Time, At, Inv, Shapes
  <1>2. handle \in Handles
    BY DEF Inv, Dir
  <1>3. CASE At(command, c) > handle.stamp
    <2>1. /\ h.cwd = handle.cwd /\ h.pending = c /\ h.stamp = At(command, c)
          /\ h \in Handles
      BY <1>1, <1>2, <1>3 DEF Marked, Handles
    <2> QED
      BY <1>3, <2>1 DEF Turns, Tracks
  <1>4. CASE ~(At(command, c) > handle.stamp)
    <2>1. h = handle
      BY <1>1, <1>4 DEF Marked
    <2>2. At(command, c) =< handle.stamp /\ At(command, c) # 0
      <3>1. command[c] \in Commands
        BY DEF Inv, Shapes
      <3> QED
        BY <1>1, <1>2, <1>4, <3>1 DEF At, Commands, Handles
    <2>3. CASE handle.pending # 0
      <3>1. handle.pending \in DOMAIN command
        BY <2>3 DEF Inv, Dir, Shapes
      <3> QED
        <4>1. /\ At(command, handle.pending) = handle.stamp
              /\ command[handle.pending].verb = "cd" /\ handle.stamp \in Nat
          BY <1>2, <2>3 DEF Inv, Dir, Handles
        <4>2. handle.pending # c => Overtaken(c, handle, command)
          BY <1>1, <2>2, <3>1, <4>1 DEF Overtaken
        <4> QED
          BY <1>2, <2>1, <4>2 DEF Turns, Tracks
    <2>4. CASE handle.pending = 0
      <3>1. At(command, handle.cwd) = handle.stamp
        BY <2>4 DEF Inv, Dir
      <3>2. handle.cwd # 0
        <4> SUFFICES ASSUME handle.cwd = 0 PROVE FALSE
          OBVIOUS
        <4>1. 0 \notin DOMAIN command
          BY DEF Inv, Shapes
        <4>2. At(command, 0) = 0
          BY <4>1 DEF At
        <4> QED
          BY <1>1, <2>2, <3>1, <4>2
      <3>3. handle.cwd \in DOMAIN command /\ command[handle.cwd].verb = "cd"
        BY <2>4, <3>2 DEF Inv, Dir, Shapes
      <3> QED
        <4>1. handle.stamp \in Nat
          BY <1>2 DEF Handles
        <4>2. handle.cwd # c => Overtaken(c, handle, command)
          BY <1>1, <2>2, <3>1, <3>3, <4>1 DEF Overtaken
        <4> QED
          BY <1>2, <2>1, <4>2 DEF Turns, Tracks
    <2> QED
      BY <2>3, <2>4
  <1> QED
    BY <1>3, <1>4

\* A result that arrives turns the handle; a cd that was tracked is then saved or late.
LEMMA Moving ==
    ASSUME Inv, NEW c \in DOMAIN command, NEW h, h = Moved(handle, c)
    PROVE  /\ Turns(handle, h, command)
           /\ Tracks(c, handle, command) => SavedOrLate(c, h, command)
  <1>1. handle \in Handles /\ c \in Nat
    BY DEF Inv, Dir, Shapes
  <1>2. CASE handle.pending = c
    <2>1. h.cwd = c /\ h.pending = 0 /\ h.stamp = handle.stamp /\ h \in Handles
      BY <1>1, <1>2 DEF Moved, Handles
    <2> QED
      BY <1>2, <2>1 DEF Turns, SavedOrLate
  <1>3. CASE handle.pending # c
    BY <1>1, <1>3 DEF Moved, Turns, Tracks, SavedOrLate
  <1> QED
    BY <1>2, <1>3

\* What a turn of the handle shares.
LEMMA TurningShared ==
    ASSUME Inv, UNCHANGED <<session, command, file, calls>>, Turns(handle, handle', command)
    PROVE  Shared
  BY DEF Inv, Shapes, Shared

LEMMA MarkStep ==
    ASSUME Inv, NEW p \in Processes, Mark(p)
    PROVE  Shared /\ Moves(p)
  <1>1. PICK m : m = self[p]
    OBVIOUS
  <1>2. /\ m \in Locals /\ Honest("mark", m) /\ Follows("mark", m, handle, command)
        /\ pc[p] = "mark" /\ UNCHANGED <<session, command, file, calls>>
    BY <1>1, Knows DEF Mark, service
  <1>3. PICK h : h = Marked(handle, m.cmd)
    OBVIOUS
  <1>4. Turns(handle, h, command) /\ Tracks(m.cmd, h, command)
    BY <1>2, <1>3, Marking DEF Follows
  <1>5. CASE handle' = h /\ Go(p, "apply", m)
    <2>1. Good("apply", m, handle', command')
      BY <1>2, <1>4, <1>5 DEF Good, Honest, Follows, Labels
    <2>2. Shared
      BY <1>2, <1>4, <1>5, TurningShared
    <2> QED
      BY <1>5, <2>1, <2>2, Going
  <1>6. CASE handle' \in {handle, h} /\ End(p, m, "accepted")
    <2>1. Turns(handle, handle, command)
      BY DEF Inv, Dir, Turns
    <2>2. Shared
      BY <1>2, <1>4, <1>6, <2>1, TurningShared
    <2> QED
      BY <1>1, <1>2, <1>6, <2>2, Failing DEF Honest
  <1> QED
    BY <1>1, <1>3, <1>5, <1>6 DEF Mark, Write, WriteFails

LEMMA ApplyStep ==
    ASSUME Inv, NEW p \in Processes, Apply(p)
    PROVE  Shared /\ Moves(p)
  <1>1. PICK m : m = self[p]
    OBVIOUS
  <1>2. /\ m \in Locals /\ Honest("apply", m) /\ Follows("apply", m, handle, command)
        /\ pc[p] = "apply" /\ UNCHANGED <<session, command, file, calls>>
    BY <1>1, Knows DEF Apply, service
  <1>3. PICK h : h = Moved(handle, m.cmd)
    OBVIOUS
  <1>4. /\ m.asked /\ m.applied = m.asked /\ m.op = "exec" /\ m.verb = "cd" /\ ~m.sink
        /\ m.cmd \in DOMAIN command /\ Tracks(m.cmd, handle, command)
    BY <1>2 DEF Honest, Follows
  <1>5. Turns(handle, h, command) /\ SavedOrLate(m.cmd, h, command)
    BY <1>3, <1>4, Moving
  <1>6. Turns(handle, handle, command)
    BY DEF Inv, Dir, Turns
  <1>7. CASE handle' = h /\ Settle(p, m)
    <2>1. Shared
      BY <1>2, <1>5, <1>7, TurningShared
    <2>2. /\ Tracks(m.cmd, handle', command') /\ SavedOrLate(m.cmd, handle', command')
          /\ m.cmd \in DOMAIN command'
      BY <1>2, <1>4, <1>5, <1>7 DEF Tracks, SavedOrLate
    <2> QED
      BY <1>2, <1>4, <1>7, <2>1, <2>2, Settling
  <1>8. CASE handle' \in {handle, h} /\ End(p, m, "accepted")
    <2>1. Shared
      BY <1>2, <1>5, <1>6, <1>8, TurningShared
    <2> QED
      BY <1>1, <1>2, <1>4, <1>8, <2>1, Failing
  <1>9. CASE ~Completes(m) /\ handle' = handle /\ Settle(p, m)
    <2>1. Shared
      BY <1>2, <1>6, <1>9, TurningShared
    <2>2. Tracks(m.cmd, handle', command') /\ m.cmd \in DOMAIN command'
      BY <1>2, <1>4, <1>9
    <2> QED
      BY <1>2, <1>4, <1>9, <2>1, <2>2, Settling
  <1> QED
    BY <1>1, <1>3, <1>7, <1>8, <1>9 DEF Apply, Write, WriteFails

\* What follows a look at a command.
LEMMA Following ==
    ASSUME NEW p \in Processes, NEW h, NEW cs, NEW m \in Locals, AfterFetch(p, m),
           h = handle', cs = command',
           m.applied = m.asked, m.asked \/ m.op \in {"status", "cancel"},
           m.cmd \in DOMAIN cs, m.sink => m.verb # "cd", m.op # "exec" => ~m.sink,
           m.op = "exec" /\ m.verb = "cd" =>
               /\ Tracks(m.cmd, h, cs)
               /\ m.tracked /\ Completes(m) => SavedOrLate(m.cmd, h, cs)
    PROVE  Moves(p)
  <1>1. CASE m.op # "cancel"
    <2>1. Settle(p, m)
      BY <1>1 DEF AfterFetch
    <2> QED
      BY <1>1, <2>1, Settling
  <1>2. CASE m.op = "cancel" /\ m.asked
    <2>1. End(p, m, "done") /\ "done" \in Words
      BY <1>2 DEF AfterFetch, Words
    <2> QED
      BY <1>2, <2>1, Ending
  <1>3. CASE m.op = "cancel" /\ ~m.asked
    <2>1. Go(p, "send", m)
      BY <1>3 DEF AfterFetch
    <2>2. Good("send", m, h, cs)
      BY <1>3 DEF Good, Honest, Follows, Labels
    <2> QED
      BY <2>1, <2>2, Going
  <1> QED
    BY <1>1, <1>2, <1>3

LEMMA FetchStep ==
    ASSUME Inv, NEW p \in Processes, Fetch(p)
    PROVE  Shared /\ Moves(p)
  <1>1. PICK m : m = self[p]
    OBVIOUS
  <1>2. /\ m \in Locals /\ Honest("fetch", m) /\ Follows("fetch", m, handle, command)
        /\ handle' = handle /\ command' = command
    BY <1>1, Knows DEF Fetch, service, local
  <1>3. Shared
    BY NothingShared DEF Fetch, service, local, Inv, Shapes
  <1>4. PICK n : n = [m EXCEPT !.state = command[m.cmd].state]
    OBVIOUS
  <1>5. Go(p, "observe", n)
    BY <1>1, <1>4 DEF Fetch
  <1>6. command[m.cmd] \in Commands
    BY <1>2 DEF Follows, Inv, Shapes
  <1>7. /\ n \in Locals /\ n.op = m.op /\ n.verb = m.verb /\ n.sink = m.sink
        /\ n.asked = m.asked /\ n.applied = m.applied /\ n.cmd = m.cmd
    BY <1>2, <1>4, <1>6 DEF Locals, Commands
  <1>8. Good("observe", n, handle', command')
    BY <1>2, <1>7 DEF Good, Honest, Follows, Labels
  <1> QED
    BY <1>3, <1>5, <1>8, Going

LEMMA FetchFailsStep ==
    ASSUME Inv, NEW p \in Processes, FetchFails(p)
    PROVE  Shared /\ Moves(p)
  BY NothingShared, Excusing DEF FetchFails, service, local, Inv, Shapes

LEMMA ObserveStep ==
    ASSUME Inv, NEW p \in Processes, Observe(p)
    PROVE  Shared /\ Moves(p)
  <1>1. PICK m : m = self[p]
    OBVIOUS
  <1>2. /\ m \in Locals /\ Honest("observe", m) /\ Follows("observe", m, handle, command)
        /\ UNCHANGED <<session, command, file, calls>>
    BY <1>1, Knows DEF Observe, service
  <1>3. PICK h : h = Moved(handle, m.cmd)
    OBVIOUS
  <1>5. /\ m.applied = m.asked /\ (m.asked \/ m.op \in {"status", "cancel"})
        /\ m.cmd \in DOMAIN command
        /\ (m.sink => m.verb # "cd") /\ (m.op # "exec" => ~m.sink)
        /\ (m.op = "exec" /\ m.verb = "cd" => Tracks(m.cmd, handle, command))
    BY <1>2 DEF Honest, Follows
  <1>6. Turns(handle, h, command) /\ (Tracks(m.cmd, handle, command) => SavedOrLate(m.cmd, h, command))
    BY <1>3, <1>5, Moving
  <1>7. Turns(handle, handle, command)
    BY DEF Inv, Dir, Turns
  <1>8. CASE handle' = h /\ AfterFetch(p, m)
    <2>1. Shared
      BY <1>2, <1>6, <1>8, TurningShared
    <2>2. m.op = "exec" /\ m.verb = "cd" => /\ Tracks(m.cmd, handle', command')
                                            /\ SavedOrLate(m.cmd, handle', command')
      BY <1>2, <1>5, <1>6, <1>8 DEF Tracks, SavedOrLate
    <2> QED
      BY <1>2, <1>5, <1>8, <2>1, <2>2, Following
  <1>9. CASE handle' \in {handle, h} /\ AfterFetch(p, [m EXCEPT !.tracked = FALSE])
    <2>1. Shared
      BY <1>2, <1>6, <1>7, <1>9, TurningShared
    <2>2. PICK n : n = [m EXCEPT !.tracked = FALSE]
      OBVIOUS
    <2>3. /\ n \in Locals /\ n.op = m.op /\ n.verb = m.verb /\ n.sink = m.sink
          /\ n.asked = m.asked /\ n.applied = m.applied /\ n.cmd = m.cmd /\ ~n.tracked
      BY <1>2, <2>2 DEF Locals
    <2>4. m.op = "exec" /\ m.verb = "cd" => Tracks(m.cmd, handle', command')
      BY <1>2, <1>5, <1>6, <1>9 DEF Tracks, SavedOrLate
    <2> QED
      BY <1>2, <1>5, <1>9, <2>1, <2>2, <2>3, <2>4, Following
  <1>10. CASE ~Completes(m) /\ handle' = handle /\ AfterFetch(p, m)
    <2>1. Shared
      BY <1>2, <1>7, <1>10, TurningShared
    <2> QED
      BY <1>2, <1>5, <1>10, <2>1, Following
  <1> QED
    BY <1>1, <1>3, <1>8, <1>9, <1>10 DEF Observe, Write, WriteFails

-----------------------------------------------------------------------------
(* The output, the end of a process, and the service *)

LEMMA SaveStep ==
    ASSUME Inv, NEW p \in Processes, Save(p)
    PROVE  Shared /\ Moves(p)
  <1>1. PICK m : m = self[p]
    OBVIOUS
  <1>2. /\ m \in Locals /\ Honest("save", m) /\ Follows("save", m, handle, command)
    BY <1>1, Knows DEF Save
  <1>3. UNCHANGED <<session, command, handle, calls>> /\ file' = m.cmd /\ End(p, m, "done")
    BY <1>1 DEF Save, Publish, service
  <1>4. Shared
    BY <1>2, <1>3, NothingShared DEF Locals, Inv, Shapes
  <1>5. m.applied = m.asked /\ (m.asked \/ m.op = "status") /\ "status" \notin Mutating
    BY <1>2 DEF Honest, Mutating
  <1>6. m.op \in Mutating => m.applied
    BY <1>5
  <1>7. ~Completes(m)
    BY <1>2 DEF Follows, Completes
  <1> QED
    BY <1>2, <1>3, <1>4, <1>6, <1>7, Ending DEF Words

LEMMA SaveFailsStep ==
    ASSUME Inv, NEW p \in Processes, SaveFails(p)
    PROVE  Shared /\ Moves(p)
  <1>1. PICK m : m = self[p]
    OBVIOUS
  <1>2. /\ m \in Locals /\ Honest("save", m) /\ Follows("save", m, handle, command)
    BY <1>1, Knows DEF SaveFails
  <1>3. /\ UNCHANGED <<session, command, handle, calls>> /\ file' \in {file, m.cmd}
        /\ End(p, m, "accepted")
    BY <1>1 DEF SaveFails, Publish, service
  <1>4. Shared
    BY <1>2, <1>3, NothingShared DEF Locals, Inv, Shapes
  <1>5. m.op \in Mutating => m.applied
    BY <1>2 DEF Honest, Mutating
  <1> QED
    BY <1>2, <1>3, <1>4, <1>5, Ending DEF Words

LEMMA CrashStep ==
    ASSUME Inv, NEW p \in Processes, Crash(p)
    PROVE  Shared /\ Moves(p)
  BY NothingShared, Failing DEF Crash, service, local, Inv, Shapes

\* The device only changes the state of a command.
LEMMA Progressing ==
    ASSUME Inv, NEW c, Progress(c)
    PROVE  handle' = handle /\ Grows(command, command') /\ Shared
  <1>1. PICK st \in CommandStates : command' = [command EXCEPT ![c].state = st]
    BY DEF Progress, CommandStates
  <1>2. /\ command \in Seq(Commands) /\ c \in DOMAIN command
        /\ DOMAIN command = 1..Len(command) /\ Len(command) \in Nat
    BY DEF Progress, Inv, Shapes
  <1>3. command[c] \in Commands
    BY <1>2
  <1>4. PICK d : d = [command[c] EXCEPT !.state = st]
    OBVIOUS
  <1>5. d \in Commands /\ d.verb = command[c].verb /\ d.at = command[c].at
    BY <1>3, <1>4 DEF Commands
  <1>6. command' = [command EXCEPT ![c] = d]
    BY <1>1, <1>4
  <1>7. command' \in Seq(Commands) /\ Len(command') = Len(command)
    BY <1>2, <1>5, <1>6, ExceptSeq
  <1>8. \A i \in DOMAIN command : command'[i] = IF i = c THEN d ELSE command[i]
    BY <1>2, <1>6
  <1>9. Grows(command, command')
    BY <1>2, <1>5, <1>7, <1>8 DEF Grows
  <1> QED
    BY <1>7, <1>9 DEF Progress, Inv, Shapes, Shared

LEMMA ProgressStep ==
    ASSUME Inv, NEW c, Progress(c)
    PROVE  Inv'
  BY Progressing, RestingKeepsInv DEF Progress

LEMMA SessionStep ==
    ASSUME Inv, Connected \/ Expires
    PROVE  Inv'
  <1>1. session' \in SessionStates /\ UNCHANGED <<command, handle, file, pc, self, calls>>
    BY DEF Connected, Expires, SessionStates
  <1> QED
    BY <1>1, RestingKeepsInv DEF Inv, Shapes, Shared, Grows

-----------------------------------------------------------------------------
(* The invariant *)

LEMMA InitInv == Init => Inv
  <1> SUFFICES ASSUME Init PROVE Inv
    OBVIOUS
  <1>1. Shapes
    BY DEF Init, Shapes, SessionStates, Labels, Blank, Locals, Ops, Reading, Mutating, Verbs,
           CommandStates, Words
  <1>2. handle \in Handles /\ handle.cwd = 0 /\ handle.pending = 0 /\ handle.stamp = 0
    <2>1. CASE handle = Unbound
      BY <2>1 DEF Unbound, Handles
    <2>2. CASE handle = [Unbound EXCEPT !.known = TRUE]
      BY <2>2 DEF Unbound, Handles
    <2> QED
      BY <2>1, <2>2 DEF Init
  <1>3. At(command, 0) = 0 /\ Len(command) = 0
    BY DEF Init, At
  <1>4. Dir(handle, command)
    BY <1>2, <1>3 DEF Dir
  <1>5. /\ Blank \in Locals /\ Blank.op = "status" /\ Blank.says = "none"
    BY DEF Blank, Locals, Ops, Reading, Mutating, Verbs, CommandStates, SessionStates, Words
  <1>6. Good("idle", Blank, handle, command)
    BY <1>5 DEF Good, Honest, Follows, Labels
  <1> QED
    BY <1>1, <1>4, <1>6 DEF Init, Inv

LEMMA NextInv == Inv /\ [Next]_vars => Inv'
  <1> SUFFICES ASSUME Inv, [Next]_vars PROVE Inv'
    OBVIOUS
  <1>1. ASSUME NEW p \in Processes,
               \/ Begin(p) \/ Inspect(p) \/ InspectFails(p) \/ Check(p) \/ CheckFails(p)
               \/ SendAnswered(p) \/ SendLost(p) \/ SendRefused(p) \/ Bind(p) \/ BindFails(p)
               \/ Mark(p) \/ Apply(p) \/ Fetch(p) \/ FetchFails(p) \/ Observe(p)
               \/ Save(p) \/ SaveFails(p) \/ Crash(p)
        PROVE  Shared /\ Moves(p)
    BY <1>1, BeginStep, InspectStep, InspectFailsStep, CheckStep, CheckFailsStep,
       SendAnsweredStep, SendLostStep, SendRefusedStep, BindStep, BindFailsStep, MarkStep,
       ApplyStep, FetchStep, FetchFailsStep, ObserveStep, SaveStep, SaveFailsStep, CrashStep
  <1>2. CASE UNCHANGED vars
    <2>1. UNCHANGED <<session, command, handle, file, pc, self, calls>>
      BY <1>2 DEF vars
    <2>2. Shared
      BY <2>1, NothingShared DEF Inv, Shapes
    <2> QED
      BY <2>1, <2>2, RestingKeepsInv
  <1> QED
    BY <1>1, <1>2, MovingKeepsInv, ProgressStep, SessionStep DEF Next

LEMMA InvAlways == Spec => []Inv
  BY InitInv, NextInv, PTL DEF Spec

\* The variables keep their types, for any number of processes and commands.
THEOREM TypeCorrect == Spec => []TypeOK
  <1>1. Inv => TypeOK
    BY DEF Inv, Shapes, Dir, TypeOK
  <1> QED
    BY <1>1, InvAlways, PTL

\* What an invocation says of its request is true.
THEOREM VerdictsTrue == Spec => []VerdictsAreTrue
  <1>1. Inv => VerdictsAreTrue
    BY DEF Inv, Good, Honest, VerdictsAreTrue
  <1> QED
    BY <1>1, InvAlways, PTL

\* A completed cd has its directory saved or was overtaken.
THEOREM CompletedSaved == Spec => []CompletedIsSaved
  <1>1. Inv => CompletedIsSaved
    BY DEF Inv, Good, Follows, SavedOrLate, Overtaken, At, Time, CompletedIsSaved
  <1> QED
    BY <1>1, InvAlways, PTL

-----------------------------------------------------------------------------
(* What a step may not do *)

\* A turn of the handle never takes the directory back.
LEMMA TurningForward ==
    ASSUME NEW cs \in Seq(Commands), NEW h, NEW g, Dir(h, cs), Turns(h, g, cs)
    PROVE  At(cs, g.cwd) >= At(cs, h.cwd)
  <1>1. At(cs, h.cwd) \in Nat /\ At(cs, g.cwd) \in Nat /\ DOMAIN cs = 1..Len(cs)
    BY TimesAreNumbers
  <1>2. CASE g.cwd = h.cwd
    BY <1>1, <1>2
  <1>3. CASE g.cwd = h.pending /\ h.pending \in DOMAIN cs
    BY <1>1, <1>3 DEF Dir
  <1> QED
    BY <1>2, <1>3 DEF Turns

\* Every step shares what it changes in one of the ways of Shared.
LEMMA NextShared ==
    ASSUME Inv, Next
    PROVE  \/ handle' = handle /\ Grows(command, command')
           \/ command' = command /\ Turns(handle, handle', command)
  <1>1. ASSUME NEW p \in Processes,
               \/ Begin(p) \/ Inspect(p) \/ InspectFails(p) \/ Check(p) \/ CheckFails(p)
               \/ SendAnswered(p) \/ SendLost(p) \/ SendRefused(p) \/ Bind(p) \/ BindFails(p)
               \/ Mark(p) \/ Apply(p) \/ Fetch(p) \/ FetchFails(p) \/ Observe(p)
               \/ Save(p) \/ SaveFails(p) \/ Crash(p)
        PROVE  Shared
    BY <1>1, BeginStep, InspectStep, InspectFailsStep, CheckStep, CheckFailsStep,
       SendAnsweredStep, SendLostStep, SendRefusedStep, BindStep, BindFailsStep, MarkStep,
       ApplyStep, FetchStep, FetchFailsStep, ObserveStep, SaveStep, SaveFailsStep, CrashStep
  <1>2. ASSUME NEW c \in 1..MaxCommands, Progress(c)
        PROVE  handle' = handle /\ Grows(command, command')
    BY <1>2, Progressing
  <1>3. CASE Connected \/ Expires
    BY <1>3 DEF Connected, Expires, Inv, Shapes, Grows
  <1> QED
    BY <1>1, <1>2, <1>3 DEF Next, Shared

\* The saved directory never goes back to the result of an older cd.
THEOREM NoRewind == Spec => CwdNeverRewinds
  <1>1. Inv /\ [Next]_vars => [Time(handle'.cwd) >= Time(handle.cwd)]_vars
    <2> SUFFICES ASSUME Inv, Next
                 PROVE  Time(handle'.cwd) >= Time(handle.cwd)
      OBVIOUS
    <2>1. \A c : Time(c) = At(command, c)
      BY DEF Time, At
    <2>2. command \in Seq(Commands) /\ Dir(handle, command)
      BY DEF Inv, Shapes
    <2>3. CASE handle' = handle
      BY <2>1, <2>2, <2>3, TimesAreNumbers
    <2>4. CASE Turns(handle, handle', command)
      BY <2>1, <2>2, <2>4, TurningForward
    <2> QED
      BY <2>3, <2>4, NextShared
  <1> QED
    BY <1>1, InvAlways, PTL DEF Spec, CwdNeverRewinds

\* Only a process that saves touches the output.
LEMMA OnlySavingWrites ==
    ASSUME Next
    PROVE  \/ file' = file
           \/ \E p \in Processes : pc[p] = "save" /\ Publish(self[p])
  <1>1. ASSUME NEW p \in Processes,
               \/ Begin(p) \/ Inspect(p) \/ InspectFails(p) \/ Check(p) \/ CheckFails(p)
               \/ SendAnswered(p) \/ SendLost(p) \/ SendRefused(p) \/ Bind(p) \/ BindFails(p)
               \/ Mark(p) \/ Apply(p) \/ Fetch(p) \/ FetchFails(p) \/ Observe(p)
               \/ Crash(p)
        PROVE  file' = file
    BY <1>1 DEF Begin, Inspect, InspectFails, Check, CheckFails, SendAnswered, SendLost,
                SendRefused, Bind, BindFails, Mark, Apply, Fetch, FetchFails, Observe, Crash, local
  <1>2. ASSUME NEW p \in Processes, Save(p) \/ SaveFails(p)
        PROVE  file' = file \/ (pc[p] = "save" /\ Publish(self[p]))
    BY <1>2 DEF Save, SaveFails
  <1>3. ASSUME NEW c \in 1..MaxCommands, Progress(c)
        PROVE  file' = file
    BY <1>3 DEF Progress
  <1>4. CASE Connected \/ Expires
    BY <1>4 DEF Connected, Expires
  <1> QED
    BY <1>1, <1>2, <1>3, <1>4 DEF Next

\* A saved output is only replaced by a process that was told to.
THEOREM OutputStays == Spec => OutputIsKept
  <1>1. [Next]_vars =>
          [file # 0 => file' = file \/ \E p \in Processes : pc[p] = "save" /\ self[p].force]_vars
    BY OnlySavingWrites DEF Publish
  <1> QED
    BY <1>1, PTL DEF Spec, OutputIsKept

-----------------------------------------------------------------------------
(***************************************************************************)
(* Theorems about LiveResponseAliases, for any number of processes,        *)
(* sessions and operations.  The inductive invariant says that the         *)
(* registry, when it is there, and the copy that the holder of its lock    *)
(* works on are everything issued so far, and that the registry can only   *)
(* be missing unnoticed when nothing was issued.                           *)
(***************************************************************************)

\* The losses that the marker or the registry itself outlives.
LossSafe == "registry" \notin Losses \/ ("marker" \notin Losses /\ LegacyBindings = {})

OneEach == \A x, y \in issued : x.alias = y.alias \/ x.session = y.session => x = y

MissingIsEmpty == "registry" \notin Losses => (registry = NoFile => issued = {})

AnswersIssued == told \cup resolved \subseteq issued

Global == RegistryKeepsAll /\ OneEach /\ MissingIsEmpty /\ LossIsNoticed /\ AnswersIssued

Unassigned == {"idle", "find", "adoptFind"}
Holding == {"mark", "publish", "verify"}

CopyIsIssued(q) ==
    /\ task[q].copy.bindings = issued
    /\ \A b \in issued : b.alias < task[q].copy.next

Local(q) ==
    /\ phase[q] \notin Unassigned => task[q].session \in Sessions
    /\ phase[q] \notin Unassigned \cup {"load"} => task[q].machine \in Machines
    /\ phase[q] \notin Unassigned \cup {"load", "lockAlias"} /\ task[q].kind # "remember"
          => task[q].held \in Handle
    /\ phase[q] \in Holding => registryLock = q /\ CopyIsIssued(q)
    /\ phase[q] = "publish" => /\ task[q].copy.next \in Aliases
                               /\ \A b \in issued : b.session # task[q].session
                               /\ "marker" \notin Losses => marker
    /\ phase[q] = "verify" \/ (phase[q] = "save" /\ task[q].kind # "remember")
          => Answered(q) \in issued

IInv == AliasTypeOK /\ LossSafe /\ Global /\ \A q \in Peers : Local(q)

LEMMA Empties == NoRegistry \in Registry /\ NoTask \in Task
  BY AliasAssumption DEF NoRegistry, NoTask, Registry, Task, NoAlias

\* A registry that is read and not refused holds exactly what was issued.
LEMMA StateIsIssued ==
  ASSUME IInv, ~Refused
  PROVE  /\ State \in Registry
         /\ State.bindings = issued
         /\ \A b \in issued : b.alias < State.next
  <1>1. CASE registry # NoFile
    BY <1>1 DEF IInv, AliasTypeOK, Global, RegistryKeepsAll, State
  <1>2. CASE registry = NoFile
    <2>1. issued = {}
      BY <1>2 DEF IInv, LossSafe, Global, MissingIsEmpty, LossIsNoticed, Refused
    <2>2. State = NoRegistry
      BY <1>2 DEF State
    <2> QED BY <2>1, <2>2, Empties DEF NoRegistry
  <1> QED BY <1>1, <1>2

LEMMA FinishTyped ==
  ASSUME AliasTypeOK, NEW p \in Peers, Finish(p)
  PROVE  /\ phase' \in [Peers -> Pc] /\ task' \in [Peers -> Task]
         /\ sessionLock' \in [Sessions -> Peers \cup {NoOne}]
         /\ registryLock' \in Peers \cup {NoOne}
  BY Empties DEF AliasTypeOK, Finish, Unlocked, FreedBy, Pc

LEMMA ContinueTyped ==
  ASSUME AliasTypeOK, NEW p \in Peers, NEW step \in Pc, NEW t \in Task, Continue(p, step, t)
  PROVE  phase' \in [Peers -> Pc] /\ task' \in [Peers -> Task]
  BY DEF AliasTypeOK, Continue

\* A step that leaves a process and the book alone, and does not take the lock or
\* the marker from it, leaves its part of the invariant alone.
LEMMA OtherKept ==
  ASSUME NEW q \in Peers, Local(q),
         phase'[q] = phase[q], task'[q] = task[q], issued' = issued,
         registryLock = q => registryLock' = q,
         "marker" \notin Losses /\ marker => marker'
  PROVE  Local(q)'
  BY DEF Local, CopyIsIssued, Answered

\* A process that has finished is under no obligation, and frees nobody else's lock.
LEMMA FinishLocal ==
  ASSUME IInv, NEW p \in Peers, Finish(p), issued' = issued,
         "marker" \notin Losses /\ marker => marker'
  PROVE  \A q \in Peers : Local(q)'
  <1> TAKE q \in Peers
  <1>1. CASE q = p
    BY <1>1 DEF IInv, AliasTypeOK, Finish, Local, Unassigned, Holding
  <1>2. CASE q # p
    <2>1. phase'[q] = phase[q] /\ task'[q] = task[q] /\ (registryLock = q => registryLock' = q)
      BY <1>2 DEF IInv, AliasTypeOK, Finish, FreedBy
    <2> QED BY <2>1, OtherKept DEF IInv
  <1> QED BY <1>1, <1>2

\* A process that goes on owes only its own part.
LEMMA ContinueLocal ==
  ASSUME IInv, NEW p \in Peers, NEW step, NEW t, Continue(p, step, t),
         issued' = issued, Local(p)',
         "marker" \notin Losses /\ marker => marker',
         registryLock' = registryLock \/ registryLock \in {p, NoOne}
  PROVE  \A q \in Peers : Local(q)'
  <1> TAKE q \in Peers
  <1>1. CASE q = p
    BY <1>1
  <1>2. CASE q # p
    <2>1. phase'[q] = phase[q] /\ task'[q] = task[q] /\ (registryLock = q => registryLock' = q)
      BY <1>2, AliasAssumption DEF IInv, AliasTypeOK, Continue
    <2> QED BY <2>1, OtherKept DEF IInv
  <1> QED BY <1>1, <1>2

\* Nothing global depends on the handles, the locks or the processes.
LEMMA GlobalKept ==
  ASSUME Global, UNCHANGED <<registry, history>>, marker => marker'
  PROVE  Global'
  BY DEF Global, RegistryKeepsAll, OneEach, MissingIsEmpty, LossIsNoticed, AnswersIssued, history

\* What is read from the registry.
LEMMA UseStateKept ==
  ASSUME IInv, NEW p \in Peers, ~Refused, UseState(p),
         phase[p] \in {"find", "lookup", "adoptFind", "adoptLookup"},
         UNCHANGED <<issued>>, marker => marker'
  PROVE  /\ phase' \in [Peers -> Pc] /\ task' \in [Peers -> Task]
         /\ sessionLock' \in [Sessions -> Peers \cup {NoOne}]
         /\ registryLock' \in Peers \cup {NoOne}
         /\ \A q \in Peers : Local(q)'
  <1>0. AliasTypeOK /\ task[p] \in Task /\ State.bindings = issued /\ issued \subseteq Binding
    BY StateIsIssued DEF IInv, AliasTypeOK
  <1>1. CASE Finish(p)
    BY <1>0, <1>1, FinishTyped, FinishLocal
  <1>2. CASE /\ phase[p] \in {"find", "adoptFind"}
             /\ \E b \in issued : Continue(p, "load",
                  [task[p] EXCEPT !.session = b.session, !.machine = b.machine])
             /\ UNCHANGED locks
    <2>1. PICK b \in issued : Continue(p, "load",
                  [task[p] EXCEPT !.session = b.session, !.machine = b.machine])
      BY <1>2
    <2> DEFINE t == [task[p] EXCEPT !.session = b.session, !.machine = b.machine]
    <2>2. b \in Binding /\ t \in Task /\ "load" \in Pc
      BY <1>0 DEF Task, Binding, Pc
    <2>3. Local(p)'
      BY <1>0, <2>1, <2>2 DEF AliasTypeOK, Continue, Local, Unassigned, Holding, Binding, Task
    <2> QED BY <1>0, <1>2, <2>1, <2>2, <2>3, ContinueTyped, ContinueLocal DEF locks, AliasTypeOK
  <1>3. CASE /\ phase[p] \in {"lookup", "adoptLookup"}
             /\ Continue(p, "assign", task[p]) /\ UNCHANGED locks
    <2>1. "assign" \in Pc
      BY DEF Pc
    <2>2. Local(p)'
      BY <1>0, <1>3 DEF IInv, AliasTypeOK, Continue, Local, Unassigned, Holding
    <2> QED BY <1>0, <1>3, <2>1, <2>2, ContinueTyped, ContinueLocal DEF locks, AliasTypeOK
  <1>4. CASE /\ phase[p] \in {"lookup", "adoptLookup"}
             /\ \E b \in OfSession(State, task[p].session) :
                   /\ b.machine = task[p].machine
                   /\ Continue(p, "save", [task[p] EXCEPT !.found = b.alias])
             /\ UNCHANGED locks
    <2>1. PICK b \in issued : /\ b.session = task[p].session /\ b.machine = task[p].machine
                              /\ Continue(p, "save", [task[p] EXCEPT !.found = b.alias])
      BY <1>0, <1>4 DEF OfSession
    <2>2. b \in Binding /\ [task[p] EXCEPT !.found = b.alias] \in Task /\ "save" \in Pc
      BY <1>0 DEF Task, Binding, Pc
    <2>3. task'[p] = [task[p] EXCEPT !.found = b.alias] /\ phase'[p] = "save"
      BY <1>0, <2>1 DEF AliasTypeOK, Continue
    <2>4. Answered(p)' = b
      BY <1>0, <2>1, <2>2, <2>3 DEF Answered, Binding, Task
    <2>5. Local(p)'
      BY <1>0, <1>4, <2>1, <2>3, <2>4 DEF IInv, Local, Unassigned, Holding, Task
    <2> QED BY <1>0, <1>4, <2>1, <2>2, <2>5, ContinueTyped, ContinueLocal DEF locks, AliasTypeOK
  <1> QED
    <2>1. CASE phase[p] \in {"find", "adoptFind"}
      BY <2>1, <1>0, <1>1, <1>2 DEF UseState, UseBinding, OfAlias
    <2>2. CASE phase[p] \notin {"find", "adoptFind"}
      BY <2>2, <1>1, <1>3, <1>4 DEF UseState, UseAlias
    <2> QED BY <2>1, <2>2
-----------------------------------------------------------------------------
(* One lemma per action.                                                   *)

LEMMA RememberKept ==
  ASSUME IInv, NEW p \in Peers, NEW s \in Sessions, NEW m \in Machines, Remember(p, s, m)
  PROVE  IInv'
  <1> DEFINE t == [NoTask EXCEPT !.kind = "remember", !.session = s, !.machine = m,
                                 !.held = handles[s]]
  <1>0. AliasTypeOK /\ Global /\ t \in Task /\ handles[s] \in Handle \cup {NoFile}
    BY Empties DEF IInv, AliasTypeOK, NoTask, Task
  <1>1. \/ Continue(p, "idle", NoTask) /\ UNCHANGED sessionLock
        \/ Continue(p, "assign", t) /\ sessionLock' = [sessionLock EXCEPT ![s] = p]
    BY DEF Remember, BeginOperation
  <1>2. UNCHANGED <<files, registryLock, history, lost>> /\ ops' \in 0..MaxOps
    BY <1>0, AliasAssumption DEF Remember, BeginOperation, AliasTypeOK
  <1>3. Global'
    BY <1>0, <1>2, GlobalKept DEF files
  <1>4. CASE Continue(p, "idle", NoTask) /\ UNCHANGED sessionLock
    <2>1. Local(p)'
      BY <1>0, <1>4 DEF AliasTypeOK, Continue, Local, Unassigned, Holding
    <2>2. \A q \in Peers : Local(q)'
      BY <1>2, <1>4, <2>1, ContinueLocal DEF files, history
    <2>3. AliasTypeOK'
      BY <1>0, <1>2, <1>4, Empties DEF AliasTypeOK, Continue, files, history, Pc
    <2> QED BY <1>3, <2>2, <2>3 DEF IInv
  <1>5. CASE Continue(p, "assign", t) /\ sessionLock' = [sessionLock EXCEPT ![s] = p]
    <2>1. Local(p)'
      BY <1>0, <1>5 DEF AliasTypeOK, Continue, Local, Unassigned, Holding, NoTask
    <2>2. \A q \in Peers : Local(q)'
      BY <1>2, <1>5, <2>1, ContinueLocal DEF files, history
    <2>3. AliasTypeOK'
      BY <1>0, <1>2, <1>5 DEF AliasTypeOK, Continue, files, history, Pc
    <2> QED BY <1>3, <2>2, <2>3 DEF IInv
  <1> QED BY <1>1, <1>4, <1>5

LEMMA ShowKept ==
  ASSUME IInv, NEW p \in Peers, NEW s \in Sessions, Show(p, s)
  PROVE  IInv'
  <1> DEFINE t == [NoTask EXCEPT !.session = s]
  <1>0. AliasTypeOK /\ Global /\ t \in Task /\ Continue(p, "load", t)
    BY Empties DEF IInv, NoTask, Task, Show, BeginOperation
  <1>1. UNCHANGED <<files, locks, history, lost>> /\ ops' \in 0..MaxOps
    BY <1>0, AliasAssumption DEF Show, BeginOperation, AliasTypeOK
  <1>2. Local(p)'
    BY <1>0 DEF AliasTypeOK, Continue, Local, Unassigned, Holding, NoTask
  <1>3. \A q \in Peers : Local(q)'
    BY <1>0, <1>1, <1>2, ContinueLocal DEF files, history, locks
  <1>4. AliasTypeOK' /\ Global'
    BY <1>0, <1>1, GlobalKept DEF AliasTypeOK, Continue, files, history, locks, Pc
  <1> QED BY <1>3, <1>4 DEF IInv

LEMMA ResolveKept ==
  ASSUME IInv, NEW p \in Peers, NEW a \in Aliases, Resolve(p, a)
  PROVE  IInv'
  <1> DEFINE t == [NoTask EXCEPT !.kind = "resolve", !.wanted = a]
  <1>0. AliasTypeOK /\ Global /\ t \in Task /\ Continue(p, "find", t)
    BY Empties DEF IInv, NoTask, Task, Resolve, BeginOperation
  <1>1. UNCHANGED <<files, locks, history, lost>> /\ ops' \in 0..MaxOps
    BY <1>0, AliasAssumption DEF Resolve, BeginOperation, AliasTypeOK
  <1>2. Local(p)'
    BY <1>0 DEF AliasTypeOK, Continue, Local, Unassigned, Holding
  <1>3. \A q \in Peers : Local(q)'
    BY <1>0, <1>1, <1>2, ContinueLocal DEF files, history, locks
  <1>4. AliasTypeOK' /\ Global'
    BY <1>0, <1>1, GlobalKept DEF AliasTypeOK, Continue, files, history, locks, Pc
  <1> QED BY <1>3, <1>4 DEF IInv

\* An operation that gives up having changed at most the handles and the marker.
LEMMA GivesUp ==
  ASSUME IInv, NEW p \in Peers, Finish(p), UNCHANGED <<registry, history, ops, lost>>,
         handles' \in [Sessions -> Handle \cup {NoFile}],
         marker' \in BOOLEAN, marker => marker'
  PROVE  IInv'
  <1>1. Global' /\ AliasTypeOK'
    BY FinishTyped, GlobalKept DEF IInv, AliasTypeOK, history
  <1>2. \A q \in Peers : Local(q)'
    BY FinishLocal DEF history
  <1> QED BY <1>1, <1>2 DEF IInv

LEMMA ReadKept ==
  ASSUME IInv, NEW p \in Peers, Read(p)
  PROVE  IInv'
  <1>0. /\ AliasTypeOK /\ Global /\ task[p] \in Task
        /\ UNCHANGED <<registry, marker, handles, history, ops, lost>>
    BY DEF IInv, AliasTypeOK, Read, files
  <1>1. CASE Finish(p)
    BY <1>0, <1>1, GivesUp DEF AliasTypeOK
  <1>2. CASE /\ Continue(p, IF phase[p] = "find" THEN "adoptFind" ELSE "adoptLookup", task[p])
             /\ UNCHANGED locks
    <2>1. Local(p)'
      BY <1>0, <1>2 DEF IInv, AliasTypeOK, Read, Continue, Local, Unassigned, Holding
    <2>2. \A q \in Peers : Local(q)'
      BY <1>0, <1>2, <2>1, ContinueLocal DEF history, locks
    <2>3. AliasTypeOK' /\ Global'
      BY <1>0, <1>2, GlobalKept DEF AliasTypeOK, Continue, history, locks, Pc
    <2> QED BY <2>2, <2>3 DEF IInv
  <1>3. CASE ~Refused /\ UseState(p)
    <2>1. /\ phase' \in [Peers -> Pc] /\ task' \in [Peers -> Task]
          /\ sessionLock' \in [Sessions -> Peers \cup {NoOne}]
          /\ registryLock' \in Peers \cup {NoOne}
          /\ \A q \in Peers : Local(q)'
      BY <1>0, <1>3, UseStateKept DEF Read, history
    <2>2. AliasTypeOK' /\ Global'
      BY <1>0, <2>1, GlobalKept DEF AliasTypeOK, history
    <2> QED BY <2>1, <2>2 DEF IInv
  <1> QED BY <1>1, <1>2, <1>3 DEF Read

LEMMA AdoptKept ==
  ASSUME IInv, NEW p \in Peers, NEW outcome, Adopt(p, outcome)
  PROVE  IInv'
  <1>0. /\ AliasTypeOK /\ Global
        /\ UNCHANGED <<registry, handles, history, ops, lost>>
        /\ marker' \in BOOLEAN /\ (marker => marker')
    BY DEF IInv, AliasTypeOK, Adopt
  <1>1. CASE Finish(p)
    BY <1>0, <1>1, GivesUp DEF AliasTypeOK
  <1>2. CASE registry # NoFile /\ UseState(p)
    <2>1. ~Refused
      BY <1>2 DEF Refused
    <2>2. /\ phase' \in [Peers -> Pc] /\ task' \in [Peers -> Task]
          /\ sessionLock' \in [Sessions -> Peers \cup {NoOne}]
          /\ registryLock' \in Peers \cup {NoOne}
          /\ \A q \in Peers : Local(q)'
      BY <1>0, <1>2, <2>1, UseStateKept DEF Adopt, history
    <2>3. AliasTypeOK' /\ Global'
      BY <1>0, <2>2, GlobalKept DEF AliasTypeOK, history
    <2> QED BY <2>2, <2>3 DEF IInv
  <1> QED BY <1>1, <1>2 DEF Adopt

LEMMA LoadKept ==
  ASSUME IInv, NEW p \in Peers, Load(p)
  PROVE  IInv'
  <1> DEFINE h == handles[task[p].session]
             t == [task[p] EXCEPT !.machine = h.machine]
  <1>0. /\ AliasTypeOK /\ Global /\ task[p] \in Task /\ task[p].session \in Sessions
        /\ UNCHANGED <<registry, marker, handles, history, ops, lost>>
    BY DEF IInv, AliasTypeOK, Load, files, Local, Unassigned
  <1>1. CASE Finish(p)
    BY <1>0, <1>1, GivesUp DEF AliasTypeOK
  <1>2. CASE h # NoFile /\ Continue(p, "lockAlias", t) /\ UNCHANGED locks
    <2>1. h \in Handle /\ t \in Task
      BY <1>0, <1>2 DEF AliasTypeOK, Handle, Task
    <2>2. phase'[p] = "lockAlias" /\ task'[p] = t
      BY <1>0, <1>2 DEF AliasTypeOK, Continue
    <2>3. Local(p)'
      BY <1>0, <2>1, <2>2 DEF Local, Unassigned, Holding, Handle, Task
    <2>4. \A q \in Peers : Local(q)'
      BY <1>0, <1>2, <2>3, ContinueLocal DEF history, locks
    <2>5. AliasTypeOK' /\ Global'
      BY <1>0, <1>2, <2>1, GlobalKept DEF AliasTypeOK, Continue, history, locks, Pc
    <2> QED BY <2>4, <2>5 DEF IInv
  <1> QED BY <1>1, <1>2 DEF Load

LEMMA LockAliasKept ==
  ASSUME IInv, NEW p \in Peers, LockAlias(p)
  PROVE  IInv'
  <1> DEFINE s == task[p].session
             t == [task[p] EXCEPT !.held = handles[s]]
  <1>0. /\ AliasTypeOK /\ Global /\ task[p] \in Task /\ s \in Sessions
        /\ task[p].machine \in Machines
        /\ UNCHANGED <<registry, marker, handles, history, ops, lost>>
    BY DEF IInv, AliasTypeOK, LockAlias, files, Local, Unassigned
  <1>1. CASE Finish(p)
    BY <1>0, <1>1, GivesUp DEF AliasTypeOK
  <1>2. CASE /\ handles[s] # NoFile /\ Continue(p, "lookup", t)
             /\ sessionLock' = [sessionLock EXCEPT ![s] = p] /\ UNCHANGED registryLock
    <2>1. handles[s] \in Handle /\ t \in Task
      BY <1>0, <1>2 DEF AliasTypeOK, Task
    <2>2. phase'[p] = "lookup" /\ task'[p] = t
      BY <1>0, <1>2 DEF AliasTypeOK, Continue
    <2>3. Local(p)'
      BY <1>0, <2>1, <2>2 DEF Local, Unassigned, Holding, Task
    <2>4. \A q \in Peers : Local(q)'
      BY <1>0, <1>2, <2>3, ContinueLocal DEF history
    <2>5. AliasTypeOK' /\ Global'
      BY <1>0, <1>2, <2>1, GlobalKept DEF AliasTypeOK, Continue, history, Pc
    <2> QED BY <2>4, <2>5 DEF IInv
  <1> QED BY <1>1, <1>2 DEF LockAlias

\* Giving up an assignment: as for giving up an operation, or on to remembering the
\* session without an alias.
LEMMA AssignFailsKept ==
  ASSUME IInv, NEW p \in Peers, AssignFails(p), Global', UNCHANGED <<handles, ops, lost>>,
         phase[p] \in {"assign"} \cup Holding,
         registry' \in Registry \cup {NoFile}, marker' \in BOOLEAN,
         issued' \subseteq Binding, told' = told, resolved' = resolved,
         "marker" \notin Losses /\ marker => marker',
         issued' = issued \/ (registryLock = p /\ issued \subseteq issued')
  PROVE  IInv'
  <1>0. AliasTypeOK /\ task[p] \in Task
    BY DEF IInv, AliasTypeOK
  <1>1. /\ phase' \in [Peers -> Pc] /\ task' \in [Peers -> Task]
        /\ sessionLock' \in [Sessions -> Peers \cup {NoOne}]
        /\ registryLock' \in Peers \cup {NoOne}
    <2>1. CASE Finish(p)
      BY <1>0, <2>1, FinishTyped
    <2>2. CASE task[p].kind = "remember"
      <3>1. [task[p] EXCEPT !.copy = NoRegistry, !.found = NoAlias] \in Task
        BY <1>0, Empties DEF Task
      <3> QED BY <1>0, <2>2, <3>1 DEF AssignFails, Continue, FreedBy, AliasTypeOK, Pc
    <2> QED BY <2>1, <2>2 DEF AssignFails
  <1>2. Local(p)'
    <2>1. CASE Finish(p)
      BY <1>0, <2>1 DEF AliasTypeOK, Finish, Local, Unassigned, Holding
    <2>2. CASE task[p].kind = "remember"
      <3>1. phase'[p] = "save" /\ task'[p] = [task[p] EXCEPT !.copy = NoRegistry, !.found = NoAlias]
        BY <1>0, <2>2 DEF AssignFails, Continue, AliasTypeOK
      <3>2. task[p].session \in Sessions /\ task[p].machine \in Machines
        BY DEF IInv, Local, Unassigned, Holding
      <3> QED BY <1>0, <2>2, <3>1, <3>2 DEF Local, Unassigned, Holding, Task
    <2> QED BY <2>1, <2>2 DEF AssignFails
  <1>3. ASSUME NEW q \in Peers, q # p PROVE Local(q)'
    <2>1. phase'[q] = phase[q] /\ task'[q] = task[q] /\ (registryLock = q => registryLock' = q)
      BY <1>0, <1>3 DEF AssignFails, Finish, Continue, FreedBy, AliasTypeOK
    <2>2. CASE issued' = issued
      BY <2>1, <2>2, <1>3, OtherKept DEF IInv
    <2>3. CASE registryLock = p /\ issued \subseteq issued'
      <3>1. phase[q] \notin Holding /\ Local(q)
        BY <1>3, <2>3 DEF IInv, Local
      <3> QED BY <2>1, <2>3, <3>1 DEF Local, Holding, Answered
    <2> QED BY <2>2, <2>3
  <1>4. AliasTypeOK'
    BY <1>0, <1>1 DEF AliasTypeOK
  <1> QED BY <1>2, <1>3, <1>4 DEF IInv

\* An alias the registry has is carried to where it is saved.
LEMMA AssignedKept ==
  ASSUME IInv, NEW p \in Peers, NEW b \in issued, Assigned(p, b.alias),
         phase[p] \in Holding, b.session = task[p].session, b.machine = task[p].machine,
         UNCHANGED <<registry, handles, history, ops, lost>>,
         marker' \in BOOLEAN, marker => marker'
  PROVE  IInv'
  <1> DEFINE t == [task[p] EXCEPT !.copy = NoRegistry, !.found = b.alias]
  <1>0. AliasTypeOK /\ Global /\ task[p] \in Task /\ b \in Binding /\ t \in Task /\ registryLock = p
    BY Empties DEF IInv, AliasTypeOK, Task, Binding, Local
  <1>1. phase'[p] = "save" /\ task'[p] = t
    BY <1>0 DEF Assigned, Continue, AliasTypeOK
  <1>2. Answered(p)' = b
    BY <1>0, <1>1 DEF Answered, Task, Binding
  <1>3. Local(p)'
    BY <1>0, <1>1, <1>2 DEF IInv, Local, Unassigned, Holding, Task, history
  <1>4. \A q \in Peers : Local(q)'
    BY <1>0, <1>3, ContinueLocal DEF Assigned, history
  <1>5. AliasTypeOK' /\ Global'
    BY <1>0, GlobalKept DEF AliasTypeOK, Assigned, Continue, history, Pc
  <1> QED BY <1>4, <1>5 DEF IInv

LEMMA AssignKept ==
  ASSUME IInv, NEW p \in Peers, Assign(p)
  PROVE  IInv'
  <1>0. /\ AliasTypeOK /\ Global /\ task[p] \in Task
        /\ UNCHANGED <<registry, marker, handles, history, ops, lost>>
    BY DEF IInv, AliasTypeOK, Assign, files
  <1>1. Global'
    BY <1>0, GlobalKept
  <1>2. CASE AssignFails(p)
    BY <1>0, <1>1, <1>2, AssignFailsKept DEF AliasTypeOK, Assign, history
  <1>3. CASE /\ ~Refused /\ Continue(p, "mark", [task[p] EXCEPT !.copy = State])
             /\ registryLock' = p /\ UNCHANGED sessionLock
    <2> DEFINE t == [task[p] EXCEPT !.copy = State]
    <2>1. t \in Task
      BY <1>0, <1>3, StateIsIssued DEF Task
    <2>2. phase'[p] = "mark" /\ task'[p] = t
      BY <1>0, <1>3 DEF Continue, AliasTypeOK
    <2>3. CopyIsIssued(p)'
      BY <1>0, <1>3, <2>2, StateIsIssued DEF CopyIsIssued, history, Task
    <2>4. Local(p)'
      BY <1>0, <1>3, <2>2, <2>3 DEF IInv, Assign, Local, Unassigned, Holding, Task
    <2>5. \A q \in Peers : Local(q)'
      <3>1. /\ Continue(p, "mark", t) /\ issued' = issued /\ marker' = marker
            /\ registryLock \in {p, NoOne}
        BY <1>0, <1>3 DEF history, Assign
      <3> HIDE DEF t
      <3> QED BY <2>4, <3>1, ContinueLocal
    <2>6. AliasTypeOK'
      BY <1>0, <1>3, <2>1 DEF AliasTypeOK, Continue, history, Pc
    <2> QED BY <1>1, <2>5, <2>6 DEF IInv
  <1> QED BY <1>2, <1>3 DEF Assign

LEMMA EnsureMarkerKept ==
  ASSUME IInv, NEW p \in Peers, NEW outcome, EnsureMarker(p, outcome)
  PROVE  IInv'
  <1> DEFINE mine == OfSession(task[p].copy, task[p].session)
  <1>0. /\ AliasTypeOK /\ Global /\ task[p] \in Task /\ phase[p] = "mark"
        /\ UNCHANGED <<registry, handles, history, ops, lost>>
        /\ marker' \in BOOLEAN /\ (marker => marker')
    BY DEF IInv, AliasTypeOK, EnsureMarker
  <1>1. Global'
    BY <1>0, GlobalKept
  <1>2. CopyIsIssued(p) /\ registryLock = p
    BY <1>0 DEF IInv, Local, Holding
  <1>3. CASE AssignFails(p)
    BY <1>0, <1>1, <1>3, AssignFailsKept DEF AliasTypeOK, Holding, history
  <1>4. CASE \E b \in mine : b.machine = task[p].machine /\ Assigned(p, b.alias)
    <2>1. PICK b \in issued : /\ b.session = task[p].session /\ b.machine = task[p].machine
                              /\ Assigned(p, b.alias)
      BY <1>2, <1>4 DEF OfSession, CopyIsIssued
    <2> QED BY <1>0, <2>1, AssignedKept DEF Holding
  <1>5. CASE /\ mine = {} /\ ~(task[p].copy.next > MaxAlias) /\ marker'
             /\ Continue(p, "publish", task[p]) /\ UNCHANGED locks
    <2>1. task[p].copy.next \in Aliases
      BY <1>0, <1>5, AliasAssumption DEF Task, Registry, Aliases
    <2>2. \A b \in issued : b.session # task[p].session
      BY <1>2, <1>5 DEF OfSession, CopyIsIssued
    <2>3. Local(p)'
      BY <1>0, <1>2, <1>5, <2>1, <2>2
      DEF IInv, AliasTypeOK, Continue, Local, CopyIsIssued, Unassigned, Holding, history, locks
    <2>4. \A q \in Peers : Local(q)'
      BY <1>0, <1>5, <2>3, ContinueLocal DEF history, locks
    <2>5. AliasTypeOK'
      BY <1>0, <1>5 DEF AliasTypeOK, Continue, history, locks, Pc
    <2> QED BY <1>1, <2>4, <2>5 DEF IInv
  <1>6. outcome # "ok" /\ ~marker => AssignFails(p)
    BY DEF EnsureMarker
  <1>7. outcome = "ok" \/ marker => marker'
    BY DEF EnsureMarker
  <1> QED BY <1>3, <1>4, <1>5, <1>6, <1>7 DEF EnsureMarker

LEMMA PublishKept ==
  ASSUME IInv, NEW p \in Peers, NEW outcome, PublishRegistry(p, outcome)
  PROVE  IInv'
  <1> DEFINE b == NewBinding(p)
             r == Extended(task[p].copy, b)
             t == [task[p] EXCEPT !.copy = r, !.found = task[p].copy.next]
  <1>0. /\ AliasTypeOK /\ Global /\ task[p] \in Task /\ phase[p] = "publish" /\ registryLock = p
        /\ UNCHANGED <<marker, handles, told, resolved, ops, lost>>
        /\ CopyIsIssued(p) /\ task[p].copy.next \in Aliases
        /\ \A x \in issued : x.session # task[p].session
        /\ "marker" \notin Losses => marker
    BY DEF IInv, AliasTypeOK, PublishRegistry, Local, Holding
  <1>1. b \in Binding
    BY <1>0 DEF IInv, Local, Unassigned, NewBinding, Binding
  <1>2. /\ r \in Registry /\ r.bindings = issued \cup {b}
        /\ \A x \in issued \cup {b} : x.alias < r.next
    <2>1. r.next = b.alias + 1 /\ b.alias \in Aliases /\ b.alias = task[p].copy.next
      BY <1>0, <1>1 DEF Extended, NewBinding
    <2>2. r.bindings = issued \cup {b}
      BY <1>0 DEF Extended, CopyIsIssued
    <2>3. r \in Registry
      <3>1. r.next \in 1..(MaxAlias + 1)
        BY <2>1, AliasAssumption DEF Aliases
      <3>2. r.bindings \in SUBSET Binding
        BY <1>0, <1>1, <2>2 DEF AliasTypeOK
      <3>3. r = [next |-> r.next, bindings |-> r.bindings]
        BY DEF Extended
      <3> QED BY <3>1, <3>2, <3>3 DEF Registry
    <2>4. \A x \in issued : x.alias < b.alias /\ x.alias \in Aliases
      BY <1>0, <2>1 DEF CopyIsIssued, AliasTypeOK, Binding
    <2> QED BY <2>1, <2>2, <2>3, <2>4, AliasAssumption DEF Aliases
  <1>3. CASE outcome = "failed"
    <2>1. AssignFails(p) /\ UNCHANGED <<registry, history>>
      BY <1>0, <1>3 DEF PublishRegistry, history
    <2>2. Global'
      BY <1>0, <2>1, GlobalKept
    <2> QED BY <1>0, <2>1, <2>2, AssignFailsKept DEF AliasTypeOK, Holding, history
  <1>4. CASE outcome # "failed"
    <2>1. registry' = r /\ issued' = issued \cup {b} /\ issued' \subseteq Binding
      BY <1>0, <1>1, <1>4 DEF PublishRegistry, AliasTypeOK
    <2>2. RegistryKeepsAll'
      BY <1>2, <2>1 DEF RegistryKeepsAll
    <2>3. OneEach'
      <3>1. \A x \in issued : x.alias # b.alias /\ x.session # b.session
        BY <1>0, AliasAssumption DEF CopyIsIssued, NewBinding, Aliases
      <3> QED BY <1>0, <2>1, <3>1 DEF Global, OneEach
    <2>4. registry' # NoFile
      BY <1>2, <2>1, AliasAssumption
    <2>5. Global'
      BY <1>0, <2>1, <2>2, <2>3, <2>4
      DEF Global, MissingIsEmpty, LossIsNoticed, AnswersIssued
    <2>6. CASE outcome = "ok"
      <3>1. Continue(p, "verify", t) /\ UNCHANGED locks
        BY <2>6 DEF PublishRegistry
      <3>2. t \in Task
        BY <1>0, <1>2 DEF Task
      <3>3. phase'[p] = "verify" /\ task'[p] = t
        BY <1>0, <3>1 DEF Continue, AliasTypeOK
      <3>4. Answered(p)' = b
        BY <1>0, <3>3 DEF Answered, NewBinding, Task
      <3>5. CopyIsIssued(p)'
        BY <1>0, <1>2, <2>1, <3>3 DEF CopyIsIssued, Task
      <3>6. Local(p)'
        BY <1>0, <2>1, <3>1, <3>3, <3>4, <3>5 DEF IInv, Local, Unassigned, Holding, Task, locks
      <3>7. ASSUME NEW q \in Peers, q # p PROVE Local(q)'
        <4>1. phase[q] \notin Holding /\ Local(q) /\ phase'[q] = phase[q] /\ task'[q] = task[q]
          BY <1>0, <3>1, <3>7 DEF IInv, Local, Continue, AliasTypeOK
        <4> QED BY <2>1, <4>1 DEF Local, Holding, Answered
      <3>8. AliasTypeOK'
        BY <1>0, <1>2, <2>1, <3>1, <3>2 DEF AliasTypeOK, Continue, locks, Pc
      <3> QED BY <2>5, <3>6, <3>7, <3>8 DEF IInv
    <2>7. CASE outcome # "ok"
      BY <1>0, <1>2, <2>1, <2>5, <2>7, AssignFailsKept DEF PublishRegistry, AliasTypeOK, Holding
    <2> QED BY <2>6, <2>7
  <1> QED BY <1>3, <1>4

LEMMA VerifyKept ==
  ASSUME IInv, NEW p \in Peers, Verify(p)
  PROVE  IInv'
  <1>0. /\ AliasTypeOK /\ Global /\ phase[p] = "verify"
        /\ UNCHANGED <<registry, marker, handles, history, ops, lost>>
    BY DEF IInv, Verify, files
  <1>1. Global'
    BY <1>0, GlobalKept
  <1>2. CASE AssignFails(p)
    BY <1>0, <1>1, <1>2, AssignFailsKept DEF AliasTypeOK, Holding, history
  <1>3. CASE Assigned(p, task[p].found)
    <2>1. Answered(p) \in issued
      BY <1>0 DEF IInv, Local
    <2>2. /\ Answered(p).alias = task[p].found /\ Answered(p).session = task[p].session
          /\ Answered(p).machine = task[p].machine
      BY DEF Answered
    <2> QED BY <1>0, <1>3, <2>1, <2>2, AssignedKept DEF AliasTypeOK, Holding
  <1> QED BY <1>2, <1>3 DEF Verify

LEMMA SaveAliasKept ==
  ASSUME IInv, NEW p \in Peers, NEW outcome, SaveAlias(p, outcome)
  PROVE  IInv'
  <1> DEFINE t == task[p]
  <1>0. /\ AliasTypeOK /\ Global /\ t \in Task /\ Finish(p)
        /\ phase[p] = "save" /\ t.kind # "remember"
        /\ UNCHANGED <<registry, marker, issued, ops, lost>>
    BY DEF IInv, AliasTypeOK, SaveAlias
  <1>1. t.session \in Sessions /\ t.held \in Handle /\ Answered(p) \in issued
    BY <1>0 DEF IInv, Local, Unassigned
  <1>2. handles' \in [Sessions -> Handle \cup {NoFile}]
    <2>1. [t.held EXCEPT !.alias = t.found] \in Handle
      BY <1>0, <1>1 DEF Handle, Task
    <2> QED BY <1>0, <1>1, <2>1 DEF SaveAlias, AliasTypeOK
  <1>3. told' \cup resolved' \subseteq issued
    BY <1>0, <1>1 DEF SaveAlias, Answer, Global, AnswersIssued
  <1>4. Global'
    BY <1>0, <1>3
    DEF Global, RegistryKeepsAll, OneEach, MissingIsEmpty, LossIsNoticed, AnswersIssued
  <1>5. \A q \in Peers : Local(q)'
    BY <1>0, FinishLocal
  <1>6. AliasTypeOK'
    BY <1>0, <1>2, <1>3, FinishTyped DEF AliasTypeOK
  <1> QED BY <1>4, <1>5, <1>6 DEF IInv

LEMMA SaveSessionKept ==
  ASSUME IInv, NEW p \in Peers, NEW outcome, SaveSession(p, outcome)
  PROVE  IInv'
  <1> DEFINE t == task[p]
             kept == t.held # NoFile /\ t.held.alias # NoAlias
             new == [machine |-> t.machine, alias |-> IF kept THEN t.held.alias ELSE t.found]
             next == [NoTask EXCEPT !.session = t.session]
  <1>0. /\ AliasTypeOK /\ Global /\ t \in Task /\ phase[p] = "save"
        /\ UNCHANGED <<registry, marker, history, ops, lost>>
    BY DEF IInv, AliasTypeOK, SaveSession
  <1>1. t.session \in Sessions /\ t.machine \in Machines
    BY <1>0 DEF IInv, Local, Unassigned
  <1>2. handles' \in [Sessions -> Handle \cup {NoFile}]
    <2>1. new \in Handle
      BY <1>0, <1>1 DEF Handle, Task
    <2>2. handles' = handles \/ handles' = [handles EXCEPT ![t.session] = new]
      BY DEF SaveSession
    <2> QED BY <1>0, <1>1, <2>1, <2>2 DEF AliasTypeOK
  <1>3. CASE Finish(p)
    BY <1>0, <1>2, <1>3, GivesUp DEF AliasTypeOK
  <1>4. CASE Continue(p, "load", next) /\ sessionLock' = Unlocked(p) /\ UNCHANGED registryLock
    <2>1. next \in Task
      BY <1>1, Empties DEF Task
    <2>2. phase'[p] = "load" /\ task'[p] = next
      BY <1>0, <1>4 DEF Continue, AliasTypeOK
    <2>3. Local(p)'
      BY <1>1, <2>2 DEF Local, Unassigned, Holding, NoTask
    <2>4. \A q \in Peers : Local(q)'
      BY <1>0, <1>4, <2>3, ContinueLocal DEF history
    <2>5. Global' /\ AliasTypeOK'
      BY <1>0, <1>2, <1>4, <2>1, GlobalKept DEF AliasTypeOK, Continue, Unlocked, history, Pc
    <2> QED BY <2>4, <2>5 DEF IInv
  <1> QED BY <1>3, <1>4 DEF SaveSession

LEMMA TimeoutKept ==
  ASSUME IInv, NEW p \in Peers, Timeout(p)
  PROVE  IInv'
  <1> DEFINE t == [task[p] EXCEPT !.found = NoAlias]
  <1>0. /\ AliasTypeOK /\ Global /\ task[p] \in Task
        /\ UNCHANGED <<registry, marker, handles, history, ops, lost>>
    BY DEF IInv, AliasTypeOK, Timeout, files
  <1>1. CASE Finish(p)
    BY <1>0, <1>1, GivesUp DEF AliasTypeOK
  <1>2. CASE /\ phase[p] = "assign" /\ task[p].kind = "remember"
             /\ Continue(p, "save", t) /\ UNCHANGED locks
    <2>1. t \in Task
      BY <1>0 DEF Task
    <2>2. phase'[p] = "save" /\ task'[p] = t
      BY <1>0, <1>2 DEF Continue, AliasTypeOK
    <2>3. Local(p)'
      BY <1>0, <1>2, <2>2 DEF IInv, Local, Unassigned, Holding, Task
    <2>4. \A q \in Peers : Local(q)'
      BY <1>0, <1>2, <2>3, ContinueLocal DEF history, locks
    <2>5. Global' /\ AliasTypeOK'
      BY <1>0, <1>2, <2>1, GlobalKept DEF AliasTypeOK, Continue, history, locks, Pc
    <2> QED BY <2>4, <2>5 DEF IInv
  <1> QED BY <1>1, <1>2 DEF Timeout

LEMMA CrashKept ==
  ASSUME IInv, NEW p \in Peers, Die(p)
  PROVE  IInv'
  BY GivesUp DEF IInv, AliasTypeOK, Die, files

\* A loss touches no process; what makes it harmless is LossSafe.
LEMMA LossKept ==
  ASSUME IInv, Loss
  PROVE  IInv'
  <1>0. AliasTypeOK /\ Global /\ LossSafe
    BY DEF IInv
  <1>1. /\ UNCHANGED <<locks, phase, task, history, ops>> /\ lost' \in 0..MaxLosses
        /\ registry' = registry \/ (registry' = NoFile /\ "registry" \in Losses)
        /\ marker' = marker \/ (marker' = FALSE /\ "marker" \in Losses)
        /\ handles' \in [Sessions -> Handle \cup {NoFile}]
    BY <1>0, AliasAssumption
    DEF Loss, LoseRegistry, LoseMarker, LoseHandle, CanLose, AliasTypeOK
  <1>2. AliasTypeOK'
    BY <1>0, <1>1 DEF AliasTypeOK, locks, history
  <1>3. Global'
    BY <1>0, <1>1
    DEF Global, RegistryKeepsAll, OneEach, MissingIsEmpty, LossIsNoticed, AnswersIssued, history
  <1>4. \A q \in Peers : Local(q)'
    BY <1>1, OtherKept DEF IInv, locks, history, AliasTypeOK
  <1> QED BY <1>0, <1>2, <1>3, <1>4 DEF IInv
-----------------------------------------------------------------------------
(* The theorems.                                                           *)

LEMMA InitIInv == ASSUME AliasInit, LossSafe PROVE IInv
  <1>1. AliasTypeOK
    <2>1. registry \in Registry \cup {NoFile}
      <3>1. CASE LegacyBindings = {}
        BY <3>1 DEF AliasInit
      <3>2. CASE LegacyBindings # {}
        <4>1. PICK n \in 1..(MaxAlias + 1) : registry = [next |-> n, bindings |-> LegacyBindings]
          BY <3>2 DEF AliasInit
        <4> QED BY <4>1, AliasAssumption DEF Registry
      <3> QED BY <3>1, <3>2
    <2>2. marker \in BOOLEAN /\ handles \in [Sessions -> Handle \cup {NoFile}]
      BY DEF AliasInit
    <2>3. /\ sessionLock \in [Sessions -> Peers \cup {NoOne}]
          /\ registryLock \in Peers \cup {NoOne}
          /\ phase \in [Peers -> Pc] /\ task \in [Peers -> Task]
      BY Empties DEF AliasInit, Pc
    <2>4. /\ issued \subseteq Binding /\ told \subseteq Binding /\ resolved \subseteq Binding
          /\ ops \in 0..MaxOps /\ lost \in 0..MaxLosses
      BY AliasAssumption DEF AliasInit
    <2> QED BY <2>1, <2>2, <2>3, <2>4 DEF AliasTypeOK
  <1>2. Global
    <2>1. RegistryKeepsAll
      <3>1. CASE LegacyBindings = {}
        BY <3>1 DEF AliasInit, RegistryKeepsAll
      <3>2. CASE LegacyBindings # {}
        BY <3>2 DEF AliasInit, RegistryKeepsAll
      <3> QED BY <3>1, <3>2
    <2>2. MissingIsEmpty
      <3>1. CASE LegacyBindings = {}
        BY <3>1 DEF AliasInit, MissingIsEmpty
      <3>2. CASE LegacyBindings # {}
        <4>1. PICK n \in 1..(MaxAlias + 1) : registry = [next |-> n, bindings |-> LegacyBindings]
          BY <3>2 DEF AliasInit
        <4>2. registry \in Registry
          BY <4>1, AliasAssumption DEF Registry
        <4> QED BY <4>2, AliasAssumption DEF MissingIsEmpty
      <3> QED BY <3>1, <3>2
    <2>3. OneEach /\ LossIsNoticed /\ AnswersIssued
      BY AliasAssumption DEF AliasInit, OneEach, LossIsNoticed, AnswersIssued
    <2> QED BY <2>1, <2>2, <2>3 DEF Global
  <1>3. \A q \in Peers : Local(q)
    BY DEF AliasInit, Local, Unassigned, Holding
  <1> QED BY <1>1, <1>2, <1>3 DEF IInv

LEMMA NextIInv == ASSUME IInv, [AliasNext]_aliasVars PROVE IInv'
  <1>1. CASE UNCHANGED aliasVars
    BY <1>1 DEF IInv, aliasVars, AliasTypeOK, Global, RegistryKeepsAll, OneEach, MissingIsEmpty,
                LossIsNoticed, AnswersIssued, Local, CopyIsIssued, Answered
  <1>2. ASSUME NEW p \in Peers, Start(p) PROVE IInv'
    BY <1>2, RememberKept, ShowKept, ResolveKept DEF Start
  <1>3. ASSUME NEW p \in Peers, Step(p) PROVE IInv'
    BY <1>3, ReadKept, LoadKept, LockAliasKept, AssignKept, VerifyKept, AdoptKept,
       SaveAliasKept, SaveSessionKept, EnsureMarkerKept, PublishKept DEF Step
  <1>4. ASSUME NEW p \in Peers, Timeout(p) \/ Die(p) PROVE IInv'
    BY <1>4, TimeoutKept, CrashKept
  <1>5. CASE Loss
    BY <1>5, LossKept
  <1> QED BY <1>1, <1>2, <1>3, <1>4, <1>5 DEF AliasNext

THEOREM Invariance == LossSafe /\ AliasSpec => []IInv
  <1>1. LossSafe /\ AliasInit => IInv
    BY InitIInv
  <1>2. IInv /\ [AliasNext]_aliasVars => IInv'
    BY NextIInv
  <1> QED BY <1>1, <1>2, PTL DEF AliasSpec

\* The variables keep their types in every execution.
THEOREM AliasTypeCorrect == LossSafe /\ AliasSpec => []AliasTypeOK
  BY Invariance, PTL DEF IInv

\* No alias the user was ever shown names a second session or device, for any number
\* of processes, failures, crashes and losses that LossSafe allows.
THEOREM AliasesAreSafe == LossSafe /\ AliasSpec => []AliasNamesOneDevice
  <1>1. IInv => AliasNamesOneDevice
    BY DEF IInv, Global, AnswersIssued, OneEach, AliasNamesOneDevice
  <1> QED BY <1>1, Invariance, PTL

\* The registry never drops a binding and its counter stays ahead.
THEOREM NothingRecycled == LossSafe /\ AliasSpec => []RegistryKeepsAll
  <1>1. IInv => RegistryKeepsAll
    BY DEF IInv, Global
  <1> QED BY <1>1, Invariance, PTL

\* A lost registry is noticed: there is a marker as soon as an alias was issued.
THEOREM LossesNoticed == LossSafe /\ AliasSpec => []LossIsNoticed
  <1>1. IInv => LossIsNoticed
    BY DEF IInv, Global
  <1> QED BY <1>1, Invariance, PTL

\* Only PublishRegistry writes the book, and what it adds is new.
LEMMA PublishBinds ==
  ASSUME IInv, NEW p \in Peers, NEW outcome, PublishRegistry(p, outcome)
  PROVE  [Book!Next]_issued
  <1>1. /\ issued \subseteq Binding /\ CopyIsIssued(p) /\ task[p].copy.next \in Aliases
        /\ \A x \in issued : x.session # task[p].session
        /\ task[p].session \in Sessions /\ task[p].machine \in Machines
    BY DEF IInv, AliasTypeOK, PublishRegistry, Local, Holding, Unassigned
  <1>2. NewBinding(p) \in Book!Binding
    BY <1>1 DEF NewBinding, Book!Binding
  <1>3. \A x \in issued : x.alias # NewBinding(p).alias /\ x.session # NewBinding(p).session
    BY <1>1, AliasAssumption DEF NewBinding, CopyIsIssued, Aliases
  <1>4. CASE issued' = issued \cup {NewBinding(p)}
    BY <1>2, <1>3, <1>4 DEF Book!Next, Book!Bind
  <1>5. issued' = issued \/ issued' = issued \cup {NewBinding(p)}
    BY DEF PublishRegistry
  <1> QED BY <1>4, <1>5

\* The registry implements the book of aliases, which only grows and reuses nothing.
THEOREM ImplementsTheBook == LossSafe /\ AliasSpec => ImplementsBook
  <1>1. AliasInit => Book!Init
    BY AliasAssumption DEF AliasInit, Binding, Book!Init, Book!Binding
  <1>2. IInv /\ [AliasNext]_aliasVars => [Book!Next]_issued
    <2> SUFFICES ASSUME IInv, [AliasNext]_aliasVars PROVE [Book!Next]_issued
      OBVIOUS
    <2>1. CASE UNCHANGED aliasVars
      BY <2>1 DEF aliasVars
    <2>2. ASSUME NEW p \in Peers, Start(p) PROVE UNCHANGED issued
      BY <2>2 DEF Start, Remember, Show, Resolve, history
    <2>3. ASSUME NEW p \in Peers, Step(p) PROVE [Book!Next]_issued
      BY <2>3, PublishBinds
      DEF Step, Read, Load, LockAlias, Assign, Verify, Adopt, SaveAlias, SaveSession,
          EnsureMarker, history
    <2>4. ASSUME NEW p \in Peers, Timeout(p) \/ Die(p) PROVE UNCHANGED issued
      BY <2>4 DEF Timeout, Die, history
    <2>5. CASE Loss
      BY <2>5 DEF Loss, LoseRegistry, LoseMarker, LoseHandle, CanLose, history
    <2> QED BY <2>1, <2>2, <2>3, <2>4, <2>5 DEF AliasNext
  <1> QED BY <1>1, <1>2, Invariance, PTL DEF AliasSpec, ImplementsBook, Book!Spec
-----------------------------------------------------------------------------
(* The handles.                                                            *)

\* Between reading a handle under its lock and writing it back, the handle is what
\* was read, or was removed by hand.
Locked == {"lookup", "adoptLookup", "assign", "mark", "publish", "verify", "save"}

HeldIsHandle(q) ==
    phase[q] \in Locked =>
        /\ sessionLock[task[q].session] = q
        /\ handles[task[q].session] \in {task[q].held, NoFile}
        /\ task[q].held # NoFile => task[q].held.machine = task[q].machine

HInv == \A q \in Peers : HeldIsHandle(q)

\* No step but the two saves writes a handle that exists.
KeepsHandles ==
    \A s \in Sessions : handles[s] # NoFile /\ handles'[s] # NoFile =>
        /\ handles'[s].machine = handles[s].machine
        /\ handles[s].alias # NoAlias => handles'[s].alias = handles[s].alias

\* What a process has locked no other process disturbs.
LEMMA OtherHeld ==
  ASSUME NEW q \in Peers, HeldIsHandle(q),
         phase'[q] = phase[q], task'[q] = task[q],
         phase[q] \in Locked => /\ sessionLock'[task[q].session] = q
                                /\ handles'[task[q].session] \in {handles[task[q].session], NoFile}
  PROVE  HeldIsHandle(q)'
  BY DEF HeldIsHandle

LEMMA FinishHeld ==
  ASSUME AliasTypeOK, HInv, NEW p \in Peers, Finish(p),
         \A q \in Peers \ {p} : phase[q] \in Locked =>
            handles'[task[q].session] \in {handles[task[q].session], NoFile},
         \A q \in Peers : phase[q] \in Locked => task[q].session \in Sessions
  PROVE  HInv'
  <1> SUFFICES ASSUME NEW q \in Peers PROVE HeldIsHandle(q)'
    BY DEF HInv
  <1>1. CASE q = p
    BY <1>1 DEF AliasTypeOK, Finish, HeldIsHandle, Locked
  <1>2. CASE q # p
    <2>1. phase'[q] = phase[q] /\ task'[q] = task[q] /\ HeldIsHandle(q)
      BY <1>2 DEF AliasTypeOK, Finish, HInv
    <2>2. phase[q] \in Locked => sessionLock'[task[q].session] = q
      BY <1>2, <2>1 DEF Finish, Unlocked, HeldIsHandle, AliasTypeOK
    <2> QED BY <1>2, <2>1, <2>2, OtherHeld
  <1> QED BY <1>1, <1>2

\* A process that goes on, with the locks of the others as they were.
LEMMA ContinueHeld ==
  ASSUME AliasTypeOK, HInv, NEW p \in Peers, NEW step, NEW t, Continue(p, step, t),
         HeldIsHandle(p)',
         \A q \in Peers \ {p} : phase[q] \in Locked =>
            /\ sessionLock'[task[q].session] = q
            /\ handles'[task[q].session] \in {handles[task[q].session], NoFile}
  PROVE  HInv'
  <1> SUFFICES ASSUME NEW q \in Peers, q # p PROVE HeldIsHandle(q)'
    BY DEF HInv
  <1>1. phase'[q] = phase[q] /\ task'[q] = task[q] /\ HeldIsHandle(q)
    BY DEF AliasTypeOK, Continue, HInv
  <1> QED BY <1>1, OtherHeld

\* The sessions that others hold are not the session that p holds or takes.
LEMMA Apart ==
  ASSUME IInv, HInv, NEW p \in Peers, NEW q \in Peers, q # p, phase[q] \in Locked
  PROVE  /\ task[q].session \in Sessions /\ sessionLock[task[q].session] = q
         /\ phase[p] \in Locked => task[q].session # task[p].session
         /\ Unlocked(p)[task[q].session] = q
  BY DEF IInv, Local, HInv, HeldIsHandle, Locked, Unassigned, AliasTypeOK, Unlocked

LEMMA QuietFinish ==
  ASSUME IInv, HInv, NEW p \in Peers, Finish(p), UNCHANGED handles
  PROVE  HInv' /\ KeepsHandles
  <1>1. \A q \in Peers : phase[q] \in Locked => task[q].session \in Sessions
    BY DEF IInv, Local, Locked, Unassigned
  <1>2. HInv'
    BY <1>1, FinishHeld DEF IInv
  <1> QED BY <1>2 DEF KeepsHandles

\* p goes on without touching a handle, and keeps what it holds.
LEMMA QuietContinue ==
  ASSUME IInv, HInv, NEW p \in Peers, NEW step, NEW t, Continue(p, step, t),
         UNCHANGED <<handles, sessionLock>>,
         step \notin Locked \/ (/\ phase[p] \in Locked /\ t.session = task[p].session
                                /\ t.held = task[p].held /\ t.machine = task[p].machine)
  PROVE  HInv' /\ KeepsHandles
  <1>1. phase'[p] = step /\ task'[p] = t
    BY DEF IInv, AliasTypeOK, Continue
  <1>2. HeldIsHandle(p)'
    BY <1>1 DEF HInv, HeldIsHandle
  <1>3. HInv'
    BY <1>2, Apart, ContinueHeld DEF IInv
  <1> QED BY <1>3 DEF KeepsHandles

LEMMA UseStateHeld ==
  ASSUME IInv, HInv, NEW p \in Peers, UseState(p), UNCHANGED handles,
         phase[p] \in {"find", "lookup", "adoptFind", "adoptLookup"}
  PROVE  HInv' /\ KeepsHandles
  <1>0. task[p] \in Task
    BY DEF IInv, AliasTypeOK
  <1>1. CASE Finish(p)
    BY <1>1, QuietFinish
  <1>2. CASE /\ UNCHANGED locks
             /\ \E b : Continue(p, "load", [task[p] EXCEPT !.session = b.session,
                                                           !.machine = b.machine])
    BY <1>2, QuietContinue DEF locks, Locked
  <1>3. CASE phase[p] \in Locked /\ Continue(p, "assign", task[p]) /\ UNCHANGED locks
    BY <1>3, QuietContinue DEF locks
  <1>4. CASE /\ phase[p] \in Locked /\ UNCHANGED locks
             /\ \E b : Continue(p, "save", [task[p] EXCEPT !.found = b.alias])
    <2>1. PICK b : Continue(p, "save", [task[p] EXCEPT !.found = b.alias])
      BY <1>4
    <2> QED BY <1>0, <1>4, <2>1, QuietContinue DEF locks, Task
  <1> QED
    <2>1. CASE phase[p] \in {"find", "adoptFind"}
      BY <2>1, <1>1, <1>2 DEF UseState, UseBinding
    <2>2. CASE phase[p] \in {"lookup", "adoptLookup"}
      BY <2>2, <1>1, <1>3, <1>4 DEF UseState, UseAlias, Locked
    <2> QED BY <2>1, <2>2

\* Steps of the assignment.
LEMMA AssignHeld ==
  ASSUME IInv, HInv, NEW p \in Peers, UNCHANGED handles,
         phase[p] \in {"assign", "mark", "publish", "verify"},
         \/ AssignFails(p)
         \/ \E a : Assigned(p, a)
         \/ Timeout(p)
         \/ /\ UNCHANGED sessionLock
            /\ \E step, c, f : Continue(p, step, [task[p] EXCEPT !.copy = c, !.found = f])
  PROVE  HInv' /\ KeepsHandles
  <1>0. task[p] \in Task /\ phase[p] \in Locked
    BY DEF IInv, AliasTypeOK, Locked
  <1>1. CASE Finish(p)
    BY <1>1, QuietFinish
  <1>2. CASE /\ UNCHANGED sessionLock
             /\ \E step, c, f : Continue(p, step, [task[p] EXCEPT !.copy = c, !.found = f])
    <2>1. PICK step, c, f : Continue(p, step, [task[p] EXCEPT !.copy = c, !.found = f])
      BY <1>2
    <2> QED BY <1>0, <1>2, <2>1, QuietContinue DEF Task
  <1>3. CASE Timeout(p) /\ UNCHANGED locks /\ Continue(p, "save", [task[p] EXCEPT !.found = NoAlias])
    BY <1>0, <1>3, QuietContinue DEF Task, locks
  <1> QED BY <1>1, <1>2, <1>3 DEF AssignFails, Assigned, Timeout

\* Taking a session's lock and reading its handle.
LEMMA TakeHeld ==
  ASSUME IInv, HInv, NEW p \in Peers, NEW s \in Sessions, NEW step, NEW t,
         Continue(p, step, t), UNCHANGED handles, phase[p] \notin Locked,
         sessionLock[s] = NoOne, sessionLock' = [sessionLock EXCEPT ![s] = p],
         t.session = s, t.held = handles[s],
         handles[s] # NoFile => handles[s].machine = t.machine
  PROVE  HInv' /\ KeepsHandles
  <1>1. phase'[p] = step /\ task'[p] = t /\ sessionLock'[s] = p
    BY DEF IInv, AliasTypeOK, Continue
  <1>2. HeldIsHandle(p)'
    BY <1>1 DEF HeldIsHandle
  <1>3. ASSUME NEW q \in Peers, q # p, phase[q] \in Locked
        PROVE  sessionLock'[task[q].session] = q
    BY <1>3, Apart, AliasAssumption DEF IInv, AliasTypeOK
  <1>4. HInv'
    BY <1>2, <1>3, ContinueHeld DEF IInv
  <1> QED BY <1>4 DEF KeepsHandles

LEMMA SaveAliasHeld ==
  ASSUME IInv, HInv, NEW p \in Peers, NEW outcome, SaveAlias(p, outcome)
  PROVE  HInv' /\ KeepsHandles
  <1> DEFINE t == task[p]
             new == [t.held EXCEPT !.alias = t.found]
  <1>0. /\ AliasTypeOK /\ Finish(p) /\ phase[p] = "save" /\ phase[p] \in Locked
        /\ t.session \in Sessions /\ t.held \in Handle
        /\ handles[t.session] \in {t.held, NoFile}
    BY DEF IInv, SaveAlias, Locked, Local, Unassigned, HInv, HeldIsHandle
  <1>1. \/ handles' = handles
        \/ t.held.alias = NoAlias /\ handles' = [handles EXCEPT ![t.session] = new]
    BY DEF SaveAlias
  <1>2. new.machine = t.held.machine
    BY <1>0 DEF Handle
  <1>3. KeepsHandles
    BY <1>0, <1>1, <1>2 DEF KeepsHandles, AliasTypeOK
  <1>4. \A q \in Peers \ {p} : phase[q] \in Locked =>
           handles'[task[q].session] \in {handles[task[q].session], NoFile}
    BY <1>0, <1>1, Apart DEF AliasTypeOK
  <1>5. \A q \in Peers : phase[q] \in Locked => task[q].session \in Sessions
    BY DEF IInv, Local, Locked, Unassigned
  <1>6. HInv'
    BY <1>0, <1>4, <1>5, FinishHeld
  <1> QED BY <1>3, <1>6

LEMMA SaveSessionHeld ==
  ASSUME IInv, HInv, NEW p \in Peers, NEW outcome, SaveSession(p, outcome)
  PROVE  HInv' /\ KeepsHandles
  <1> DEFINE t == task[p]
             kept == t.held # NoFile /\ t.held.alias # NoAlias
             new == [machine |-> t.machine, alias |-> IF kept THEN t.held.alias ELSE t.found]
             next == [NoTask EXCEPT !.session = t.session]
  <1>0. /\ AliasTypeOK /\ phase[p] = "save" /\ phase[p] \in Locked /\ t.session \in Sessions
        /\ handles[t.session] \in {t.held, NoFile}
        /\ t.held # NoFile => t.held.machine = t.machine
    BY DEF IInv, SaveSession, Locked, Local, Unassigned, HInv, HeldIsHandle
  <1>1. handles' = handles \/ handles' = [handles EXCEPT ![t.session] = new]
    BY DEF SaveSession
  <1>2. KeepsHandles
    BY <1>0, <1>1 DEF KeepsHandles, AliasTypeOK
  <1>3. \A q \in Peers \ {p} : phase[q] \in Locked =>
           handles'[task[q].session] \in {handles[task[q].session], NoFile}
    BY <1>0, <1>1, Apart DEF AliasTypeOK
  <1>4. CASE Finish(p)
    <2>1. \A q \in Peers : phase[q] \in Locked => task[q].session \in Sessions
      BY DEF IInv, Local, Locked, Unassigned
    <2> QED BY <1>0, <1>2, <1>3, <1>4, <2>1, FinishHeld
  <1>5. CASE Continue(p, "load", next) /\ sessionLock' = Unlocked(p)
    <2>1. HeldIsHandle(p)'
      BY <1>0, <1>5 DEF Continue, HeldIsHandle, Locked, AliasTypeOK
    <2>2. \A q \in Peers \ {p} : phase[q] \in Locked => sessionLock'[task[q].session] = q
      BY <1>5, Apart
    <2>3. HInv'
      BY <1>0, <1>3, <1>5, <2>1, <2>2, ContinueHeld
    <2> QED BY <1>2, <2>3
  <1> QED BY <1>4, <1>5 DEF SaveSession

LEMMA StartHeld ==
  ASSUME IInv, HInv, NEW p \in Peers, Start(p)
  PROVE  HInv' /\ KeepsHandles
  <1>0. phase[p] = "idle" /\ phase[p] \notin Locked /\ NoTask \in Task
    BY Empties DEF Start, Remember, Show, Resolve, BeginOperation, Locked
  <1>1. CASE \E s \in Sessions, m \in Machines : Remember(p, s, m)
    <2>1. PICK s \in Sessions, m \in Machines : Remember(p, s, m)
      BY <1>1
    <2> DEFINE t == [NoTask EXCEPT !.kind = "remember", !.session = s, !.machine = m,
                                   !.held = handles[s]]
    <2>2. UNCHANGED handles /\ sessionLock[s] = NoOne
      BY <2>1 DEF Remember, files
    <2>3. CASE Continue(p, "idle", NoTask) /\ UNCHANGED sessionLock
      BY <2>2, <2>3, QuietContinue DEF Locked
    <2>4. CASE /\ ~(handles[s] # NoFile /\ handles[s].machine # m) /\ Continue(p, "assign", t)
               /\ sessionLock' = [sessionLock EXCEPT ![s] = p]
      <3>1. t.session = s /\ t.held = handles[s] /\ t.machine = m
        BY DEF NoTask
      <3> HIDE DEF t
      <3> QED BY <1>0, <2>2, <2>4, <3>1, TakeHeld
    <2> QED BY <2>1, <2>3, <2>4 DEF Remember, BeginOperation
  <1>2. CASE \E s \in Sessions : Show(p, s)
    BY <1>2, QuietContinue DEF Show, BeginOperation, Locked, files, locks
  <1>3. CASE \E a \in Aliases : Resolve(p, a)
    BY <1>3, QuietContinue DEF Resolve, BeginOperation, Locked, files, locks
  <1> QED BY <1>1, <1>2, <1>3 DEF Start

LEMMA ReadHeld ==
  ASSUME IInv, HInv, NEW p \in Peers,
         Read(p) \/ (\E outcome : Adopt(p, outcome)) \/ Load(p) \/ LockAlias(p)
  PROVE  HInv' /\ KeepsHandles
  <1>0. UNCHANGED handles /\ task[p] \in Task
    BY DEF Read, Adopt, Load, LockAlias, files, IInv, AliasTypeOK
  <1>1. CASE Finish(p)
    BY <1>0, <1>1, QuietFinish
  <1>2. CASE UseState(p) /\ (Read(p) \/ \E outcome : Adopt(p, outcome))
    BY <1>0, <1>2, UseStateHeld DEF Read, Adopt
  <1>3. CASE /\ Read(p) /\ UNCHANGED locks
             /\ Continue(p, IF phase[p] = "find" THEN "adoptFind" ELSE "adoptLookup", task[p])
    <2>1. phase[p] # "find" => phase[p] \in Locked
      BY <1>3 DEF Read, Locked
    <2>2. "adoptFind" \notin Locked
      BY DEF Locked
    <2> QED BY <1>0, <1>3, <2>1, <2>2, QuietContinue DEF locks
  <1>4. CASE /\ Load(p) /\ UNCHANGED locks
             /\ Continue(p, "lockAlias",
                         [task[p] EXCEPT !.machine = handles[task[p].session].machine])
    BY <1>0, <1>4, QuietContinue DEF locks, Locked
  <1>5. CASE LockAlias(p) /\ ~Finish(p)
    <2> DEFINE s == task[p].session
               t == [task[p] EXCEPT !.held = handles[s]]
    <2>1. /\ s \in Sessions /\ sessionLock[s] = NoOne /\ phase[p] \notin Locked
          /\ Continue(p, "lookup", t) /\ sessionLock' = [sessionLock EXCEPT ![s] = p]
          /\ handles[s].machine = task[p].machine
      BY <1>5 DEF LockAlias, IInv, Local, Unassigned, Locked
    <2>2. t.session = s /\ t.held = handles[s] /\ t.machine = task[p].machine
      BY <1>0 DEF Task
    <2> HIDE DEF t
    <2> QED BY <1>0, <2>1, <2>2, TakeHeld
  <1> QED BY <1>1, <1>2, <1>3, <1>4, <1>5 DEF Read, Adopt, Load

LEMMA AssignmentHeld ==
  ASSUME IInv, HInv, NEW p \in Peers,
         Assign(p) \/ Verify(p) \/ \E outcome : EnsureMarker(p, outcome) \/ PublishRegistry(p, outcome)
  PROVE  HInv' /\ KeepsHandles
  <1>0. /\ UNCHANGED handles /\ phase[p] \in {"assign", "mark", "publish", "verify"}
        /\ task[p] \in Task
    BY DEF Assign, Verify, EnsureMarker, PublishRegistry, files, IInv, AliasTypeOK
  <1>1. CASE AssignFails(p) \/ \E a : Assigned(p, a)
    BY <1>0, <1>1, AssignHeld
  <1>2. CASE Assign(p) /\ ~AssignFails(p)
    <2>1. [task[p] EXCEPT !.copy = State] = [task[p] EXCEPT !.copy = State, !.found = task[p].found]
      BY <1>0 DEF Task
    <2>2. /\ Continue(p, "mark", [task[p] EXCEPT !.copy = State, !.found = task[p].found])
          /\ UNCHANGED sessionLock
      BY <1>2, <2>1 DEF Assign
    <2>3. \E step, c, f : Continue(p, step, [task[p] EXCEPT !.copy = c, !.found = f])
      BY <2>2
    <2> QED BY <1>0, <2>2, <2>3, AssignHeld
  <1>3. CASE Continue(p, "publish", task[p]) /\ UNCHANGED locks
    <2>1. task[p] = [task[p] EXCEPT !.copy = task[p].copy, !.found = task[p].found]
      BY <1>0 DEF Task
    <2>2. /\ Continue(p, "publish", [task[p] EXCEPT !.copy = task[p].copy, !.found = task[p].found])
          /\ UNCHANGED sessionLock
      BY <1>3, <2>1 DEF locks
    <2>3. \E step, c, f : Continue(p, step, [task[p] EXCEPT !.copy = c, !.found = f])
      BY <2>2
    <2> QED BY <1>0, <2>2, <2>3, AssignHeld
  <1>4. CASE \E outcome : PublishRegistry(p, outcome) /\ ~AssignFails(p)
    BY <1>0, <1>4, AssignHeld DEF PublishRegistry, locks
  <1> QED BY <1>1, <1>2, <1>3, <1>4 DEF Verify, EnsureMarker

LEMMA NextHeld ==
  ASSUME IInv, HInv, [AliasNext]_aliasVars
  PROVE  HInv' /\ KeepsHandles
  <1>1. CASE UNCHANGED aliasVars
    BY <1>1 DEF aliasVars, HInv, HeldIsHandle, KeepsHandles
  <1>2. ASSUME NEW p \in Peers, Start(p) PROVE HInv' /\ KeepsHandles
    BY <1>2, StartHeld
  <1>3. ASSUME NEW p \in Peers, Step(p) PROVE HInv' /\ KeepsHandles
    BY <1>3, ReadHeld, AssignmentHeld, SaveAliasHeld, SaveSessionHeld DEF Step
  <1>4. ASSUME NEW p \in Peers, Timeout(p) PROVE HInv' /\ KeepsHandles
    <2>1. UNCHANGED handles
      BY <1>4 DEF Timeout, files
    <2>2. CASE Finish(p)
      BY <2>1, <2>2, QuietFinish
    <2>3. CASE phase[p] = "assign"
      BY <1>4, <2>1, <2>3, AssignHeld
    <2> QED BY <1>4, <2>2, <2>3 DEF Timeout
  <1>5. ASSUME NEW p \in Peers, Die(p) PROVE HInv' /\ KeepsHandles
    BY <1>5, QuietFinish DEF Die, files
  <1>6. CASE Loss
    <2>1. /\ UNCHANGED <<locks, phase, task>>
          /\ handles' = handles \/ \E s \in Sessions : handles' = [handles EXCEPT ![s] = NoFile]
      BY <1>6 DEF Loss, LoseRegistry, LoseMarker, LoseHandle, CanLose
    <2>2. \A s \in Sessions : handles'[s] \in {handles[s], NoFile}
      BY <2>1 DEF IInv, AliasTypeOK
    <2>3. \A q \in Peers : phase[q] \in Locked => task[q].session \in Sessions
      BY DEF IInv, Local, Locked, Unassigned
    <2>4. HInv'
      BY <2>1, <2>2, <2>3, OtherHeld DEF HInv, HeldIsHandle, locks
    <2> QED BY <2>2, <2>4 DEF KeepsHandles
  <1> QED BY <1>1, <1>2, <1>3, <1>4, <1>5, <1>6 DEF AliasNext

\* A handle that exists keeps its device and its alias, whatever runs at once, crashes,
\* fails or is removed in the middle.
THEOREM HandlesAreStable == LossSafe /\ AliasSpec => HandleIdentityIsStable
  <1>1. AliasInit => HInv
    BY DEF AliasInit, HInv, HeldIsHandle, Locked
  <1>2. IInv /\ HInv /\ [AliasNext]_aliasVars => HInv' /\ [KeepsHandles]_handles
    BY NextHeld
  <1>3. [KeepsHandles]_handles =>
          [\A s \in Sessions : handles[s] # NoFile /\ handles'[s] # NoFile =>
              /\ handles'[s].machine = handles[s].machine
              /\ handles[s].alias # NoAlias => handles'[s].alias = handles[s].alias]_handles
    BY DEF KeepsHandles
  <1> QED BY <1>1, <1>2, <1>3, Invariance, PTL DEF AliasSpec, HandleIdentityIsStable
=============================================================================
