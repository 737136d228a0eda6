------------------------- MODULE CommandTimersProofs -------------------------
(***************************************************************************)
(* Proofs about CommandTimers, for every command tree, every set of        *)
(* messages and every bound.                                               *)
(***************************************************************************)
EXTENDS CommandTimers, TLAPS

\* Aged(t, limit) is timer t after TimerManager::Update.
Aged(t, limit) == [t EXCEPT !.elapsed = Elapsed(t, limit)]

\* A command that a message reaches is alive, asked for, and not on cooldown.
LEMMA ReachedEligible ==
  ASSUME NEW m \in Messages, NEW c \in Reached(m)
  PROVE  c \in Command /\ Eligible(c, m)
<1>1. c \in Command /\ \A a \in Line[c] : Chosen(a, m)
  BY DEF Reached
<1>2. c \in Line[c]
  BY <1>1, TreeAssumption
<1> QED
  BY <1>1, <1>2 DEF Chosen

\* The hold time of a message is a number, unless it does not parse.
LEMMA HoldTimeRange ==
  ASSUME NEW m \in Messages, NEW c \in DOMAIN Holds
  PROVE  HoldTime(c, m.arg) \in Int \cup {Unparsable}
BY HoldAssumption, MessageAssumption, TimeAssumption DEF HoldTime

\* Update moves a timer's elapsed time forward by at most the frame's time.
LEMMA ElapsedRange ==
  ASSUME TypeOK, NEW t \in myTimers, NEW limit \in Limits
  PROVE  /\ Elapsed(t, limit) \in Nat
         /\ Elapsed(t, limit) >= t.elapsed
         /\ Elapsed(t, limit) <= t.elapsed + sinceUpdate
BY TimeAssumption DEF TypeOK, Timer, Limits, Elapsed, Least

\* A timer keeps its callback, its command and its duration.
LEMMA AgedTimer ==
  ASSUME TypeOK, NEW t \in myTimers, NEW limit \in Limits
  PROVE  /\ Aged(t, limit) \in Timer
         /\ Aged(t, limit).callback = t.callback
         /\ Aged(t, limit).of = t.of
         /\ Aged(t, limit).duration = t.duration
         /\ Aged(t, limit).elapsed = Elapsed(t, limit)
<1>1. Elapsed(t, limit) \in Nat
  BY ElapsedRange
<1>2. t \in Timer
  BY DEF TypeOK
<1> QED
  BY <1>1, <1>2 DEF Timer, Aged

\* A new timer is a timer.
LEMMA NewTimers ==
  ASSUME NEW c \in Command, NEW time \in Int
  PROVE  /\ CooldownTimer(c, time) \in Timer
         /\ ReleaseTimer(c, time) \in Timer
BY DEF CooldownTimer, ReleaseTimer, Timer

----------------------------------------------------------------------------
\* The type invariant: every step of the main loop keeps every variable in its
\* range, whatever the tree and the messages.
THEOREM Typing == Spec => []TypeOK
<1>1. Init => TypeOK
  <2> SUFFICES ASSUME Init PROVE TypeOK
    OBVIOUS
  <2>1. myIsEnabled \in [Command -> BOOLEAN] /\ myIsOnCooldown \in [Command -> BOOLEAN]
    BY Zenon DEF Init
  <2>2. myCommandCooldownTime \in [Command -> CooldownTimes] /\ owed \in [Command -> Nat]
    BY TimeAssumption DEF Init
  <2>3. myTimers \subseteq Timer /\ \A t \in myTimers : t.callback = "release" => t.of \in DOMAIN Holds
    BY DEF Init
  <2>4. sinceUpdate \in 0 .. MaxFrame /\ input \in [Address -> {0, 1}]
    BY TimeAssumption DEF Init
  <2>5. myIsMinimized \in BOOLEAN /\ spun \in BOOLEAN
    BY DEF Init
  <2> QED
    BY <2>1, <2>2, <2>3, <2>4, <2>5 DEF Init, TypeOK
<1>2. TypeOK /\ [Next]_vars => TypeOK'
  <2> SUFFICES ASSUME TypeOK, [Next]_vars PROVE TypeOK'
    OBVIOUS
  <2>1. CASE Tick
    BY <2>1, TimeAssumption DEF TypeOK, Tick
  <2>2. CASE SetMinimized
    BY <2>2 DEF TypeOK, SetMinimized
  <2>3. CASE Quit
    BY <2>3 DEF TypeOK, Quit
  <2>4. CASE Update
    <3>1. PICK limit \in Limits : UpdateTimers(limit)
      BY <2>4 DEF Update
    <3>2. myTimers' \subseteq Timer /\ \A t \in myTimers' : t.callback = "release" => t.of \in DOMAIN Holds
      <4> SUFFICES ASSUME NEW u \in myTimers'
                   PROVE  u \in Timer /\ (u.callback = "release" => u.of \in DOMAIN Holds)
        OBVIOUS
      <4>1. PICK t \in myTimers : u = Aged(t, limit)
        BY <3>1 DEF UpdateTimers, Aged
      <4> QED
        BY <4>1, AgedTimer DEF TypeOK
    <3>3. input' \in [Address -> {0, 1}] /\ myIsOnCooldown' \in [Command -> BOOLEAN]
      BY <3>1 DEF UpdateTimers, TypeOK
    <3> QED
      BY <2>4, <3>2, <3>3, TimeAssumption DEF TypeOK, Update
  <2>5. CASE DanglingCallback
    BY <2>5 DEF TypeOK, DanglingCallback
  <2>6. ASSUME NEW m \in Messages, ProcessMessage(m) PROVE TypeOK'
    <3>1. PICK pressing \in {{}, Pressing(m)} :
            LET throwing == {c \in pressing : HoldTime(c, m.arg) = Unparsable}
                cooling == {c \in Started(m) : StartsTimer(c)}
            IN  /\ input' = [a \in Address |->
                          IF \E c \in pressing : Holds[c].presses = a THEN 1
                                                                       ELSE input[a]]
                /\ myTimers' = myTimers
                    \cup {CooldownTimer(c, myCommandCooldownTime[c]) : c \in cooling}
                    \cup {ReleaseTimer(c, HoldTime(c, m.arg)) : c \in pressing \ throwing}
                /\ phase' = IF throwing = {} /\ ~Aborted(m) THEN "input" ELSE "render"
      BY <2>6 DEF ProcessMessage
    <3>2. pressing \subseteq DOMAIN Holds
      BY DEF Pressing
    <3>3. myTimers' \subseteq Timer /\ \A t \in myTimers' : t.callback = "release" => t.of \in DOMAIN Holds
      <4> SUFFICES ASSUME NEW u \in myTimers'
                   PROVE  u \in Timer /\ (u.callback = "release" => u.of \in DOMAIN Holds)
        OBVIOUS
      <4>1. CASE u \in myTimers
        BY <4>1 DEF TypeOK
      <4>2. ASSUME NEW c \in Started(m), u = CooldownTimer(c, myCommandCooldownTime[c])
            PROVE  u \in Timer /\ u.callback = "cooldown"
        <5>1. c \in Command /\ myCommandCooldownTime[c] \in Int
          BY <4>2, TimeAssumption DEF Started, Reached, TypeOK
        <5> QED
          BY <4>2, <5>1, NewTimers DEF CooldownTimer
      <4>3. ASSUME NEW c \in pressing, HoldTime(c, m.arg) # Unparsable,
                   u = ReleaseTimer(c, HoldTime(c, m.arg))
            PROVE  u \in Timer /\ u.of \in DOMAIN Holds
        <5>1. c \in Command /\ HoldTime(c, m.arg) \in Int
          BY <4>3, <3>2, HoldTimeRange, HoldAssumption
        <5> QED
          BY <4>3, <5>1, <3>2, NewTimers DEF ReleaseTimer
      <4> QED
        BY <3>1, <4>1, <4>2, <4>3
    <3>4. input' \in [Address -> {0, 1}] /\ phase' \in {"input", "render"}
      BY <3>1 DEF TypeOK
    <3>5. myIsOnCooldown' \in [Command -> BOOLEAN]
      <4> DEFINE cooling == {c \in Started(m) : StartsTimer(c)}
      <4>1. myIsOnCooldown' = [c \in Command |-> IF c \in Started(m) THEN c \in cooling
                                                                   ELSE myIsOnCooldown[c]]
        BY <2>6 DEF ProcessMessage
      <4>2. \A c \in Command : myIsOnCooldown[c] \in BOOLEAN
        BY DEF TypeOK
      <4>3. \A c \in Command : (c \in cooling) \in BOOLEAN
        OBVIOUS
      <4> HIDE DEF cooling
      <4> QED
        BY <4>1, <4>2, <4>3
    <3>6. owed' \in [Command -> Nat]
      <4>1. ASSUME NEW c \in Command, StartsTimer(c) PROVE myCommandCooldownTime[c] \in Nat
        <5>1. myCommandCooldownTime[c] \in CooldownTimes
          BY DEF TypeOK
        <5>2. myCommandCooldownTime[c] \in Int
          BY <5>1, TimeAssumption
        <5> QED
          BY <4>1, <5>2 DEF StartsTimer
      <4>2. owed' = [c \in Command |-> IF c \in Started(m) /\ StartsTimer(c)
                                       THEN myCommandCooldownTime[c] ELSE owed[c]]
        BY <2>6 DEF ProcessMessage
      <4> QED
        BY <4>1, <4>2 DEF TypeOK
    <3> QED
      BY <2>6, <3>3, <3>4, <3>5, <3>6 DEF TypeOK, ProcessMessage
  <2>7. CASE EndInput
    BY <2>7 DEF TypeOK, EndInput
  <2>8. ASSUME NEW c \in Edited, SetEnabled(c) \/ SetCooldownTime(c) \/ Delete(c)
        PROVE  TypeOK'
    BY <2>8, TimeAssumption DEF TypeOK, SetEnabled, SetCooldownTime, Delete
  <2>9. CASE EndFrame
    BY <2>9 DEF TypeOK, EndFrame
  <2>10. CASE UNCHANGED vars
    BY <2>10 DEF TypeOK, vars
  <2> QED
    BY <2>1, <2>2, <2>3, <2>4, <2>5, <2>6, <2>7, <2>8, <2>9, <2>10 DEF Next
<1> QED
  BY <1>1, <1>2, PTL DEF Spec

----------------------------------------------------------------------------
(* The timers that end cooldowns.                                          *)

\* Update drops the due ones of c and ages the others.
LEMMA UpdatedCooldownTimers ==
  ASSUME TypeOK, NEW c \in Command, NEW limit \in Limits, UpdateTimers(limit)
  PROVE  /\ CooldownTimers(c)' = {Aged(t, limit) :
                                   t \in {s \in CooldownTimers(c) : ~Due(s, limit)}}
         /\ myIsOnCooldown'[c] <=> /\ myIsOnCooldown[c]
                                   /\ \A t \in CooldownTimers(c) : ~Due(t, limit)
<1>1. myTimers' = {Aged(t, limit) : t \in {s \in myTimers : ~Due(s, limit)}}
  BY DEF UpdateTimers, Aged
<1>2. ASSUME NEW t \in myTimers
      PROVE  EndsCooldown(Aged(t, limit), c) <=> EndsCooldown(t, c)
  BY AgedTimer DEF EndsCooldown
<1>3. CooldownTimers(c)' = {u \in myTimers' : EndsCooldown(u, c)}
  BY DEF CooldownTimers
<1>4. CooldownTimers(c)' = {Aged(t, limit) :
                             t \in {s \in CooldownTimers(c) : ~Due(s, limit)}}
  BY <1>1, <1>2, <1>3 DEF CooldownTimers
<1>5. myIsOnCooldown'[c] <=> /\ myIsOnCooldown[c]
                            /\ ~ \E t \in {s \in myTimers : Due(s, limit)} : EndsCooldown(t, c)
  BY DEF UpdateTimers
<1> QED
  BY <1>4, <1>5 DEF CooldownTimers

\* A message adds one to each command that starts a cooldown.
LEMMA StartedCooldownTimers ==
  ASSUME TypeOK, NEW c \in Command, NEW m \in Messages, ProcessMessage(m)
  PROVE  /\ c \in Started(m) /\ StartsTimer(c) =>
              /\ CooldownTimers(c)' = CooldownTimers(c)
                                        \cup {CooldownTimer(c, myCommandCooldownTime[c])}
              /\ myIsOnCooldown'[c]
              /\ owed'[c] = myCommandCooldownTime[c]
         /\ ~(c \in Started(m) /\ StartsTimer(c)) =>
              /\ CooldownTimers(c)' = CooldownTimers(c)
              /\ owed'[c] = owed[c]
         /\ c \notin Started(m) => (myIsOnCooldown'[c] <=> myIsOnCooldown[c])
         /\ c \in Started(m) => (myIsOnCooldown'[c] <=> StartsTimer(c))
<1> DEFINE cooling == {x \in Started(m) : StartsTimer(x)}
<1>1. PICK pressing, throwing :
        myTimers' = myTimers
          \cup {CooldownTimer(x, myCommandCooldownTime[x]) : x \in cooling}
          \cup {ReleaseTimer(x, HoldTime(x, m.arg)) : x \in pressing \ throwing}
  BY DEF ProcessMessage
<1>2. \A x, time : EndsCooldown(CooldownTimer(x, time), c) <=> x = c
  BY DEF EndsCooldown, CooldownTimer
<1>3. \A x, time : ~EndsCooldown(ReleaseTimer(x, time), c)
  BY DEF EndsCooldown, ReleaseTimer
<1>4. CooldownTimers(c)' = {u \in myTimers' : EndsCooldown(u, c)}
  BY DEF CooldownTimers
<1>5. /\ c \in cooling => CooldownTimers(c)' = CooldownTimers(c)
                              \cup {CooldownTimer(c, myCommandCooldownTime[c])}
      /\ c \notin cooling => CooldownTimers(c)' = CooldownTimers(c)
  <2> HIDE DEF cooling
  <2> QED
    BY <1>1, <1>2, <1>3, <1>4 DEF CooldownTimers
<1>6. /\ owed'[c] = IF c \in cooling THEN myCommandCooldownTime[c] ELSE owed[c]
      /\ myIsOnCooldown' = [x \in Command |-> IF x \in Started(m) THEN x \in cooling
                                                                ELSE myIsOnCooldown[x]]
  BY DEF ProcessMessage
<1>7. c \notin Started(m) => (myIsOnCooldown'[c] <=> myIsOnCooldown[c])
  BY <1>6
<1>8. c \in Started(m) => (myIsOnCooldown'[c] <=> c \in cooling)
  <2> HIDE DEF cooling
  <2> QED
    BY <1>6
<1> QED
  BY <1>5, <1>6, <1>7, <1>8

\* Every other step leaves the timers, the flags and the inputs alone.
LEMMA QuietSteps ==
  ASSUME TypeOK, [Next]_vars
  PROVE  \/ Update
         \/ \E m \in Messages : ProcessMessage(m)
         \/ /\ UNCHANGED <<myIsOnCooldown, myTimers, input>>
            /\ alive' \subseteq alive
            /\ UNCHANGED <<owed, sinceUpdate>> \/ Tick
<1>1. CASE Tick \/ SetMinimized \/ Quit \/ DanglingCallback \/ EndInput \/ EndFrame
  BY <1>1 DEF Tick, SetMinimized, Quit, DanglingCallback, EndInput, EndFrame
<1>2. ASSUME NEW c \in Edited, SetEnabled(c) \/ SetCooldownTime(c) \/ Delete(c)
      PROVE  /\ UNCHANGED <<myIsOnCooldown, myTimers, input, owed, sinceUpdate>>
             /\ alive' \subseteq alive
  BY <1>2 DEF SetEnabled, SetCooldownTime, Delete
<1>3. CASE UNCHANGED vars
  BY <1>3 DEF vars
<1> QED
  BY <1>1, <1>2, <1>3 DEF Next

\* A command is on cooldown exactly while one pending timer will end that.
THEOREM CooldownFlag == Spec => []CooldownHasItsTimer
<1>1. Init => CooldownHasItsTimer
  <2> SUFFICES ASSUME Init, NEW c \in alive
               PROVE  ~myIsOnCooldown[c] /\ CooldownTimers(c) = {}
    BY DEF CooldownHasItsTimer
  <2> QED
    BY DEF Init, CooldownTimers
<1>2. TypeOK /\ CooldownHasItsTimer /\ [Next]_vars => CooldownHasItsTimer'
  <2> SUFFICES ASSUME TypeOK, CooldownHasItsTimer, [Next]_vars, NEW c \in alive'
               PROVE  /\ myIsOnCooldown'[c] <=> CooldownTimers(c)' # {}
                      /\ \A s, t \in CooldownTimers(c)' : s = t
    BY DEF CooldownHasItsTimer
  <2>1. CASE Update
    <3>1. PICK limit \in Limits : UpdateTimers(limit)
      BY <2>1 DEF Update
    <3>2. c \in alive /\ c \in Command
      BY <2>1 DEF Update, TypeOK
    <3> QED
      BY <3>1, <3>2, UpdatedCooldownTimers DEF CooldownHasItsTimer
  <2>2. ASSUME NEW m \in Messages, ProcessMessage(m)
        PROVE  /\ myIsOnCooldown'[c] <=> CooldownTimers(c)' # {}
               /\ \A s, t \in CooldownTimers(c)' : s = t
    <3>1. c \in alive /\ c \in Command
      BY <2>2 DEF ProcessMessage, TypeOK
    <3>2. CASE c \in Started(m)
      <4>1. ~myIsOnCooldown[c]
        BY <3>2, ReachedEligible DEF Started, Eligible
      <4>2. CooldownTimers(c) = {}
        BY <3>1, <4>1 DEF CooldownHasItsTimer
      <4> QED
        BY <2>2, <3>1, <3>2, <4>2, StartedCooldownTimers
    <3>3. CASE c \notin Started(m)
      BY <2>2, <3>1, <3>3, StartedCooldownTimers DEF CooldownHasItsTimer
    <3> QED
      BY <3>2, <3>3
  <2>3. CASE UNCHANGED <<myIsOnCooldown, myTimers>> /\ alive' \subseteq alive
    BY <2>3 DEF CooldownHasItsTimer, CooldownTimers
  <2> QED
    BY <2>1, <2>2, <2>3, QuietSteps
<1> QED
  BY <1>1, <1>2, Typing, PTL DEF Spec

----------------------------------------------------------------------------
\* What a pending cooldown timer still has to run covers what is owed, up to
\* the frame whose time Update adds to a timer that it did not see begin.
PromiseKept ==
  \A c \in alive :
    owed[c] + sinceUpdate > MaxFrame =>
      /\ myIsOnCooldown[c]
      /\ \A t \in CooldownTimers(c) :
           owed[c] + sinceUpdate <= (t.duration - t.elapsed) + MaxFrame

\* A cooldown lasts what was promised when it started, short of one frame.
THEOREM CooldownIsHonoured == Spec => []CooldownCoversPromise
<1>1. TypeOK /\ Init => PromiseKept
  BY TimeAssumption DEF TypeOK, Init, PromiseKept
<1>2. TypeOK /\ CooldownHasItsTimer /\ PromiseKept /\ [Next]_vars => PromiseKept'
  <2> SUFFICES ASSUME TypeOK, CooldownHasItsTimer, PromiseKept, [Next]_vars,
                      NEW c \in alive', owed'[c] + sinceUpdate' > MaxFrame
               PROVE  /\ myIsOnCooldown'[c]
                      /\ \A t \in CooldownTimers(c)' :
                           owed'[c] + sinceUpdate' <= (t.duration - t.elapsed) + MaxFrame
    BY DEF PromiseKept
  <2>0. sinceUpdate \in Nat /\ MaxFrame \in Nat /\ sinceUpdate <= MaxFrame
    BY TimeAssumption DEF TypeOK
  <2>1. CASE Update
    <3>1. PICK limit \in Limits : UpdateTimers(limit)
      BY <2>1 DEF Update
    <3>2. c \in alive /\ c \in Command
      BY <2>1 DEF Update, TypeOK
    <3>3. owed'[c] = owed[c] /\ sinceUpdate' = 0 /\ owed[c] \in Nat
      BY <2>1, <3>2 DEF Update, TypeOK
    <3>4. owed[c] > MaxFrame /\ owed[c] + sinceUpdate > MaxFrame
      BY <2>0, <3>3
    <3>5. ASSUME NEW t \in CooldownTimers(c)
          PROVE  ~Due(t, limit) /\ owed[c] <= (t.duration - Elapsed(t, limit)) + MaxFrame
      <4>1. owed[c] + sinceUpdate <= (t.duration - t.elapsed) + MaxFrame
        BY <3>2, <3>4 DEF PromiseKept
      <4>2. t \in myTimers /\ t.duration \in Int /\ t.elapsed \in Nat
        BY DEF CooldownTimers, TypeOK, Timer
      <4>3. Elapsed(t, limit) \in Nat /\ Elapsed(t, limit) <= t.elapsed + sinceUpdate
        BY <4>2, ElapsedRange
      <4> QED
        BY <2>0, <3>3, <3>4, <4>1, <4>2, <4>3 DEF Due
    <3>6. myIsOnCooldown'[c]
      BY <3>1, <3>2, <3>4, <3>5, UpdatedCooldownTimers DEF PromiseKept
    <3>7. ASSUME NEW u \in CooldownTimers(c)'
          PROVE  owed'[c] + sinceUpdate' <= (u.duration - u.elapsed) + MaxFrame
      <4>1. PICK t \in CooldownTimers(c) : u = Aged(t, limit)
        BY <3>1, <3>2, UpdatedCooldownTimers
      <4>2. u.duration = t.duration /\ u.elapsed = Elapsed(t, limit)
        BY <4>1, AgedTimer DEF CooldownTimers
      <4> QED
        BY <3>3, <3>5, <4>1, <4>2
    <3> QED
      BY <3>6, <3>7
  <2>2. ASSUME NEW m \in Messages, ProcessMessage(m)
        PROVE  /\ myIsOnCooldown'[c]
               /\ \A t \in CooldownTimers(c)' :
                    owed'[c] + sinceUpdate' <= (t.duration - t.elapsed) + MaxFrame
    <3>1. c \in alive /\ c \in Command /\ sinceUpdate' = sinceUpdate
      BY <2>2 DEF ProcessMessage, TypeOK
    <3>2. CASE c \in Started(m) /\ StartsTimer(c)
      <4>1. CooldownTimers(c) = {}
        BY <3>1, <3>2 DEF CooldownHasItsTimer, StartsTimer
      <4>2. CooldownTimers(c)' = {CooldownTimer(c, myCommandCooldownTime[c])}
        BY <2>2, <3>1, <3>2, <4>1, StartedCooldownTimers
      <4>3. myCommandCooldownTime[c] \in CooldownTimes
        BY <3>1 DEF TypeOK
      <4>4. myCommandCooldownTime[c] \in Int
        BY <4>3, TimeAssumption
      <4> QED
        BY <2>0, <2>2, <3>1, <3>2, <4>2, <4>4, StartedCooldownTimers DEF CooldownTimer
    <3>3. CASE ~(c \in Started(m) /\ StartsTimer(c))
      <4>1. CooldownTimers(c)' = CooldownTimers(c) /\ owed'[c] = owed[c]
        BY <2>2, <3>1, <3>3, StartedCooldownTimers
      <4>2. myIsOnCooldown[c]
        BY <3>1, <4>1 DEF PromiseKept
      <4>3. c \notin Started(m)
        BY <4>2, ReachedEligible DEF Started, Eligible
      <4> QED
        BY <2>2, <3>1, <4>1, <4>2, <4>3, StartedCooldownTimers DEF PromiseKept
    <3> QED
      BY <3>2, <3>3
  <2>3. CASE UNCHANGED <<myIsOnCooldown, myTimers, owed, sinceUpdate>> /\ alive' \subseteq alive
    BY <2>3 DEF PromiseKept, CooldownTimers
  <2>4. CASE Tick
    <3>1. c \in alive /\ c \in Command /\ owed[c] \in Nat
      BY <2>4 DEF Tick, TypeOK
    <3>2. UNCHANGED <<myIsOnCooldown, myTimers>> /\ CooldownTimers(c)' = CooldownTimers(c)
      BY <2>4 DEF Tick, CooldownTimers
    <3>3. owed'[c] + sinceUpdate' = owed[c] + sinceUpdate
      BY <2>0, <2>4, <3>1 DEF Tick
    <3> QED
      BY <3>1, <3>2, <3>3 DEF PromiseKept
  <2> QED
    BY <2>1, <2>2, <2>3, <2>4, QuietSteps
<1>3. TypeOK /\ PromiseKept => CooldownCoversPromise
  <2> SUFFICES ASSUME TypeOK, PromiseKept, NEW c \in alive, owed[c] > MaxFrame
               PROVE  myIsOnCooldown[c]
    BY DEF CooldownCoversPromise
  <2>1. owed[c] \in Nat /\ sinceUpdate \in Nat /\ MaxFrame \in Nat
    BY TimeAssumption DEF TypeOK
  <2> QED
    BY <2>1 DEF PromiseKept
<1> QED
  BY <1>1, <1>2, <1>3, Typing, CooldownFlag, PTL DEF Spec

----------------------------------------------------------------------------
\* Why an input gets stuck: only for one of the four reasons.
THEOREM SticksForAReason == Spec => OnlyBadHoldsStick
<1> DEFINE Reason(a) ==
      \/ \E m \in Messages : \E c \in Pressing(m) :
           /\ ProcessMessage(m)
           /\ Holds[c].presses = a
           /\ \/ HoldTime(c, m.arg) = Unparsable
              \/ HoldTime(c, m.arg) > MaxElapsed
              \/ Holds[c].releases # a
      \/ Update /\ \E t \in myTimers : Releases(t, a) /\ t.of \notin alive
<1>1. ASSUME TypeOK, [Next]_vars, NEW a \in Address, Stuck(a)', ~Stuck(a)
      PROVE  Reason(a)
  <2>1. input'[a] = 1 /\ ~ \E t \in myTimers' : Releases(t, a) /\ t.duration <= MaxElapsed
    BY <1>1 DEF Stuck, Releases
  <2>2. input[a] = 1 => \E t \in myTimers : Releases(t, a) /\ t.duration <= MaxElapsed
    BY <1>1 DEF Stuck
  <2>3. CASE Update
    <3>1. PICK limit \in Limits : UpdateTimers(limit)
      BY <2>3 DEF Update
    <3> DEFINE due == {t \in myTimers : Due(t, limit)}
    <3>2. PICK lost \in SUBSET {t \in due : t.of \notin alive} :
            input' = [x \in Address |->
                        IF \E t \in due \ lost : Releases(t, x) THEN 0 ELSE input[x]]
      BY <3>1 DEF UpdateTimers
    <3>3. input[a] = 1 /\ \A t \in due \ lost : ~Releases(t, a)
      BY <2>1, <3>2
    <3>4. PICK t \in myTimers : Releases(t, a) /\ t.duration <= MaxElapsed
      BY <2>2, <3>3
    <3>5. t \in due
      <4> SUFFICES ASSUME t \notin due PROVE FALSE
        OBVIOUS
      <4>1. Aged(t, limit) \in myTimers'
        BY <3>1 DEF UpdateTimers, Aged
      <4>2. Releases(Aged(t, limit), a) /\ Aged(t, limit).duration <= MaxElapsed
        BY <1>1, <3>4, AgedTimer DEF Releases
      <4> QED
        BY <2>1, <4>1, <4>2
    <3> QED
      BY <2>3, <3>2, <3>3, <3>4, <3>5
  <2>4. ASSUME NEW m \in Messages, ProcessMessage(m) PROVE Reason(a)
    <3>1. PICK pressing \in {{}, Pressing(m)} :
            LET throwing == {c \in pressing : HoldTime(c, m.arg) = Unparsable}
            IN  /\ input' = [x \in Address |->
                     IF \E c \in pressing : Holds[c].presses = x THEN 1 ELSE input[x]]
                /\ myTimers \subseteq myTimers'
                /\ \A c \in pressing \ throwing :
                     ReleaseTimer(c, HoldTime(c, m.arg)) \in myTimers'
      BY <2>4 DEF ProcessMessage
    <3>2. input[a] # 1
      BY <2>1, <2>2, <3>1
    <3>3. PICK c \in pressing : Holds[c].presses = a
      BY <2>1, <3>1, <3>2
    <3>4. c \in Pressing(m) /\ c \in DOMAIN Holds
      BY DEF Pressing
    <3>5. CASE HoldTime(c, m.arg) = Unparsable
      BY <2>4, <3>3, <3>4, <3>5
    <3>6. CASE HoldTime(c, m.arg) # Unparsable
      <4>1. ReleaseTimer(c, HoldTime(c, m.arg)) \in myTimers'
        BY <3>1, <3>6
      <4>2. HoldTime(c, m.arg) \in Int
        BY <3>4, <3>6, HoldTimeRange
      <4>3. Holds[c].releases = a => ~(HoldTime(c, m.arg) <= MaxElapsed)
        BY <2>1, <4>1 DEF Releases, ReleaseTimer
      <4>4. Holds[c].releases = a => HoldTime(c, m.arg) > MaxElapsed
        BY <4>2, <4>3, TimeAssumption
      <4> QED
        BY <2>4, <3>3, <3>4, <4>4
    <3> QED
      BY <3>5, <3>6
  <2>5. CASE UNCHANGED <<myIsOnCooldown, myTimers, input>>
    BY <2>1, <2>2, <2>5
  <2> QED
    BY <1>1, <2>3, <2>4, <2>5, QuietSteps
<1>2. TypeOK /\ [Next]_vars => [\A a \in Address : Stuck(a)' /\ ~Stuck(a) => Reason(a)]_vars
  BY <1>1
<1> QED
  BY <1>2, Typing, PTL DEF Spec, OnlyBadHoldsStick

\* What is pending for a deleted command was pending before and only grows older:
\* no message reaches a command below a deleted one to start a timer on it, and
\* nothing sets one back (Command::HandleCommand, TimerManager::Update).
THEOREM DeletedGetNoTimer ==
  Spec => [][\A c \in Command \ alive : \A u \in TimersOf(c)' :
               \E t \in TimersOf(c) : /\ u = [t EXCEPT !.elapsed = u.elapsed]
                                      /\ u.elapsed >= t.elapsed]_vars
<1> DEFINE Older(c, u) == \E t \in TimersOf(c) : /\ u = [t EXCEPT !.elapsed = u.elapsed]
                                                 /\ u.elapsed >= t.elapsed
<1>1. ASSUME TypeOK, [Next]_vars, NEW c \in Command \ alive, NEW u \in TimersOf(c)'
      PROVE  Older(c, u)
  <2>1. u \in myTimers' /\ u.of = c
    BY <1>1 DEF TimersOf
  <2>2. CASE Update
    <3>1. PICK limit \in Limits : UpdateTimers(limit)
      BY <2>2 DEF Update
    <3>2. PICK t \in myTimers : u = Aged(t, limit)
      BY <2>1, <3>1 DEF UpdateTimers, Aged
    <3>3. u.of = t.of /\ u.elapsed = Elapsed(t, limit) /\ Elapsed(t, limit) >= t.elapsed
      BY <1>1, <3>2, AgedTimer, ElapsedRange
    <3>4. u = [t EXCEPT !.elapsed = u.elapsed]
      BY <3>2, <3>3 DEF Aged
    <3> QED
      BY <2>1, <3>3, <3>4 DEF TimersOf
  <2>3. CASE u \in myTimers
    <3>1. u \in Timer /\ u.elapsed \in Nat
      BY <1>1, <2>3 DEF TypeOK, Timer
    <3>2. u = [u EXCEPT !.elapsed = u.elapsed]
      BY <3>1 DEF Timer
    <3> QED
      BY <2>1, <2>3, <3>1, <3>2 DEF TimersOf
  <2>4. ASSUME NEW m \in Messages, ProcessMessage(m) PROVE u \in myTimers
    <3>1. \/ u \in myTimers
          \/ \E x \in Reached(m) : \E time : u \in {CooldownTimer(x, time), ReleaseTimer(x, time)}
      BY <2>1, <2>4 DEF ProcessMessage, Started, Pressing
    <3>2. u \notin myTimers => c \in Reached(m)
      BY <2>1, <3>1 DEF CooldownTimer, ReleaseTimer
    <3> QED
      BY <1>1, <3>2, ReachedEligible DEF Eligible
  <2> QED
    BY <1>1, <2>1, <2>2, <2>3, <2>4, QuietSteps
<1>2. TypeOK /\ [Next]_vars => [\A c \in Command \ alive : \A u \in TimersOf(c)' : Older(c, u)]_vars
  BY <1>1
<1> QED
  BY <1>2, Typing, PTL DEF Spec

----------------------------------------------------------------------------
(* What CooldownEnds and HeldIsReleased rest on: no tick is lost.          *)

\* A timer that a float sum can take to its duration.
CanCount(t) == t.duration <= StallAt \/ (t.duration <= MaxElapsed /\ ~spun)

\* The timer is still there, and with the time since the last update it has
\* counted every tick; after an update it is one that is not due.
CountsOn(t) ==
  \E u \in myTimers' :
    /\ u = [t EXCEPT !.elapsed = u.elapsed]
    /\ u.elapsed + sinceUpdate' = t.elapsed + sinceUpdate + (IF Tick THEN 1 ELSE 0)
    /\ Update => u.elapsed < t.duration

\* Its time is over, and what it was started for is done.
Fires(t) ==
  /\ Update
  /\ t.elapsed + sinceUpdate >= t.duration
  /\ t.callback = "cooldown" => ~myIsOnCooldown'[t.of]
  /\ t.callback = "release" /\ t.of \in alive => input'[Holds[t.of].releases] = 0

\* With such a timer the sum stays below the limit for as long as it is not due.
LEMMA ElapsedExactly ==
  ASSUME TypeOK, NEW t \in myTimers, CanCount(t), NEW limit \in Limits
  PROVE  IF Due(t, limit) THEN t.elapsed + sinceUpdate >= t.duration
                          ELSE /\ Elapsed(t, limit) = t.elapsed + sinceUpdate
                               /\ Elapsed(t, limit) < t.duration
<1>1. t.elapsed \in Nat /\ t.duration \in Int /\ sinceUpdate \in Nat
  BY TimeAssumption DEF TypeOK, Timer
<1>2. limit \in Nat /\ t.duration <= limit
  BY <1>1, TimeAssumption DEF CanCount, Limits
<1>3. \/ t.elapsed >= limit /\ Elapsed(t, limit) = t.elapsed
      \/ t.elapsed < limit /\ Elapsed(t, limit) = Least(t.elapsed + sinceUpdate, limit)
  BY <1>1, <1>2 DEF Elapsed
<1> QED  BY <1>1, <1>2, <1>3 DEF Due, Least

LEMMA UpdateCounts ==
  ASSUME TypeOK, Update, NEW t \in myTimers, CanCount(t)
  PROVE  CountsOn(t) \/ Fires(t)
<1>1. PICK limit \in Limits : UpdateTimers(limit)
  BY DEF Update
<1>2. /\ t.elapsed \in Nat /\ t.duration \in Int /\ sinceUpdate \in Nat /\ t.of \in Command
      /\ t \in Timer /\ sinceUpdate' = 0 /\ ~Tick
  BY TimeAssumption DEF TypeOK, Timer, Update, Tick, Running
<1>3. CASE ~Due(t, limit)
  <2> DEFINE u == Aged(t, limit)
  <2>1. u \in myTimers'
    BY <1>1, <1>3 DEF UpdateTimers, Aged
  <2>2. u.elapsed = t.elapsed + sinceUpdate /\ u.elapsed < t.duration
    BY <1>3, AgedTimer, ElapsedExactly
  <2>3. u = [t EXCEPT !.elapsed = u.elapsed]
    BY AgedTimer DEF Aged
  <2> HIDE DEF u
  <2>4. u.elapsed + sinceUpdate' = t.elapsed + sinceUpdate + (IF Tick THEN 1 ELSE 0)
    BY <1>2, <2>2
  <2> QED  BY <2>1, <2>2, <2>3, <2>4 DEF CountsOn
<1>4. CASE Due(t, limit)
  <2>1. t.elapsed + sinceUpdate >= t.duration
    BY <1>4, ElapsedExactly
  <2>2. t.callback = "cooldown" => ~myIsOnCooldown'[t.of]
    BY <1>1, <1>2, <1>4 DEF UpdateTimers, EndsCooldown
  <2>3. t.callback = "release" /\ t.of \in alive => input'[Holds[t.of].releases] = 0
    <3> SUFFICES ASSUME t.callback = "release", t.of \in alive
                 PROVE  input'[Holds[t.of].releases] = 0
      OBVIOUS
    <3>1. Holds[t.of].releases \in Address
      BY HoldAssumption DEF TypeOK
    <3>2. PICK lost \in SUBSET {x \in {y \in myTimers : Due(y, limit)} : x.of \notin alive} :
            input' = [a \in Address |->
                        IF \E x \in {y \in myTimers : Due(y, limit)} \ lost : Releases(x, a)
                        THEN 0 ELSE input[a]]
      BY <1>1 DEF UpdateTimers
    <3>3. t \in {y \in myTimers : Due(y, limit)} \ lost /\ Releases(t, Holds[t.of].releases)
      BY <1>4 DEF Releases
    <3> QED  BY <3>1, <3>2, <3>3
  <2> QED  BY <2>1, <2>2, <2>3 DEF Fires
<1> QED  BY <1>3, <1>4

\* Every tick counts for every timer whose duration a float sum can reach: no
\* message, edit, deletion or minimised window takes one back or lets a timer
\* go, and the first update after `duration` ticks ends the cooldown or releases
\* the input (TimerManager::Update).
THEOREM NoTickIsLost ==
  Spec => [][\A t \in myTimers : CanCount(t) => CountsOn(t) \/ Fires(t)]_vars
<1>1. ASSUME TypeOK, Next, NEW t \in myTimers, CanCount(t)
      PROVE  CountsOn(t) \/ Fires(t)
  <2>1. t \in Timer /\ t.elapsed \in Nat /\ sinceUpdate \in Nat
    BY <1>1, TimeAssumption DEF TypeOK, Timer
  <2>2. t = [t EXCEPT !.elapsed = t.elapsed]
    BY <2>1 DEF Timer
  <2>3. CASE Update
    BY <1>1, <2>3, UpdateCounts
  <2>4. CASE Tick
    <3>1. t \in myTimers' /\ sinceUpdate' = sinceUpdate + 1
      BY <2>4 DEF Tick
    <3>2. ~Update
      BY <2>1, <2>4, <3>1 DEF Update
    <3> QED  BY <2>1, <2>2, <2>4, <3>1, <3>2 DEF CountsOn
  <2>5. CASE ~Tick /\ ~Update /\ UNCHANGED sinceUpdate /\ myTimers \subseteq myTimers'
    BY <2>1, <2>2, <2>5 DEF CountsOn
  <2>6. \/ Update \/ Tick
        \/ UNCHANGED sinceUpdate /\ myTimers \subseteq myTimers'
    BY <1>1, QuietSteps DEF ProcessMessage
  <2> QED  BY <2>3, <2>4, <2>5, <2>6
<1>2. TypeOK /\ [Next]_vars => [\A t \in myTimers : CanCount(t) => CountsOn(t) \/ Fires(t)]_vars
  BY <1>1
<1> QED  BY <1>2, Typing, PTL DEF Spec

----------------------------------------------------------------------------
(* What a cooldown means to the chat.                                      *)

\* No message makes a command run again before the cooldown that the UI shows
\* is over, short of one frame, whatever is edited or deleted in between
\* (Bot::HandleCommands, Command::HandleCommand).
THEOREM NoEarlyRerun ==
  Spec => [][\A m \in Messages : ProcessMessage(m) =>
               \A c \in Reached(m) : owed[c] <= MaxFrame]_vars
<1>1. ASSUME TypeOK, CooldownCoversPromise, NEW m \in Messages, NEW c \in Reached(m)
      PROVE  owed[c] <= MaxFrame
  <2>1. c \in alive /\ ~myIsOnCooldown[c]
    BY <1>1, ReachedEligible DEF Eligible
  <2>2. owed[c] \in Nat /\ MaxFrame \in Nat
    BY <1>1, ReachedEligible, TimeAssumption DEF TypeOK
  <2>3. ~(owed[c] > MaxFrame)
    BY <1>1, <2>1 DEF CooldownCoversPromise
  <2> QED
    BY <2>2, <2>3
<1>2. TypeOK /\ CooldownCoversPromise /\ [Next]_vars =>
        [\A m \in Messages : ProcessMessage(m) =>
           \A c \in Reached(m) : owed[c] <= MaxFrame]_vars
  BY <1>1
<1> QED
  BY <1>2, Typing, CooldownIsHonoured, PTL DEF Spec

\* But a root command without sub-commands, as the UI's "Add Command" makes,
\* never goes on cooldown, whatever time is set for it: HandleCommands runs it
\* without StartCooldown (Bot.cpp:49), and HandleCommand starts the subcommands'.
THEOREM BareRootNeverCools == Spec => [](Subs[Root] = {} => ~myIsOnCooldown[Root])
<1> DEFINE Inv == Subs[Root] = {} => ~myIsOnCooldown[Root]
<1>1. Init => Inv
  BY TreeAssumption DEF Init
<1>2. ASSUME TypeOK, Inv, [Next]_vars, Subs[Root] = {}  PROVE ~myIsOnCooldown'[Root]
  <2>1. ~myIsOnCooldown[Root] /\ Root \in Command
    BY <1>2, TreeAssumption
  <2>2. CASE Update
    BY <2>1, <2>2 DEF Update, UpdateTimers
  <2>3. ASSUME NEW m \in Messages, ProcessMessage(m)  PROVE ~myIsOnCooldown'[Root]
    <3>1. Root \notin Started(m)
      BY <1>2 DEF Started, HasSubCommands
    <3> QED
      BY <2>1, <2>3, <3>1 DEF ProcessMessage
  <2> QED
    BY <1>2, <2>1, <2>2, <2>3, QuietSteps
<1>3. TypeOK /\ Inv /\ [Next]_vars => Inv'
  BY <1>2
<1> QED
  BY <1>1, <1>3, Typing, PTL DEF Spec
=============================================================================
