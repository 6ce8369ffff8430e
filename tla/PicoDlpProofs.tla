---------------------------- MODULE PicoDlpProofs ----------------------------
(***************************************************************************)
(* Proofs about PicoDlp, for any number of users and failing runs.         *)
(***************************************************************************)
EXTENDS PicoDlp, TLAPS

LEMMA OrderOf ==
    /\ Setting = {"hflip", "vflip", "temporal_enhance", "rled", "gled", "bled", "itp", "ledc"}
    /\ Order["hflip"] = <<"0x08">> /\ Order["vflip"] = <<"0x09">>
    /\ Order["temporal_enhance"] = <<"0x26">> /\ Order["rled"] = <<"0x11">>
    /\ Order["gled"] = <<"0x12">> /\ Order["bled"] = <<"0x13">>
    /\ Order["itp"] = <<"0x0B", "0x04">> /\ Order["ledc"] = <<"0x0E", "0x0F", "0x10">>
BY DEF Setting, Order

\* A setting has one register or more, and the registers of
\* two settings have nothing in common.
LEMMA OrderIsSeq ==
    \A s \in Setting : /\ Len(Order[s]) \in 1..3
                       /\ DOMAIN Order[s] = 1..Len(Order[s])
                       /\ \A k \in 1..Len(Order[s]) : Order[s][k] \in Regs(s)
                       /\ \A r \in Regs(s) : \E k \in 1..Len(Order[s]) : Order[s][k] = r
                       /\ Regs(s) \subseteq Reg
<1> SUFFICES ASSUME NEW s \in Setting
             PROVE  /\ Len(Order[s]) \in 1..3
                    /\ DOMAIN Order[s] = 1..Len(Order[s])
                    /\ \A k \in 1..Len(Order[s]) : Order[s][k] \in Regs(s)
                    /\ \A r \in Regs(s) : \E k \in 1..Len(Order[s]) : Order[s][k] = r
                    /\ Regs(s) \subseteq Reg
  OBVIOUS
<1>2. Regs(s) \subseteq Reg
  BY DEF Reg
<1>3. Len(Order[s]) \in 1..3 /\ DOMAIN Order[s] = 1..Len(Order[s])
  <2>1. CASE s \in {"hflip", "vflip", "temporal_enhance", "rled", "gled", "bled"}
    <3>1. PICK r : Order[s] = <<r>>
      BY <2>1, OrderOf
    <3> QED
      BY <3>1
  <2>2. CASE s = "itp"
    BY <2>2, OrderOf
  <2>3. CASE s = "ledc"
    BY <2>3, OrderOf
  <2> QED
    BY <2>1, <2>2, <2>3, OrderOf
<1>4. DOMAIN Order[s] = 1..Len(Order[s])
  BY <1>3
<1>5. \A k \in 1..Len(Order[s]) : Order[s][k] \in Regs(s)
  BY <1>4 DEF Regs
<1>6. \A r \in Regs(s) : \E k \in 1..Len(Order[s]) : Order[s][k] = r
  BY <1>4 DEF Regs
<1> QED
  BY <1>2, <1>3, <1>4, <1>5, <1>6

LEMMA RegsOf ==
    /\ Setting = {"hflip", "vflip", "temporal_enhance", "rled", "gled", "bled", "itp", "ledc"}
    /\ Regs("hflip") = {"0x08"} /\ Regs("vflip") = {"0x09"}
    /\ Regs("temporal_enhance") = {"0x26"} /\ Regs("rled") = {"0x11"}
    /\ Regs("gled") = {"0x12"} /\ Regs("bled") = {"0x13"}
    /\ Regs("itp") = {"0x0B", "0x04"} /\ Regs("ledc") = {"0x0E", "0x0F", "0x10"}
BY DEF Setting, Regs, Order

LEMMA RegsDisjoint ==
    \A s, t \in Setting : s # t => Regs(s) \cap Regs(t) = {}
<1> SUFFICES ASSUME NEW s \in Setting, NEW t \in Setting, NEW r \in Regs(s), r \in Regs(t)
             PROVE  s = t
  OBVIOUS
<1> DEFINE Home(q) ==
      CASE q = "0x08" -> "hflip" [] q = "0x09" -> "vflip" [] q = "0x26" -> "temporal_enhance"
        [] q = "0x11" -> "rled" [] q = "0x12" -> "gled" [] q = "0x13" -> "bled"
        [] q \in {"0x0B", "0x04"} -> "itp" [] OTHER -> "ledc"
<1>1. \A q \in Setting : \A w \in Regs(q) : Home(w) = q
  BY RegsOf
<1> QED
  BY <1>1

\* A register has its place in the order once.
LEMMA OrderOnce ==
    \A s \in Setting : \A j, k \in 1..Len(Order[s]) : Order[s][j] = Order[s][k] => j = k
<1> SUFFICES ASSUME NEW s \in Setting, NEW j \in 1..Len(Order[s]), NEW k \in 1..Len(Order[s]),
                    Order[s][j] = Order[s][k]
             PROVE  j = k
  OBVIOUS
<1>1. CASE s \in {"hflip", "vflip", "temporal_enhance", "rled", "gled", "bled"}
  <2>1. PICK r : Order[s] = <<r>>
    BY <1>1, OrderOf
  <2> QED
    BY <2>1
<1>2. CASE s = "itp"
  <2>1. j \in {1, 2} /\ k \in {1, 2}
    BY <1>2, OrderOf
  <2> QED
    BY <1>2, <2>1, OrderOf
<1>3. CASE s = "ledc"
  <2>1. j \in {1, 2, 3} /\ k \in {1, 2, 3}
    BY <1>3, OrderOf
  <2> QED
    BY <1>3, <2>1, OrderOf
<1> QED
  BY <1>1, <1>2, <1>3, OrderOf

LEMMA CommandType ==
    \A c \in Command : /\ c = [setting |-> c.setting, value |-> c.value]
                       /\ c.setting \in Setting
                       /\ c.value \in [Regs(c.setting) -> Value]
<1> SUFFICES ASSUME NEW s \in Options \cap Setting, NEW v \in {"0", "1"}, NEW p \in Params
             PROVE  Wanted(s, v, p) \in [Regs(s) -> Value]
  BY DEF Command
<1>1. p[3] \in Value /\ p[4] \in Value /\ p[5] \in Value /\ p[6] \in Value
  BY PicoAssumption DEF Value
<1>2. OnOff(v) \in Value /\ WORD_OFF \in Value
  BY DEF OnOff, Value
<1> QED
  BY <1>1, <1>2 DEF Wanted
-----------------------------------------------------------------------------
\* A command that is not dirty has written the first done registers; two commands
\* half way through one setting are both dirty.
Kept ==
    \A u \in User \ dirty : \A c \in cmd[u] :
        \A k \in 1..done[u] : reg[Order[c.setting][k]] = c.value[Order[c.setting][k]]
MetAreDirty ==
    \A s \in Setting : \A u, v \in Midway(s) : u # v => u \in dirty

IInv == TypeOK /\ Kept /\ MetAreDirty

LEMMA InitInv == Init => IInv
<1> SUFFICES ASSUME Init PROVE IInv
  OBVIOUS
<1>1. "0x08" \in Reg
  BY RegsOf DEF Reg
<1>2. TypeOK
  BY <1>1, PicoAssumption DEF Init, TypeOK, Value
<1>3. Kept /\ MetAreDirty
  BY DEF Init, Kept, MetAreDirty, Midway
<1> QED
  BY <1>2, <1>3 DEF IInv

\* What a run of bus3-i2c does to the registers.
LEMMA ToolRunEffect ==
    ASSUME TypeOK, NEW c \in Command, NEW r \in Regs(c.setting), ToolRun(c, r)
    PROVE  /\ reg' \in [Reg -> Value \ {Missing}]
           /\ failures' \in 0..MaxFailures
           /\ \A q \in Reg \ {r} : reg'[q] = reg[q]
           /\ reg'[r] = c.value[r] \/ reg' = reg
<1>1. c.setting \in Setting /\ c.value[r] \in Value
  BY CommandType
<1>2. r \in Reg
  BY <1>1, OrderIsSeq
<1> QED
  BY SMTT(30), <1>1, <1>2, PicoAssumption DEF ToolRun, TypeOK

\* The registers a command's next run writes.
LEMMA NextRegister ==
    ASSUME TypeOK, NEW u \in User, NEW c \in cmd[u]
    PROVE  /\ c \in Command /\ c.setting \in Setting /\ cmd[u] = {c}
           /\ done[u] \in Nat /\ done[u] + 1 \in 1..Len(Order[c.setting])
           /\ Order[c.setting][done[u] + 1] \in Regs(c.setting)
<1>1. c \in Command /\ done[u] \in Nat /\ done[u] < Len(Order[c.setting]) /\ cmd[u] = {c}
  BY DEF TypeOK
<1>2. c.setting \in Setting
  BY <1>1, CommandType
<1>3. Len(Order[c.setting]) \in Nat
  BY <1>2, OrderIsSeq
<1>4. done[u] + 1 \in 1..Len(Order[c.setting])
  BY <1>1, <1>3
<1> QED
  BY <1>1, <1>2, <1>4, OrderIsSeq
-----------------------------------------------------------------------------
LEMMA StartKeeps ==
    ASSUME IInv, NEW u \in User, NEW c \in Command, Start(u, c)
    PROVE  IInv'
<1>0. /\ cmd[u] = {} /\ done[u] = 0 /\ cmd' = [cmd EXCEPT ![u] = {c}]
      /\ UNCHANGED <<reg, done, failures, dirty, spoiled>>
  BY DEF Start, IInv, TypeOK, history
<1>1. Len(Order[c.setting]) \in Nat \ {0}
  <2>1. c.setting \in Setting
    BY CommandType
  <2>2. Len(Order[c.setting]) \in 1..3
    BY <2>1, OrderIsSeq
  <2> QED
    BY SMTT(30), <2>2
<1>2. TypeOK'
  BY <1>0, <1>1 DEF IInv, TypeOK
<1>3. Kept'
  BY <1>0 DEF IInv, TypeOK, Kept
<1>4. MetAreDirty'
  <2>1. \A s \in Setting : Midway(s)' = Midway(s)
    BY <1>0 DEF IInv, TypeOK, Midway
  <2> QED
    BY <1>0, <2>1 DEF IInv, MetAreDirty
<1> QED
  BY <1>2, <1>3, <1>4 DEF IInv

\* What a write does, whichever it is.
LEMMA WriteEffect ==
    ASSUME IInv, NEW u \in User, NEW c \in cmd[u], Write(u), WriteMore(u, c) \/ WriteLast(u, c),
           NEW r, r = Order[c.setting][done[u] + 1]
    PROVE  /\ TypeOK'
           /\ r \in Regs(c.setting) /\ ToolRun(c, r)
           /\ \A v \in User \ {u} : cmd'[v] = cmd[v] /\ done'[v] = done[v]
           /\ dirty' \ {u} = Harmed(u, c, r) \ {u}
<1>1. /\ c \in Command /\ c.setting \in Setting /\ cmd[u] = {c}
      /\ done[u] \in Nat /\ done[u] + 1 \in 1..Len(Order[c.setting])
      /\ r \in Regs(c.setting) /\ TypeOK
  BY NextRegister DEF IInv
<1>3. ToolRun(c, r)
  BY DEF WriteMore, WriteLast
<1>4. reg' \in [Reg -> Value \ {Missing}] /\ failures' \in 0..MaxFailures
  BY <1>1, <1>3, ToolRunEffect
<1>5. Harmed(u, c, r) \subseteq User
  BY <1>1 DEF Harmed, Disturbed, Midway, TypeOK
<1>6. spoiled' \subseteq Setting
  BY <1>1 DEF WriteMore, WriteLast, Verdict, TypeOK
<1>7. dirty' \subseteq User /\ dirty' \ {u} = Harmed(u, c, r) \ {u}
  BY <1>5 DEF WriteMore, WriteLast
<1>8. CASE WriteMore(u, c)
  <2>1. cmd' = cmd /\ done' = [done EXCEPT ![u] = done[u] + 1]
        /\ done[u] + 1 < Len(Order[c.setting])
    BY <1>8 DEF WriteMore
  <2>2. TypeOK'
    <3>1. done' \in [User -> Nat] /\ done'[u] = done[u] + 1 /\ done'[u] < Len(Order[c.setting])
          /\ \A v \in User \ {u} : done'[v] = done[v]
      BY <1>1, <2>1 DEF TypeOK
    <3>2. \A v \in User :
            /\ \A d \in cmd[v] : done'[v] < Len(Order[d.setting]) /\ cmd[v] = {d}
            /\ cmd[v] = {} => done'[v] = 0
      <4>1. \A v \in User : /\ \A d \in cmd[v] : done[v] < Len(Order[d.setting]) /\ cmd[v] = {d}
                            /\ cmd[v] = {} => done[v] = 0
        BY <1>1 DEF TypeOK
      <4> QED
        BY <1>1, <3>1, <4>1
    <3>3. cmd \in [User -> SUBSET Command]
      BY <1>1 DEF TypeOK
    <3> QED
      BY <1>4, <1>6, <1>7, <2>1, <3>1, <3>2, <3>3 DEF TypeOK
  <2>3. \A v \in User \ {u} : done'[v] = done[v]
    BY <1>1, <2>1 DEF TypeOK
  <2> QED
    BY <1>1, <1>3, <1>7, <2>1, <2>2, <2>3
<1>9. CASE WriteLast(u, c)
  <2>1. cmd' = [cmd EXCEPT ![u] = {}] /\ done' = [done EXCEPT ![u] = 0]
    BY <1>9 DEF WriteLast
  <2>2. TypeOK'
    BY <1>1, <1>4, <1>6, <1>7, <2>1 DEF TypeOK
  <2> QED
    BY <1>1, <1>3, <1>7, <2>1, <2>2 DEF TypeOK
<1> QED
  BY <1>8, <1>9

LEMMA WriteKeeps ==
    ASSUME IInv, NEW u \in User, Write(u)
    PROVE  IInv'
<1>1. PICK c \in cmd[u] : WriteMore(u, c) \/ WriteLast(u, c)
  BY DEF Write
<1> DEFINE s == c.setting
           r == Order[s][done[u] + 1]
<1>2. /\ TypeOK'
      /\ r \in Regs(s) /\ ToolRun(c, r)
      /\ \A v \in User \ {u} : cmd'[v] = cmd[v] /\ done'[v] = done[v]
      /\ dirty' \ {u} = Harmed(u, c, r) \ {u}
  BY <1>1, WriteEffect
<1>3. /\ c \in Command /\ s \in Setting /\ cmd[u] = {c}
      /\ done[u] \in Nat /\ done[u] + 1 \in 1..Len(Order[s]) /\ TypeOK
  BY NextRegister DEF IInv
<1>4. /\ \A q \in Reg \ {r} : reg'[q] = reg[q]
      /\ reg'[r] = c.value[r] \/ reg' = reg
  BY <1>2, <1>3, ToolRunEffect
<1>5. r \in Reg
  BY <1>2, <1>3, OrderIsSeq
<1>6. dirty \ {u} \subseteq dirty' /\ Disturbed(u, c) \ {u} \subseteq dirty'
  BY <1>2 DEF Harmed
\* Another user's registers are written only if that user becomes dirty.
<1>7. ASSUME NEW v \in User \ dirty', v # u, NEW d \in cmd'[v], NEW k \in 1..done'[v]
      PROVE  reg'[Order[d.setting][k]] = d.value[Order[d.setting][k]]
  <2>1. d \in cmd[v] /\ done'[v] = done[v] /\ v \notin dirty
    BY <1>2, <1>6, <1>7
  <2>2. d \in Command /\ d.setting \in Setting /\ done[v] \in Nat
        /\ done[v] + 1 \in 1..Len(Order[d.setting])
    BY <1>3, <2>1, NextRegister
  <2>3. Len(Order[d.setting]) \in Nat
    BY <2>2, OrderIsSeq
  <2>4. k \in 1..Len(Order[d.setting]) /\ done[v] > 0
    BY <1>7, <2>1, <2>2, <2>3
  <2>5. Order[d.setting][k] \in Regs(d.setting) /\ Order[d.setting][k] \in Reg
    BY <2>2, <2>4, OrderIsSeq
  <2>6. d.setting # s
    <3>1. SUFFICES ASSUME d.setting = s PROVE FALSE
      OBVIOUS
    <3>2. v \in Midway(s)
      BY <2>1, <2>4, <3>1 DEF Midway
    <3>3. v \in Disturbed(u, c)
      BY <1>7, <3>2 DEF Disturbed
    <3> QED
      BY <1>6, <1>7, <3>3
  <2>7. Order[d.setting][k] # r
    BY <1>2, <1>3, <2>2, <2>5, <2>6, RegsDisjoint
  <2>8. reg'[Order[d.setting][k]] = reg[Order[d.setting][k]]
    BY <1>4, <2>5, <2>7
  <2> QED
    BY <1>7, <2>1, <2>8 DEF IInv, Kept
<1>8. Kept'
  <2>1. CASE WriteMore(u, c)
    <3>1. cmd' = cmd /\ done' = [done EXCEPT ![u] = done[u] + 1] /\ dirty' = Harmed(u, c, r)
      BY <2>1 DEF WriteMore
    <3>2. ASSUME u \notin dirty', NEW k \in 1..done'[u]
          PROVE  reg'[Order[s][k]] = c.value[Order[s][k]]
      <4>1. u \notin dirty /\ reg'[r] = c.value[r]
        BY <3>1, <3>2 DEF Harmed
      <4>2. done'[u] = done[u] + 1
        BY <1>3, <3>1 DEF TypeOK
      <4>3. CASE k = done[u] + 1
        BY <4>1, <4>3
      <4>4. CASE k # done[u] + 1
        <5>1. k \in 1..done[u] /\ k \in 1..Len(Order[s])
          BY <1>3, <4>2, <4>4, OrderIsSeq
        <5>2. reg[Order[s][k]] = c.value[Order[s][k]]
          BY <1>3, <4>1, <5>1 DEF IInv, Kept
        <5>3. Order[s][k] # r
          BY <1>3, <4>4, <5>1, OrderOnce
        <5>4. Order[s][k] \in Reg
          BY <1>3, <5>1, OrderIsSeq
        <5> QED
          BY <1>4, <5>2, <5>3, <5>4
      <4> QED
        BY <4>3, <4>4
    <3> QED
      BY <1>3, <1>7, <3>1, <3>2 DEF Kept
  <2>2. CASE WriteLast(u, c)
    <3>1. cmd'[u] = {}
      BY <1>3, <2>2 DEF WriteLast, TypeOK
    <3> QED
      BY <1>7, <3>1 DEF Kept
  <2> QED
    BY <1>1, <2>1, <2>2
<1>9. MetAreDirty'
  <2>1. SUFFICES ASSUME NEW t \in Setting, NEW v \in Midway(t)', NEW w \in Midway(t)', v # w
                 PROVE  v \in dirty'
    BY DEF MetAreDirty
  <2>2. v \in User /\ w \in User
    BY DEF Midway
  <2>3. \A a \in User \ {u} : a \in Midway(t)' => a \in Midway(t)
    BY <1>2 DEF Midway
  <2>4. CASE v # u /\ w # u
    BY <1>6, <2>1, <2>2, <2>3, <2>4 DEF IInv, MetAreDirty
  <2>5. CASE v = u \/ w = u
    <3>1. u \in Midway(t)'
      BY <2>5
    <3>2. WriteMore(u, c)
      <4>1. ~WriteLast(u, c)
        BY <1>3, <3>1 DEF WriteLast, Midway, TypeOK
      <4> QED
        BY <1>1, <4>1
    <3>3. cmd' = cmd /\ dirty' = Harmed(u, c, r)
      BY <3>2 DEF WriteMore
    <3>4. t = s
      BY <1>3, <3>1, <3>3 DEF Midway
    <3>5. PICK a \in {v, w} : a # u /\ a \in Midway(s)
      BY <2>1, <2>2, <2>3, <2>5, <3>4
    <3>6. {u, a} \subseteq Disturbed(u, c)
      BY <3>5 DEF Disturbed
    <3>7. {u, a} \subseteq dirty'
      BY <3>3, <3>6 DEF Harmed
    <3> QED
      BY <2>1, <2>5, <3>5, <3>7
  <2> QED
    BY <2>4, <2>5
<1> QED
  BY <1>2, <1>8, <1>9 DEF IInv

LEMMA StutterKeeps ==
    ASSUME IInv, UNCHANGED vars
    PROVE  IInv'
<1>1. UNCHANGED <<reg, cmd, done, failures, dirty, spoiled>>
  BY DEF vars, history
<1>2. TypeOK' /\ Kept'
  BY SMTT(30), <1>1 DEF IInv, TypeOK, Kept
<1>3. \A s \in Setting : Midway(s)' = Midway(s)
  BY <1>1 DEF Midway
<1>4. MetAreDirty'
  BY <1>1, <1>3 DEF IInv, MetAreDirty
<1> QED
  BY <1>2, <1>4 DEF IInv

\* The inductive invariant.
THEOREM PicoInvariant == Spec => []IInv
<1>1. ASSUME IInv, [Next]_vars PROVE IInv'
  <2>1. CASE UNCHANGED vars
    BY <1>1, <2>1, StutterKeeps
  <2>2. CASE Next
    <3>1. PICK u \in User : (\E c \in Command : Start(u, c)) \/ Write(u)
      BY <2>2 DEF Next
    <3> QED
      BY <1>1, <3>1, StartKeeps, WriteKeeps
  <2> QED
    BY <1>1, <2>1, <2>2
<1> QED
  BY <1>1, InitInv, PTL DEF Spec

\* The shape of the state.
THEOREM PicoTypeCorrect == Spec => []TypeOK
<1>1. IInv => TypeOK
  BY DEF IInv
<1> QED
  BY <1>1, PicoInvariant, PTL
-----------------------------------------------------------------------------
\* The projector as its users see it: a setting that takes several registers is
\* chosen as a whole or left unknown.
Shown(s) == IF Settled(s) THEN {[r \in Regs(s) |-> reg[r]]} ELSE {}

\* A command in its setting changes nothing of the others.
LEMMA OthersKept ==
    ASSUME IInv, NEW u \in User, Write(u),
           NEW c \in cmd[u], WriteMore(u, c) \/ WriteLast(u, c),
           NEW t \in Setting \ {c.setting}
    PROVE  Shown(t)' = Shown(t)
<1> DEFINE r == Order[c.setting][done[u] + 1]
<1>1. /\ TypeOK' /\ r \in Regs(c.setting) /\ ToolRun(c, r)
      /\ \A v \in User \ {u} : cmd'[v] = cmd[v] /\ done'[v] = done[v]
  BY WriteEffect
<1>2. c \in Command /\ c.setting \in Setting /\ cmd[u] = {c} /\ TypeOK
  BY NextRegister DEF IInv
<1>3. cmd'[u] \subseteq {c}
  BY <1>2 DEF WriteMore, WriteLast, TypeOK
<1>4. Midway(t)' = Midway(t)
  BY <1>1, <1>2, <1>3 DEF Midway
<1>5. t \in spoiled' <=> t \in spoiled
  BY DEF WriteMore, WriteLast, Verdict
<1>6. ASSUME NEW q \in Regs(t) PROVE reg'[q] = reg[q]
  <2>1. q # r /\ q \in Reg
    BY <1>1, <1>2, RegsDisjoint, OrderIsSeq
  <2> QED
    BY <1>1, <1>2, <2>1, ToolRunEffect
<1>7. [q \in Regs(t) |-> reg[q]]' = [q \in Regs(t) |-> reg[q]]
  BY <1>6
<1> QED
  BY <1>4, <1>5, <1>7 DEF Shown, Settled

\* Behind a write, its own setting is what the command chose, or unknown, or as before.
LEMMA OwnSetting ==
    ASSUME IInv, NEW u \in User, Write(u), NEW c \in cmd[u], WriteLast(u, c)
    PROVE  \/ Shown(c.setting)' = {c.value}
           \/ Shown(c.setting)' = {}
           \/ Shown(c.setting)' = Shown(c.setting)
<1> DEFINE s == c.setting
           r == Order[s][done[u] + 1]
<1>1. /\ TypeOK' /\ r \in Regs(s) /\ ToolRun(c, r)
      /\ \A v \in User \ {u} : cmd'[v] = cmd[v] /\ done'[v] = done[v]
  BY WriteEffect
<1>2. /\ c \in Command /\ s \in Setting /\ cmd[u] = {c} /\ TypeOK
      /\ done[u] \in Nat /\ done[u] + 1 = Len(Order[s])
  BY NextRegister DEF IInv, WriteLast
<1>3. /\ \A q \in Reg \ {r} : reg'[q] = reg[q]
      /\ reg'[r] = c.value[r] \/ reg' = reg
  BY <1>1, <1>2, ToolRunEffect
<1>4. Midway(s)' = Midway(s) \ {u}
  BY <1>1, <1>2 DEF Midway, WriteLast, TypeOK
<1>5. c.value = [q \in Regs(s) |-> c.value[q]]
  BY <1>2, CommandType
<1>6. spoiled' = Verdict(u, c, r)
  BY DEF WriteLast
<1>7. CASE u \notin Harmed(u, c, r)
  <2>1. u \notin dirty /\ u \notin Disturbed(u, c) /\ reg'[r] = c.value[r]
    BY <1>7 DEF Harmed
  <2>2. Midway(s)' = {} /\ s \notin spoiled'
    BY <1>2, <1>4, <1>6, <1>7, <2>1 DEF Disturbed, Verdict
  <2>3. ASSUME NEW q \in Regs(s) PROVE reg'[q] = c.value[q]
    <3>1. PICK k \in 1..Len(Order[s]) : Order[s][k] = q
      BY <1>2, OrderIsSeq
    <3>2. CASE q = r
      BY <2>1, <3>2
    <3>3. CASE q # r
      <4>1. k \in 1..done[u]
        BY <1>2, <3>1, <3>3
      <4>2. reg[q] = c.value[q]
        BY <2>1, <3>1, <4>1 DEF IInv, Kept
      <4>3. q \in Reg
        BY <1>2, OrderIsSeq
      <4> QED
        BY <1>3, <3>3, <4>2, <4>3
    <3> QED
      BY <3>2, <3>3
  <2>4. [q \in Regs(s) |-> reg[q]]' = c.value
    BY <1>5, <2>3
  <2> QED
    BY <2>2, <2>4 DEF Shown, Settled
<1>8. CASE u \in Harmed(u, c, r) /\ Len(Order[s]) > 1
  <2>1. s \in spoiled'
    BY <1>6, <1>8 DEF Verdict
  <2> QED
    BY <2>1 DEF Shown, Settled
<1>9. CASE u \in Harmed(u, c, r) /\ ~(Len(Order[s]) > 1)
  <2>1. done[u] = 0 /\ spoiled' = spoiled
    BY <1>2, <1>6, <1>9 DEF Verdict
  <2>2. Midway(s)' = Midway(s)
    BY <1>4, <2>1 DEF Midway
  <2>3. CASE reg' = reg
    BY <2>1, <2>2, <2>3 DEF Shown, Settled
  <2>4. CASE reg'[r] = c.value[r]
    <3>1. ASSUME NEW q \in Regs(s) PROVE q = r
      <4>1. PICK k \in 1..Len(Order[s]) : Order[s][k] = q
        BY <1>2, OrderIsSeq
      <4>2. k = 1
        BY <1>2, <2>1, <4>1
      <4> QED
        BY <2>1, <4>1, <4>2
    <3>2. [q \in Regs(s) |-> reg[q]]' = c.value
      BY <1>5, <2>4, <3>1
    <3> QED
      BY <2>1, <2>2, <3>2 DEF Shown, Settled
  <2> QED
    BY <1>3, <2>3, <2>4
<1> QED
  BY <1>7, <1>8, <1>9

LEMMA WriteRefines ==
    ASSUME IInv, NEW u \in User, Write(u)
    PROVE  Promise!Next
<1>1. PICK c \in cmd[u] : WriteMore(u, c) \/ WriteLast(u, c)
  BY DEF Write
<1>2. c.setting \in Setting /\ cmd[u] = {c} /\ cmd \in [User -> SUBSET Command]
      /\ done[u] \in Nat
  BY NextRegister DEF IInv, TypeOK
<1>3. \A t \in Setting \ {c.setting} : Shown(t)' = Shown(t)
  BY <1>1, OthersKept
<1> DEFINE shown == [s \in Setting |-> Shown(s)]
<1>4. shown' = [shown EXCEPT ![c.setting] = Shown(c.setting)']
  BY <1>2, <1>3
<1>5. CASE WriteMore(u, c)
  <2>1. cmd' = cmd /\ done' = [done EXCEPT ![u] = done[u] + 1]
    BY <1>5 DEF WriteMore
  <2>2. u \in Midway(c.setting)'
    BY <1>2, <2>1 DEF Midway, IInv, TypeOK
  <2>3. Shown(c.setting)' = {}
    BY <2>2 DEF Shown, Settled
  <2>4. shown' = [shown EXCEPT ![c.setting] = {}]
    BY <1>4, <2>3
  <2>5. Promise!Spoil(u)
    BY <1>2, <2>1, <2>4 DEF Promise!Spoil, Shown
  <2> QED
    BY <2>5 DEF Promise!Next
<1>6. CASE WriteLast(u, c)
  <2>1. cmd' = [cmd EXCEPT ![u] = {}]
    BY <1>6 DEF WriteLast
  <2>2. \/ shown' = [shown EXCEPT ![c.setting] = {c.value}]
        \/ shown' = [shown EXCEPT ![c.setting] = {}]
        \/ shown' = shown
    BY <1>4, <1>6, OwnSetting
  <2>3. Promise!End(u)
    BY <1>2, <2>1, <2>2 DEF Promise!End, Shown
  <2> QED
    BY <2>3 DEF Promise!Next
<1> QED
  BY <1>1, <1>5, <1>6

LEMMA SameShown ==
    ASSUME UNCHANGED <<reg, spoiled>>, \A s \in Setting : Midway(s)' = Midway(s)
    PROVE  [s \in Setting |-> Shown(s)]' = [s \in Setting |-> Shown(s)]
BY DEF Shown, Settled

LEMMA StepRefines ==
    ASSUME IInv, [Next]_vars
    PROVE  [Promise!Next]_Promise!projectorVars
<1> DEFINE shown == [s \in Setting |-> Shown(s)]
<1>1. ASSUME NEW u \in User, NEW c \in Command, Start(u, c) PROVE Promise!Next
  <2>1. /\ cmd[u] = {} /\ done[u] = 0 /\ cmd' = [cmd EXCEPT ![u] = {c}]
        /\ UNCHANGED <<reg, done, spoiled>>
    BY <1>1 DEF Start, IInv, TypeOK, history
  <2>2. \A s \in Setting : Midway(s)' = Midway(s)
    BY <2>1 DEF Midway, IInv, TypeOK
  <2>3. shown' = shown
    BY <2>1, <2>2, SameShown
  <2>4. Promise!Ask(u)
    BY <2>1, <2>3 DEF Promise!Ask, Shown
  <2> QED
    BY <2>4 DEF Promise!Next
<1>2. ASSUME UNCHANGED <<reg, cmd, done, spoiled>> PROVE UNCHANGED Promise!projectorVars
  <2>1. \A s \in Setting : Midway(s)' = Midway(s)
    BY <1>2 DEF Midway
  <2>2. shown' = shown
    BY <1>2, <2>1, SameShown
  <2> QED
    BY <1>2, <2>2 DEF Promise!projectorVars, Shown
<1>3. CASE UNCHANGED vars
  BY <1>2, <1>3 DEF vars, history
<1>4. CASE Next
  <2>1. PICK u \in User : (\E c \in Command : Start(u, c)) \/ Write(u)
    BY <1>4 DEF Next
  <2>2. CASE Write(u)
    BY <2>2, WriteRefines
  <2> QED
    BY <1>1, <2>1, <2>2
<1> QED
  BY <1>3, <1>4

THEOREM PicoRefinement == Spec => ChosenAsAWhole
<1>1. Init => Promise!Init
  <2>1. ASSUME Init PROVE cmd = [u \in User |-> {}] /\ spoiled = Setting
    BY <2>1 DEF Init
  <2> QED
    BY <2>1 DEF Promise!Init, Settled
<1>2. IInv /\ [Next]_vars => [Promise!Next]_Promise!projectorVars
  BY StepRefines
<1> QED
  BY <1>1, <1>2, PicoInvariant, PTL DEF Spec, ChosenAsAWhole, Promise!Spec
=============================================================================
