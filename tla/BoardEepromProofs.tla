-------------------------- MODULE BoardEepromProofs --------------------------
(***************************************************************************)
(* What is proved of the writers of the board description, for every size  *)
(* of the fields, every text and every number of lost writes and cuts.     *)
(***************************************************************************)
EXTENDS BoardEeprom, SequenceTheorems, TLAPS

\* The bytes of the part that is being written.
Bytes(part) ==
    CASE part = "header" -> Header(job.board)
      [] part = "fab" -> Text(job.fab)
      [] part = "flag" -> <<1>>
      [] part = "var" -> Text(job.env.var)
      [] part = "setting" -> Text(job.env.setting)

\* A run has passed the checks, and is at a byte of a part it is to write.
Passed ==
    pc # "idle" =>
        /\ ~TooLong(tool, job)
        /\ pc \in {"flag", "var", "setting"} => WritesEnv(tool, job)
        /\ n < Len(Bytes(pc))
        /\ whole = "no"

\* The first k bytes are in the memory m from address a on.
Holds(m, a, bytes, k) == \A l \in 1..k : m[a + l - 1] = bytes[l]

\* What a run without a lost byte has written when k bytes of its part are done.
Reached(m, k) ==
    /\ Holds(m, At[pc], Bytes(pc), k)
    /\ pc = "fab" => Holds(m, 0, Header(job.board), 6)
    /\ pc \in {"flag", "var", "setting"} =>
          /\ Holds(m, 0, Header(job.board), 5)
          /\ Holds(m, FabAt, Text(job.fab), Len(Text(job.fab)))
    /\ pc \in {"var", "setting"} => m[5] = 1
    /\ pc = "setting" => Holds(m, VarAt, Text(job.env.var), Len(Text(job.env.var)))

Progress == pc # "idle" /\ clean = "yes" => Reached(mem, n)

BoardInv == TypeOK /\ Passed /\ Progress
-----------------------------------------------------------------------------
(* The layout, and reading back a text                                     *)

LEMMA Layout ==
    /\ FabAt \in Nat /\ VarAt \in Nat /\ SetAt \in Nat
    /\ FabAt = 6 /\ VarAt = 6 + FabSize /\ SetAt = VarAt + VarSize
    /\ At["header"] = 0 /\ At["fab"] = FabAt /\ At["flag"] = 5
    /\ At["var"] = VarAt /\ At["setting"] = SetAt
    /\ DOMAIN At = {"header", "fab", "flag", "var", "setting"}
  BY BoardAssumption DEF FabAt, VarAt, SetAt, At

LEMMA Fields ==
    /\ Field("header") = 0..5
    /\ Field("fab") = FabAt..(VarAt - 1)
    /\ Field("flag") = {5}
    /\ Field("var") = VarAt..(SetAt - 1)
    /\ Field("setting") = SetAt..(SetAt + SetSize - 1)
  BY DEF Field

\* A text with its 0 behind it is as long as one byte more, and the 0 is its last.
LEMMA TextBytes ==
    ASSUME NEW s \in Seq(Character)
    PROVE  /\ Len(s) \in Nat
           /\ Len(Text(s)) = Len(s) + 1
           /\ \A l \in 1..Len(s) : Text(s)[l] = s[l] /\ s[l] \in Byte /\ s[l] # 0
           /\ Text(s)[Len(s) + 1] = 0
           /\ \A l \in 1..Len(Text(s)) : Text(s)[l] \in Byte
  <1>1. Len(s) \in Nat /\ \A l \in 1..Len(s) : s[l] \in Character
    OBVIOUS
  <1>2. \A l \in 1..Len(s) : s[l] \in Byte /\ s[l] # 0
    BY SMTT(30), ZenonT(30), <1>1, BoardAssumption DEF Byte
  <1>3. s \in Seq(Byte)
    <2>1. Character \subseteq Byte
      BY BoardAssumption
    <2> QED BY <2>1, SeqMonotonic
  <1>4. /\ Len(Append(s, 0)) = Len(s) + 1
        /\ \A l \in 1..Len(s) : Append(s, 0)[l] = s[l]
        /\ Append(s, 0)[Len(s) + 1] = 0
    BY <1>3, <1>1
  <1>5. \A l \in 1..(Len(s) + 1) : Append(s, 0)[l] \in Byte
    <2> SUFFICES ASSUME NEW l \in 1..(Len(s) + 1) PROVE Append(s, 0)[l] \in Byte
      OBVIOUS
    <2>1. CASE l = Len(s) + 1
      BY <2>1, <1>4 DEF Byte
    <2>2. CASE l # Len(s) + 1
      <3>1. l \in 1..Len(s)
        BY <2>2, <1>1
      <3> QED BY <3>1, <1>2, <1>4
    <2> QED BY <2>1, <2>2
  <1> QED BY <1>1, <1>2, <1>4, <1>5 DEF Text

\* A text that is in its field with its 0 is what is read there.
LEMMA ReadBack ==
    ASSUME NEW m, NEW a \in Nat, NEW size \in Nat, NEW s \in Seq(Character),
           Len(s) < size, Holds(m, a, Text(s), Len(Text(s)))
    PROVE  TextAt(m, a, size) = s
  <1> DEFINE Ends(k) == /\ k < size => m[a + k] = 0
                        /\ \A l \in 0..(k - 1) : m[a + l] # 0
  <1>1. \A l \in 1..Len(s) : m[a + l - 1] = s[l] /\ m[a + l - 1] # 0
    BY TextBytes DEF Holds
  <1>2. m[a + Len(s)] = 0
    <2>1. m[a + (Len(s) + 1) - 1] = Text(s)[Len(s) + 1]
      BY TextBytes DEF Holds
    <2> QED BY <2>1, TextBytes
  <1>3. Ends(Len(s))
    <2>1. ASSUME NEW l \in 0..(Len(s) - 1) PROVE m[a + l] # 0
      <3>1. l + 1 \in 1..Len(s) /\ a + (l + 1) - 1 = a + l
        BY TextBytes
      <3> QED BY <3>1, <1>1
    <2> QED BY <2>1, <1>2
  <1>4. ASSUME NEW k \in 0..size, Ends(k) PROVE k = Len(s)
    <2>1. CASE k < Len(s)
      <3>1. k + 1 \in 1..Len(s) /\ a + (k + 1) - 1 = a + k
        BY <2>1, TextBytes
      <3> QED BY <3>1, <1>1, <1>4, <2>1, TextBytes
    <2>2. CASE Len(s) < k
      <3>1. Len(s) \in 0..(k - 1)
        BY <2>2, TextBytes
      <3> QED BY <3>1, <1>2, <1>4
    <2> QED BY <2>1, <2>2, TextBytes
  <1>5. TextLen(m, a, size) = Len(s)
    <2>1. Len(s) \in 0..size
      BY TextBytes
    <2>2. TextLen(m, a, size) = CHOOSE k \in 0..size : Ends(k)
      BY DEF TextLen
    <2> HIDE DEF Ends
    <2>3. TextLen(m, a, size) \in 0..size /\ Ends(TextLen(m, a, size))
      BY <2>1, <2>2, <1>3
    <2> QED BY <2>3, <1>4
  <1>6. TextAt(m, a, size) = [k \in 1..Len(s) |-> s[k]]
    BY <1>5, <1>1 DEF TextAt
  <1> QED BY <1>6
-----------------------------------------------------------------------------

(* The parts of a job                                                      *)

LEMMA JobParts ==
    ASSUME NEW j \in Job
    PROVE  /\ j.board \in Boards /\ j.fab \in Fabs /\ j.env \in Env
           /\ j.fab \in Seq(Character)
           /\ j.env.var \in Seq(Character) /\ j.env.setting \in Seq(Character)
           /\ j.env # NoEnv => j.env.var \in Variables /\ j.env.setting \in Settings
  <1>1. j.board \in Boards /\ j.fab \in Fabs /\ j.env \in Env
    BY DEF Job
  <1>2. <<>> \in Seq(Character)
    OBVIOUS
  <1>3. CASE j.env = NoEnv
    <2>1. j.env.var = <<>> /\ j.env.setting = <<>>
      BY <1>3 DEF NoEnv
    <2> QED BY <1>1, <1>2, <1>3, <2>1, BoardAssumption
  <1>4. CASE j.env # NoEnv
    <2>1. j.env \in [var : Variables, setting : Settings]
      BY <1>1, <1>4 DEF Env
    <2>2. j.env.var \in Variables /\ j.env.setting \in Settings
      BY <2>1
    <2> QED BY <1>1, <2>2, BoardAssumption
  <1> QED BY <1>3, <1>4

LEMMA HeaderBytes ==
    ASSUME NEW b \in Boards
    PROVE  /\ Len(Header(b)) = 6
           /\ \A l \in 1..6 : Header(b)[l] \in Byte
           /\ Header(b)[2] = b.vendor /\ Header(b)[3] = b.top
           /\ Header(b)[4] = b.device /\ Header(b)[5] = b.rev /\ Header(b)[6] = 0
  <1>1. b.vendor \in Byte /\ b.top \in Byte /\ b.device \in Byte /\ b.rev \in Byte
    BY BoardAssumption
  <1> QED BY <1>1 DEF Header, Byte

\* The texts of a run that has passed the checks fit in their fields.
LEMMA Fits ==
    ASSUME TypeOK, ~TooLong(tool, job)
    PROVE  /\ Len(job.fab) < FabSize
           /\ WritesEnv(tool, job) =>
                 Len(job.env.var) < VarSize /\ Len(job.env.setting) < SetSize
  <1>1. job \in Job /\ tool \in {"writeprom", "uenv-generator"}
    BY DEF TypeOK
  <1>2. Len(job.fab) \in Nat /\ Len(job.env.var) \in Nat /\ Len(job.env.setting) \in Nat
    BY <1>1, JobParts, LenProperties
  <1>3. Len(job.fab) < FabSize
    BY <1>2, BoardAssumption DEF TooLong, FabTooLong
  <1>4. ASSUME WritesEnv(tool, job) PROVE tool = "uenv-generator" /\ job.env # NoEnv
    BY <1>1, <1>4 DEF WritesEnv, Arguments
  <1> QED BY <1>2, <1>3, <1>4, BoardAssumption DEF TooLong

\* Every byte of a part lies in its field.
LEMMA InField ==
    ASSUME TypeOK, Passed, pc # "idle"
    PROVE  /\ At[pc] \in Nat
           /\ Len(Bytes(pc)) \in Nat
           /\ \A k \in Nat : k < Len(Bytes(pc)) => At[pc] + k \in Field(pc)
           /\ \A l \in 1..Len(Bytes(pc)) : Bytes(pc)[l] \in Byte
           /\ Field(pc) \subseteq Address
  <1>1. pc \in {"header", "fab", "flag", "var", "setting"}
    BY Layout DEF TypeOK
  <1>2. job \in Job /\ ~TooLong(tool, job)
    BY DEF TypeOK, Passed
  <1>3. FabSize \in Nat \ {0} /\ VarSize \in Nat \ {0} /\ SetSize \in Nat \ {0}
    BY BoardAssumption
  <1>4. CASE pc = "header"
    <2>1. Bytes(pc) = Header(job.board)
      BY <1>4 DEF Bytes
    <2>2. /\ Len(Bytes(pc)) = 6
          /\ \A l \in 1..6 : Bytes(pc)[l] \in Byte
      <3>1. job.board \in Boards
        BY <1>2, JobParts
      <3> QED BY <2>1, <3>1, HeaderBytes
    <2> QED BY <2>2, <1>3, <1>4, Layout, Fields DEF Address
  <1>5. CASE pc = "fab"
    <2>1. Bytes(pc) = Text(job.fab)
      BY <1>5 DEF Bytes
    <2>2. Len(job.fab) < FabSize
      BY Fits, <1>2
    <2> QED BY SMTT(30), <2>1, <2>2, <1>2, <1>3, <1>5, JobParts, TextBytes, Layout, Fields DEF Address
  <1>6. CASE pc = "flag"
    <2>1. Bytes(pc) = <<1>>
      BY <1>6 DEF Bytes
    <2>2. Len(<<1>>) = 1 /\ \A l \in 1..1 : <<1>>[l] \in Byte
      BY DEF Byte
    <2> QED BY <2>1, <2>2, <1>3, <1>6, Layout, Fields DEF Address
  <1>7. CASE pc = "var"
    <2>1. Bytes(pc) = Text(job.env.var)
      BY <1>7 DEF Bytes
    <2>2. Len(job.env.var) < VarSize
      BY Fits, <1>2, <1>7 DEF Passed
    <2> QED BY SMTT(30), <2>1, <2>2, <1>2, <1>3, <1>7, JobParts, TextBytes, Layout, Fields DEF Address
  <1>8. CASE pc = "setting"
    <2>1. Bytes(pc) = Text(job.env.setting)
      BY <1>8 DEF Bytes
    <2>2. Len(job.env.setting) < SetSize
      BY Fits, <1>2, <1>8 DEF Passed
    <2> QED BY <2>1, <2>2, <1>2, <1>3, <1>8, JobParts, TextBytes, Layout, Fields DEF Address
  <1> QED BY <1>1, <1>4, <1>5, <1>6, <1>7, <1>8
-----------------------------------------------------------------------------
(* The invariant                                                           *)

\* The part that follows pc in this run.
Following ==
    CASE pc = "header" -> "fab"
      [] pc = "fab" -> IF WritesEnv(tool, job) THEN "flag" ELSE "idle"
      [] pc = "flag" -> "var"
      [] pc = "var" -> "setting"
      [] pc = "setting" -> "idle"

\* Whatever part is written, it is the same step.
LEMMA WriteIsOneStep ==
    ASSUME TypeOK, Write
    PROVE  pc # "idle" /\ WritePart(pc, Bytes(pc), Following)
  <1>1. CASE WriteHeader
    BY <1>1 DEF WriteHeader, WritePart, Bytes, Following
  <1>2. CASE WriteFab
    <2>1. pc = "fab"
      BY <1>2 DEF WriteFab, WritePart
    <2> QED BY <1>2, <2>1 DEF WriteFab, Bytes, Following
  <1>3. CASE WriteFlag
    BY <1>3 DEF WriteFlag, WritePart, Bytes, Following
  <1>4. CASE WriteVar
    BY <1>4 DEF WriteVar, WritePart, Bytes, Following
  <1>5. CASE WriteSetting
    BY <1>5 DEF WriteSetting, WritePart, Bytes, Following
  <1> QED BY <1>1, <1>2, <1>3, <1>4, <1>5 DEF Write

\* Writing a byte leaves what lies elsewhere as it is.
LEMMA Kept ==
    ASSUME NEW m \in [Address -> Byte], NEW x, NEW b,
           NEW a \in Nat, NEW k \in Nat, NEW bytes,
           Holds(m, a, bytes, k), a + k <= SetAt + SetSize,
           \A l \in 1..k : a + l - 1 # x
    PROVE  Holds([m EXCEPT ![x] = b], a, bytes, k)
  <1> SUFFICES ASSUME NEW l \in 1..k
               PROVE  [m EXCEPT ![x] = b][a + l - 1] = bytes[l]
    BY DEF Holds
  <1>1. a + l - 1 \in Address
    BY Layout, BoardAssumption DEF Address
  <1>2. a + l - 1 # x /\ m[a + l - 1] = bytes[l]
    BY DEF Holds
  <1> QED BY <1>1, <1>2

\* The bytes that the later parts of a run count on, and where they lie.
LEMMA Ends ==
    ASSUME TypeOK, Passed, pc # "idle"
    PROVE  /\ Len(Text(job.fab)) \in Nat
           /\ FabAt + Len(Text(job.fab)) <= VarAt
           /\ Len(Text(job.env.var)) \in Nat
           /\ pc \in {"flag", "var", "setting"} => VarAt + Len(Text(job.env.var)) <= SetAt
  <1>1. job \in Job /\ ~TooLong(tool, job)
    BY DEF TypeOK, Passed
  <1>2. job.fab \in Seq(Character) /\ job.env.var \in Seq(Character)
    BY <1>1, JobParts
  <1>3. Len(job.fab) < FabSize
    BY <1>1, Fits
  <1>4. pc \in {"flag", "var", "setting"} => Len(job.env.var) < VarSize
    BY <1>1, Fits DEF Passed
  <1> QED BY SMTT(30), <1>2, <1>3, <1>4, TextBytes, Layout, BoardAssumption

\* A write that works adds a byte to what the run has reached.
LEMMA WriteReaches ==
    ASSUME TypeOK, Passed, Progress, Write, clean' = "yes"
    PROVE  Reached(mem', n + 1)
  <1>1. pc # "idle" /\ WritePart(pc, Bytes(pc), Following)
    BY WriteIsOneStep
  <1>2. I2cSet(At[pc] + n, Bytes(pc)[n + 1])
    BY <1>1 DEF WritePart
  <1>3. clean = "yes" /\ mem' = [mem EXCEPT ![At[pc] + n] = Bytes(pc)[n + 1]]
    BY <1>2 DEF I2cSet
  <1>4. Reached(mem, n)
    BY <1>1, <1>3 DEF Progress
  <1>5. /\ mem \in [Address -> Byte] /\ n \in Nat /\ n < Len(Bytes(pc))
        /\ pc \in {"header", "fab", "flag", "var", "setting"}
    BY <1>1, Layout DEF TypeOK, Passed
  <1>6. /\ At[pc] \in Nat /\ Len(Bytes(pc)) \in Nat
        /\ At[pc] + n \in Field(pc) /\ At[pc] + n \in Address
    BY <1>1, <1>5, InField
  <1>7. Holds(mem', At[pc], Bytes(pc), n + 1)
    <2> SUFFICES ASSUME NEW l \in 1..(n + 1)
                 PROVE  mem'[At[pc] + l - 1] = Bytes(pc)[l]
      BY DEF Holds
    <2>1. CASE l = n + 1
      <3>1. At[pc] + l - 1 = At[pc] + n
        BY <2>1, <1>5, <1>6
      <3> QED BY <2>1, <3>1, <1>3, <1>5, <1>6
    <2>2. CASE l # n + 1
      <3>1. l \in 1..n /\ At[pc] + l - 1 # At[pc] + n
        BY <2>2, <1>5, <1>6
      <3>2. mem[At[pc] + l - 1] = Bytes(pc)[l]
        BY <1>4, <3>1 DEF Reached, Holds
      <3>3. At[pc] + l - 1 \in Address
        BY <3>1, <1>5, <1>6, Layout, BoardAssumption DEF Address
      <3> QED BY <3>1, <3>2, <3>3, <1>3, <1>5
    <2> QED BY <2>1, <2>2
  <1>8. ASSUME NEW a \in Nat, NEW k \in Nat, NEW bytes,
               Holds(mem, a, bytes, k), a + k <= SetAt + SetSize,
               \A l \in 1..k : a + l - 1 \notin Field(pc)
        PROVE  Holds(mem', a, bytes, k)
    <2>1. \A l \in 1..k : a + l - 1 # At[pc] + n
      BY <1>6, <1>8
    <2> QED BY <2>1, <1>3, <1>5, <1>8, Kept
  <1>9. FabSize \in Nat \ {0} /\ VarSize \in Nat \ {0} /\ SetSize \in Nat \ {0}
    BY BoardAssumption
  <1>10. ASSUME pc = "fab" PROVE Holds(mem', 0, Header(job.board), 6)
    <2>1. Holds(mem, 0, Header(job.board), 6)
      BY <1>4, <1>10 DEF Reached
    <2>2. \A l \in 1..6 : 0 + l - 1 \notin Field(pc)
      BY <1>10, Layout, Fields
    <2> QED BY <2>1, <2>2, <1>8, <1>9, Layout
  <1>11. ASSUME pc \in {"flag", "var", "setting"}
         PROVE  /\ Holds(mem', 0, Header(job.board), 5)
                /\ Holds(mem', FabAt, Text(job.fab), Len(Text(job.fab)))
    <2>1. /\ Holds(mem, 0, Header(job.board), 5)
          /\ Holds(mem, FabAt, Text(job.fab), Len(Text(job.fab)))
      BY <1>4, <1>11 DEF Reached
    <2>2. \A l \in 1..5 : 0 + l - 1 \notin Field(pc)
      BY <1>9, <1>11, Layout, Fields
    <2>3. Len(Text(job.fab)) \in Nat /\ FabAt + Len(Text(job.fab)) <= VarAt
      BY <1>1, Ends
    <2>4. \A l \in 1..Len(Text(job.fab)) : FabAt + l - 1 \notin Field(pc)
      BY <2>3, <1>9, <1>11, Layout, Fields
    <2>5. Holds(mem', 0, Header(job.board), 5)
      BY <2>1, <2>2, <1>8, <1>9, Layout
    <2>6. Holds(mem', FabAt, Text(job.fab), Len(Text(job.fab)))
      <3>1. FabAt + Len(Text(job.fab)) <= SetAt + SetSize
        BY <2>3, <1>9, Layout
      <3> HIDE DEF Holds
      <3> QED BY <2>1, <2>3, <2>4, <3>1, <1>8, Layout
    <2> QED BY <2>5, <2>6
  <1>12. ASSUME pc \in {"var", "setting"} PROVE mem'[5] = 1
    <2>1. mem[5] = 1
      BY <1>4, <1>12 DEF Reached
    <2>2. 5 # At[pc] + n /\ 5 \in Address
      BY <1>6, <1>9, <1>12, Layout, Fields DEF Address
    <2> QED BY <2>1, <2>2, <1>3, <1>5
  <1>13. ASSUME pc = "setting"
         PROVE  Holds(mem', VarAt, Text(job.env.var), Len(Text(job.env.var)))
    <2>1. Holds(mem, VarAt, Text(job.env.var), Len(Text(job.env.var)))
      BY <1>4, <1>13 DEF Reached
    <2>2. Len(Text(job.env.var)) \in Nat /\ VarAt + Len(Text(job.env.var)) <= SetAt
      BY <1>1, <1>13, Ends
    <2>3. \A l \in 1..Len(Text(job.env.var)) : VarAt + l - 1 \notin Field(pc)
      BY <2>2, <1>9, <1>13, Layout, Fields
    <2>4. VarAt + Len(Text(job.env.var)) <= SetAt + SetSize
      BY <2>2, <1>9, Layout
    <2> QED BY <2>1, <2>2, <2>3, <2>4, <1>8, Layout
  <1> QED BY <1>7, <1>10, <1>11, <1>12, <1>13 DEF Reached

\* The parts that follow a part, and what they start with.
LEMMA NextPart ==
    ASSUME TypeOK, Passed, pc # "idle", Following # "idle"
    PROVE  /\ Following \in {"header", "fab", "flag", "var", "setting"}
           /\ Following \in {"flag", "var", "setting"} => WritesEnv(tool, job)
           /\ At[Following] \in Field(Following)
           /\ Len(Bytes(Following)) > 0
  <1>1. pc \in {"header", "fab", "flag", "var", "setting"} /\ job \in Job
    BY Layout DEF TypeOK
  <1>2. /\ job.fab \in Seq(Character)
        /\ job.env.var \in Seq(Character) /\ job.env.setting \in Seq(Character)
    BY <1>1, JobParts
  <1>3. FabSize \in Nat \ {0} /\ VarSize \in Nat \ {0} /\ SetSize \in Nat \ {0}
    BY BoardAssumption
  <1>4. CASE Following = "fab"
    <2>1. Bytes("fab") = Text(job.fab)
      BY DEF Bytes
    <2> QED BY <2>1, <1>2, <1>3, <1>4, TextBytes, Layout, Fields
  <1>5. CASE Following = "flag"
    <2>1. Bytes("flag") = <<1>> /\ Len(<<1>>) = 1
      BY DEF Bytes
    <2>2. WritesEnv(tool, job)
      BY <1>1, <1>5 DEF Following
    <2>3. At["flag"] \in Field("flag") /\ Len(Bytes("flag")) > 0
      <3>1. At["flag"] = 5 /\ Field("flag") = {5}
        BY Layout, Fields
      <3> QED BY <2>1, <3>1
    <2> QED BY <2>2, <2>3, <1>5
  <1>6. CASE Following = "var"
    <2>1. Bytes("var") = Text(job.env.var)
      BY DEF Bytes
    <2>2. pc = "flag"
      BY <1>1, <1>6 DEF Following
    <2> QED BY SMTT(30), <2>1, <2>2, <1>2, <1>3, <1>6, TextBytes, Layout, Fields DEF Passed
  <1>7. CASE Following = "setting"
    <2>1. Bytes("setting") = Text(job.env.setting)
      BY DEF Bytes
    <2>2. pc = "var"
      BY <1>1, <1>7 DEF Following
    <2> QED BY SMTT(30), <2>1, <2>2, <1>2, <1>3, <1>7, TextBytes, Layout, Fields DEF Passed
  <1> QED BY <1>1, <1>4, <1>5, <1>6, <1>7 DEF Following

\* What is reached with the last byte of a part is what the next part counts on.
LEMMA PartDone ==
    ASSUME TypeOK, Passed, pc # "idle", NEW m, Reached(m, Len(Bytes(pc)))
    PROVE  /\ pc = "header" => Holds(m, 0, Header(job.board), 6)
           /\ pc # "header" => /\ Holds(m, 0, Header(job.board), 5)
                               /\ Holds(m, FabAt, Text(job.fab), Len(Text(job.fab)))
           /\ pc = "fab" => Holds(m, 0, Header(job.board), 6)
           /\ pc \in {"flag", "var", "setting"} => m[5] = 1
           /\ pc \in {"var", "setting"} =>
                 Holds(m, VarAt, Text(job.env.var), Len(Text(job.env.var)))
           /\ pc = "setting" =>
                 Holds(m, SetAt, Text(job.env.setting), Len(Text(job.env.setting)))
  <1>1. pc \in {"header", "fab", "flag", "var", "setting"} /\ job \in Job
    BY Layout DEF TypeOK
  <1>2. Holds(m, At[pc], Bytes(pc), Len(Bytes(pc)))
    BY DEF Reached
  <1>3. CASE pc = "header"
    <2>1. Bytes(pc) = Header(job.board) /\ At[pc] = 0
      BY <1>3, Layout DEF Bytes
    <2>2. Len(Header(job.board)) = 6
      BY <1>1, JobParts, HeaderBytes
    <2> QED BY <2>1, <2>2, <1>2, <1>3
  <1>4. CASE pc = "fab"
    <2>1. Bytes(pc) = Text(job.fab) /\ At[pc] = FabAt
      BY <1>4, Layout DEF Bytes
    <2>2. Holds(m, 0, Header(job.board), 6)
      BY <1>4 DEF Reached
    <2>3. Holds(m, 0, Header(job.board), 5)
      BY <2>2 DEF Holds
    <2> QED BY <2>1, <2>2, <2>3, <1>2, <1>4
  <1>5. CASE pc = "flag"
    <2>1. Bytes(pc) = <<1>> /\ At[pc] = 5 /\ Len(<<1>>) = 1 /\ <<1>>[1] = 1
      BY <1>5, Layout DEF Bytes
    <2>2. m[5] = 1
      BY <2>1, <1>2 DEF Holds
    <2> QED BY <2>2, <1>5 DEF Reached
  <1>6. CASE pc = "var"
    <2>1. Bytes(pc) = Text(job.env.var) /\ At[pc] = VarAt
      BY <1>6, Layout DEF Bytes
    <2> QED BY <2>1, <1>2, <1>6 DEF Reached
  <1>7. CASE pc = "setting"
    <2>1. Bytes(pc) = Text(job.env.setting) /\ At[pc] = SetAt
      BY <1>7, Layout DEF Bytes
    <2> QED BY <2>1, <1>2, <1>7 DEF Reached
  <1> QED BY <1>1, <1>3, <1>4, <1>5, <1>6, <1>7

\* A write keeps the invariant, whether it works or not.
LEMMA WriteKeepsInv ==
    ASSUME BoardInv, Write
    PROVE  BoardInv'
  <1> USE DEF BoardInv
  <1>1. pc # "idle" /\ WritePart(pc, Bytes(pc), Following)
    BY WriteIsOneStep
  <1>2. /\ UNCHANGED <<chip, tool, job, device, cuts>>
        /\ I2cSet(At[pc] + n, Bytes(pc)[n + 1])
        /\ whole' = IF pc' = "idle" THEN clean' ELSE "no"
        /\ IF n + 1 = Len(Bytes(pc)) THEN pc' = Following /\ n' = 0 ELSE n' = n + 1 /\ pc' = pc
    BY <1>1 DEF WritePart
  <1>3. /\ n \in Nat /\ n < Len(Bytes(pc)) /\ Len(Bytes(pc)) \in Nat
        /\ At[pc] + n \in Address /\ Bytes(pc)[n + 1] \in Byte
    BY <1>1, InField DEF TypeOK, Passed
  <1>4. /\ mem' \in [Address -> Byte] /\ clean' \in {"yes", "no"}
        /\ failures' \in 0..MaxFailures
    BY <1>2, <1>3, BoardAssumption DEF I2cSet, TypeOK
  <1>5. CASE n + 1 # Len(Bytes(pc))
    <2>1. pc' = pc /\ n' = n + 1 /\ n + 1 < Len(Bytes(pc)) /\ n + 1 \in Nat /\ whole' = "no"
      BY <1>1, <1>2, <1>3, <1>5
    <2>2. At[pc] + (n + 1) \in Field(pc)
      BY <2>1, <1>1, InField
    <2>3. TypeOK'
      BY <2>1, <2>2, <1>2, <1>4 DEF TypeOK
    <2>4. Bytes(pc)' = Bytes(pc)
      BY <2>1, <1>2 DEF Bytes, Text, Header
    <2>5. Passed'
      BY <2>1, <2>4, <1>1, <1>2 DEF Passed, TooLong, WritesEnv
    <2>6. ASSUME clean' = "yes" PROVE Reached(mem, n)'
      <3>1. Reached(mem', n + 1)
        BY <2>6, WriteReaches
      <3> QED BY <3>1, <2>1, <2>4, <1>2 DEF Reached, Holds, Text, Header
    <2> QED BY <2>3, <2>5, <2>6 DEF Progress
  <1>6. CASE n + 1 = Len(Bytes(pc)) /\ Following = "idle"
    <2>1. pc' = "idle" /\ n' = 0 /\ whole' = clean'
      BY <1>2, <1>6
    <2>2. TypeOK'
      BY <2>1, <1>2, <1>4 DEF TypeOK
    <2> QED BY <2>1, <2>2 DEF Passed, Progress
  <1>7. CASE n + 1 = Len(Bytes(pc)) /\ Following # "idle"
    <2>1. pc' = Following /\ n' = 0 /\ whole' = "no"
      BY <1>2, <1>7
    <2>2. /\ Following \in {"header", "fab", "flag", "var", "setting"}
          /\ Following \in {"flag", "var", "setting"} => WritesEnv(tool, job)
          /\ At[Following] \in Field(Following)
          /\ Len(Bytes(Following)) > 0
      BY <1>1, <1>7, NextPart
    <2>3. At[Following] + 0 = At[Following]
      BY <2>2, Layout
    <2>4. TypeOK'
      BY <2>1, <2>2, <2>3, <1>2, <1>4, Layout DEF TypeOK
    <2>5. Bytes(pc)' = Bytes(Following)
      BY <2>1, <1>2 DEF Bytes, Text, Header
    <2>6. Passed'
      BY <2>1, <2>2, <2>5, <1>1, <1>2 DEF Passed, TooLong, WritesEnv
    <2>7. ASSUME clean' = "yes" PROVE Reached(mem, n)'
      <3>1. Reached(mem', Len(Bytes(pc)))
        BY <2>7, <1>7, WriteReaches
      <3>2. Holds(mem', At[Following], Bytes(Following), 0)
        BY DEF Holds
      <3>3. pc \in {"header", "fab", "flag", "var", "setting"}
        BY <1>1, Layout DEF TypeOK
      <3>4. Following = "fab" <=> pc = "header"
        BY <3>3 DEF Following
      <3>5. /\ Following \in {"flag", "var", "setting"} => pc # "header"
            /\ Following \in {"var", "setting"} => pc \in {"flag", "var", "setting"}
            /\ Following = "setting" => pc = "var"
        BY <3>3 DEF Following
      <3>6. /\ Following = "fab" => Holds(mem', 0, Header(job.board), 6)
            /\ Following \in {"flag", "var", "setting"} =>
                  /\ Holds(mem', 0, Header(job.board), 5)
                  /\ Holds(mem', FabAt, Text(job.fab), Len(Text(job.fab)))
            /\ Following \in {"var", "setting"} => mem'[5] = 1
            /\ Following = "setting" =>
                  Holds(mem', VarAt, Text(job.env.var), Len(Text(job.env.var)))
        BY <3>1, <3>4, <3>5, <1>1, PartDone
      <3> QED BY <3>2, <3>6, <2>1, <2>5, <1>2 DEF Reached, Holds, Text, Header
    <2> QED BY <2>4, <2>6, <2>7 DEF Progress
  <1> QED BY <1>5, <1>6, <1>7

LEMMA CallKeepsInv ==
    ASSUME BoardInv, NEW t \in {"writeprom", "uenv-generator"}, NEW j \in Job, Call(t, j)
    PROVE  BoardInv'
  <1>1. /\ tool' = t /\ job' = j /\ pc' = "header" /\ n' = 0 /\ whole' = "no"
        /\ clean' = "yes" /\ device' \in {80, 81}
        /\ UNCHANGED <<mem, chip, failures, cuts>> /\ ~TooLong(t, j)
    BY DEF Call
  <1>2. TypeOK'
    BY <1>1, Layout, Fields DEF BoardInv, TypeOK
  <1>3. Bytes(pc)' = Header(j.board)
    BY <1>1 DEF Bytes, Header
  <1>4. Len(Header(j.board)) = 6
    BY JobParts, HeaderBytes
  <1>5. Passed'
    BY <1>1, <1>3, <1>4 DEF Passed, TooLong
  <1>6. Reached(mem, n)'
    BY <1>1 DEF Reached, Holds
  <1> QED BY <1>2, <1>5, <1>6 DEF BoardInv, Progress

\* A run that is at work has passed the checks, is within its field, and unless a
\* write was lost has left every byte so far where it belongs.
THEOREM BoardInvariant == Spec => []BoardInv
  <1>1. Init => BoardInv
    BY BoardAssumption DEF Init, BoardInv, TypeOK, Passed, Progress, Byte
  <1>2. BoardInv /\ [Next]_vars => BoardInv'
    <2> SUFFICES ASSUME BoardInv, [Next]_vars PROVE BoardInv'
      OBVIOUS
    <2>1. ASSUME NEW t \in {"writeprom", "uenv-generator"}, NEW j \in Job, Call(t, j)
          PROVE  BoardInv'
      BY <2>1, CallKeepsInv
    <2>2. CASE Write
      BY <2>2, WriteKeepsInv
    <2>3. CASE PowerCut
      BY <2>3, BoardAssumption DEF PowerCut, BoardInv, TypeOK, Passed, Progress
    <2>4. CASE UNCHANGED vars
      <3>1. TypeOK'
        BY <2>4 DEF vars, run, BoardInv, TypeOK
      <3>2. Passed'
        BY <2>4 DEF vars, run, BoardInv, Passed, Bytes, Text, Header, TooLong, WritesEnv
      <3>3. Progress'
        BY SMTT(30), ZenonT(30), <2>4 DEF vars, run, BoardInv, Progress, Reached, Holds,
                                         Bytes, Text, Header
      <3> QED BY <3>1, <3>2, <3>3 DEF BoardInv
    <2> QED BY <2>1, <2>2, <2>3, <2>4 DEF Next
  <1> QED BY <1>1, <1>2, PTL DEF Spec

\* Type correctness, with every byte of a run in the field of its part.
THEOREM BoardTypeCorrect == Spec => []TypeOK
  BY BoardInvariant, PTL DEF BoardInv

\* No text runs into the next field, whatever was typed.
THEOREM NoSpill == Spec => FieldsApart
  <1>1. BoardInv /\ [Next]_vars =>
            [\A a \in Address : mem'[a] # mem[a] => a \in Field(pc)]_vars
    <2> SUFFICES ASSUME BoardInv, Next, NEW a \in Address, mem'[a] # mem[a]
                 PROVE  a \in Field(pc)
      BY DEF vars
    <2>1. Write
      BY DEF Next, Call, PowerCut
    <2>2. pc # "idle" /\ I2cSet(At[pc] + n, Bytes(pc)[n + 1])
      BY <2>1, WriteIsOneStep DEF WritePart, BoardInv
    <2>3. a = At[pc] + n
      BY <2>2 DEF I2cSet, BoardInv, TypeOK
    <2> QED BY <2>2, <2>3 DEF BoardInv, TypeOK
  <1> QED BY <1>1, BoardInvariant, PTL DEF Spec, FieldsApart
-----------------------------------------------------------------------------
(* The refinement                                                          *)

\* A last write that works leaves what is read as the description intended.
LEMMA LastWrite ==
    ASSUME BoardInv, Write, Following = "idle", n + 1 = Len(Bytes(pc)), clean' = "yes"
    PROVE  Reading(mem') = Intended
  <1> USE DEF BoardInv
  <1>1. pc # "idle" /\ Reached(mem', Len(Bytes(pc)))
    BY WriteReaches, WriteIsOneStep
  <1>2. /\ pc \in {"header", "fab", "flag", "var", "setting"}
        /\ job \in Job /\ ~TooLong(tool, job)
    BY <1>1, Layout DEF TypeOK, Passed
  <1>3. /\ job.board \in Boards
        /\ job.board \in [vendor : Byte, top : Byte, device : Byte, rev : Byte]
        /\ job.fab \in Seq(Character) /\ job.env.var \in Seq(Character)
        /\ job.env.setting \in Seq(Character)
    BY <1>2, JobParts, BoardAssumption
  <1>4. pc = "setting" \/ (pc = "fab" /\ ~WritesEnv(tool, job))
    BY <1>2 DEF Following
  <1>5. /\ Holds(mem', 0, Header(job.board), 5)
        /\ Holds(mem', FabAt, Text(job.fab), Len(Text(job.fab)))
    BY <1>1, <1>4, PartDone
  <1>6. [vendor |-> mem'[1], top |-> mem'[2], device |-> mem'[3], rev |-> mem'[4]] = job.board
    <2>1. /\ mem'[0 + 2 - 1] = Header(job.board)[2] /\ mem'[0 + 3 - 1] = Header(job.board)[3]
          /\ mem'[0 + 4 - 1] = Header(job.board)[4] /\ mem'[0 + 5 - 1] = Header(job.board)[5]
      BY <1>5 DEF Holds
    <2>2. /\ mem'[1] = job.board.vendor /\ mem'[2] = job.board.top
          /\ mem'[3] = job.board.device /\ mem'[4] = job.board.rev
      BY <2>1, <1>3, HeaderBytes
    <2> QED BY <2>2, <1>3
  <1>7. TextAt(mem', FabAt, FabSize) = job.fab
    BY <1>2, <1>3, <1>5, Fits, ReadBack, Layout, BoardAssumption
  <1>8. CASE pc = "fab" /\ ~WritesEnv(tool, job)
    <2>1. Holds(mem', 0, Header(job.board), 6)
      BY <1>1, <1>8, PartDone
    <2>2. mem'[0 + 6 - 1] = Header(job.board)[6]
      BY <2>1 DEF Holds
    <2>3. mem'[5] = 0
      BY <2>2, <1>3, HeaderBytes
    <2>4. Intended = [job EXCEPT !.env = NoEnv]
      BY <1>8 DEF Intended
    <2>5. Reading(mem') = [board |-> job.board, fab |-> job.fab, env |-> NoEnv]
      BY <2>3, <1>6, <1>7 DEF Reading
    <2> QED BY <2>4, <2>5, <1>2 DEF Job
  <1>9. CASE pc = "setting"
    <2>1. WritesEnv(tool, job)
      BY <1>1, <1>9 DEF Passed
    <2>2. /\ mem'[5] = 1
          /\ Holds(mem', VarAt, Text(job.env.var), Len(Text(job.env.var)))
          /\ Holds(mem', SetAt, Text(job.env.setting), Len(Text(job.env.setting)))
      BY <1>1, <1>9, PartDone
    <2>3. Len(job.env.var) < VarSize /\ Len(job.env.setting) < SetSize
      BY <2>1, <1>2, Fits
    <2>4. TextAt(mem', VarAt, VarSize) = job.env.var
      BY <2>2, <2>3, <1>3, ReadBack, Layout, BoardAssumption
    <2>5. TextAt(mem', SetAt, SetSize) = job.env.setting
      BY <2>2, <2>3, <1>3, ReadBack, Layout, BoardAssumption
    <2>6. job.env = [var |-> job.env.var, setting |-> job.env.setting]
      <3>1. job.env \in [var : Variables, setting : Settings] \/ job.env = NoEnv
        BY <1>2, JobParts DEF Env
      <3> QED BY <3>1 DEF NoEnv
    <2>7. Reading(mem') = [board |-> job.board, fab |-> job.fab, env |-> job.env]
      BY <2>2, <2>4, <2>5, <2>6, <1>6, <1>7 DEF Reading
    <2>8. Intended = job
      BY <2>1 DEF Intended
    <2> QED BY <2>7, <2>8, <1>2 DEF Job
  <1> QED BY <1>4, <1>8, <1>9

\* The writers implement BoardDescription: a run without a fault leaves exactly
\* the description it was to write, and nothing but a run changes it.
THEOREM DescriptionRefinement == Spec => Described
  <1>1. Init => Promise!Init
    BY DEF Init, Promise!Init
  <1>2. BoardInv /\ [Next]_vars => [Promise!Next]_(Promise!boardVars)
    <2> SUFFICES ASSUME BoardInv, [Next]_vars
                 PROVE  Promise!Next \/ UNCHANGED Promise!boardVars
      OBVIOUS
    <2>0. job \in Job /\ Intended \in Job
      <3>1. job \in Job
        BY DEF BoardInv, TypeOK
      <3> QED BY <3>1 DEF Intended, Job, Env
    <2>1. ASSUME NEW t \in {"writeprom", "uenv-generator"}, NEW j \in Job, Call(t, j)
          PROVE  Promise!Begin
      <3>1. pc = "idle" /\ pc' = "header" /\ whole' = "no" /\ job' = j
        BY <2>1 DEF Call
      <3>2. Intended' \in Job
        BY <3>1 DEF Intended, Job, Env
      <3> QED BY <3>1, <3>2 DEF Promise!Begin
    <2>2. CASE Write
      <3>1. /\ pc # "idle" /\ UNCHANGED <<tool, job>>
            /\ whole' = IF pc' = "idle" THEN clean' ELSE "no"
            /\ IF n + 1 = Len(Bytes(pc)) THEN pc' = Following ELSE pc' = pc
            /\ I2cSet(At[pc] + n, Bytes(pc)[n + 1])
        BY <2>2, WriteIsOneStep DEF WritePart, BoardInv
      <3>2. Intended' = Intended
        BY <3>1 DEF Intended, WritesEnv, Arguments
      <3>3. whole = "no" /\ clean' \in {"yes", "no"}
        BY <3>1 DEF BoardInv, Passed, TypeOK, I2cSet
      <3>4. CASE pc' # "idle"
        BY <3>1, <3>2, <3>3, <3>4 DEF Promise!boardVars
      <3>5. CASE pc' = "idle" /\ clean' = "no"
        <4>1. Promise!Abandon
          BY <3>1, <3>3, <3>5 DEF Promise!Abandon
        <4> QED BY <4>1 DEF Promise!Next
      <3>6. CASE pc' = "idle" /\ clean' = "yes"
        <4>1. Reading(mem') = Intended
          BY <3>1, <3>6, <2>2, LastWrite
        <4>2. Promise!Finish
          BY <4>1, <3>1, <3>6 DEF Promise!Finish, Reading, TextAt, TextLen
        <4> QED BY <4>2 DEF Promise!Next
      <3> QED BY <3>3, <3>4, <3>5, <3>6
    <2>3. CASE PowerCut
      <3>1. pc # "idle" /\ pc' = "idle" /\ UNCHANGED whole /\ whole = "no"
        BY <2>3 DEF PowerCut, BoardInv, Passed
      <3>2. Promise!Abandon
        BY <3>1 DEF Promise!Abandon
      <3> QED BY <3>2 DEF Promise!Next
    <2>4. CASE UNCHANGED vars
      BY <2>4 DEF vars, run, Promise!boardVars, Intended, Reading, TextAt, TextLen,
                  WritesEnv, Arguments
    <2> QED BY <2>1, <2>2, <2>3, <2>4 DEF Next, Promise!Next
  <1> QED BY <1>1, <1>2, BoardInvariant, PTL DEF Spec, Described, Promise!Spec
=============================================================================
