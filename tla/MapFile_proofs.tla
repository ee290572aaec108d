---------------------------- MODULE MapFile_proofs ----------------------------
(***************************************************************************)
(* Theorems about every map file and every register it may describe: what   *)
(* is in the catalogue is what RegisterInfo accepts, and what is accepted   *)
(* is what the accessor relies on.  Assumed is what the JSON library sees   *)
(* to: the kinds of the values, and that no object has a key twice.         *)
(***************************************************************************)
EXTENDS MapFile, SequenceFacts, FiniteSetTheorems

\* The values have the kinds that nlohmann's get<>() demands.
WellTyped(j) ==
  /\ \A key \in {"nRespBytes", "nRespLines", "bitWidth", "characterWidth", "nElem"}
       \cap DOMAIN j : j[key] \in Int
  /\ "signed" \in DOMAIN j => j["signed"] \in BOOLEAN
  /\ \A key \in {"cmd", "resp"} \cap DOMAIN j : j[key] \in Seq(Token)
  /\ \A key \in {"cmdChecksum", "respChecksum"} \cap DOMAIN j :
       j[key].kind = "array" => j[key].names \in Seq(STRING)

\* A register has at most one section of each kind.
WellTypedRegister(reg) ==
  /\ \A j \in {reg.top} \cup reg.read \cup reg.write : WellTyped(j)
  /\ \A i, j \in reg.read : i = j
  /\ \A i, j \in reg.write : i = j

\* A map file lists each path once.
WellTypedFile(f) ==
  "registers" \in DOMAIN f.json =>
    LET registers == f.json["registers"] IN
      /\ Len(registers) \in Nat
      /\ DOMAIN registers = 1..Len(registers)
      /\ \A i \in DOMAIN registers : WellTypedRegister(registers[i].json)
      /\ \A i, k \in DOMAIN registers : registers[i].path = registers[k].path => i = k

\* Every entry of the catalogue is what a register of the file was accepted as,
\* with the delimiter that the frame sets; before the frame is read there is none.
CatalogueInv ==
  /\ pc = "frame" => DOMAIN catalogue = {}
  /\ pc = "registers" => /\ "registers" \in DOMAIN file.json
                         /\ todo \in 0..Len(file.json["registers"])
  /\ todo \in Nat
  /\ pc \in {"frame", "registers", "constructed", "logic_error", "runtime_error"}
  /\ DOMAIN catalogue # {} => "registers" \in DOMAIN file.json
  /\ \A path \in DOMAIN catalogue : \E r \in ToSet(file.json["registers"]) :
       /\ r.path = path
       /\ catalogue[path] = RegisterInfo(r.json, serialDelimiter)
       /\ catalogue[path].verdict = "accepted"

\* A register is accepted, or rejected with one of two exceptions.
LEMMA Verdicts ==
  ASSUME NEW reg, NEW d
  PROVE  RegisterInfo(reg, d).verdict \in {"accepted", "logic_error", "runtime_error"}
  <1> DEFINE v == Verdict(ReadInfo(reg, d), WriteInfo(reg, d), getValueOr(reg.top, "nElem", 1))
  <1>1. v \in {"accepted", "logic_error", "runtime_error"}
    BY DEF Verdict
  <1> HIDE DEF v
  <1>2. CASE IsBadJson(reg)
    BY <1>2 DEF RegisterInfo
  <1>3. CASE ~IsBadJson(reg) /\ v # "accepted"
    BY <1>1, <1>3 DEF RegisterInfo, v
  <1>4. CASE ~IsBadJson(reg) /\ v = "accepted"
    BY <1>4 DEF RegisterInfo, v
  <1> QED
    BY <1>2, <1>3, <1>4

\* The constructor adds what was accepted and nothing else.
THEOREM CatalogueInvariant ==
  ASSUME \A f \in Files : WellTypedFile(f)
  PROVE  Spec => [](CatalogueInv /\ file \in Files)
  <1>1. Init => CatalogueInv /\ file \in Files
    <2> SUFFICES ASSUME Init
                 PROVE  CatalogueInv /\ file \in Files
      OBVIOUS
    <2>1. catalogue = << >> /\ pc = "frame" /\ todo = 0 /\ file \in Files
      BY DEF Init
    <2>2. DOMAIN << >> = {}
      OBVIOUS
    <2>3. DOMAIN catalogue = {}
      BY ONLY <2>1, <2>2, Zenon
    <2> QED
      BY <2>1, <2>3 DEF CatalogueInv
  <1>2. CatalogueInv /\ file \in Files /\ [Next]_vars => (CatalogueInv /\ file \in Files)'
    <2> SUFFICES ASSUME CatalogueInv, file \in Files, [Next]_vars
                 PROVE  (CatalogueInv /\ file \in Files)'
      OBVIOUS
    <2>1. CASE ParseFrame
      <3>1. CASE file.hasNull \/ IsBadFrame(file.json)
        BY <2>1, <3>1 DEF ParseFrame, Fail, CatalogueInv
      <3>2. CASE ~(file.hasNull \/ IsBadFrame(file.json))
        <4>1. /\ pc = "frame" /\ pc' = "registers"
              /\ todo' = Len(file.json["registers"])
              /\ UNCHANGED <<file, catalogue>>
          BY <2>1, <3>2 DEF ParseFrame
        <4>2. "registers" \in DOMAIN file.json
          BY <3>2 DEF IsBadFrame, mapFileTopLevelKeys
        <4>3. Len(file.json["registers"]) \in Nat
          BY <4>2 DEF WellTypedFile
        <4> QED
          BY <4>1, <4>2, <4>3 DEF CatalogueInv
      <3> QED
        BY <3>1, <3>2
    <2>2. CASE AddRegister
      <3> DEFINE registers == file.json["registers"]
                 next == registers[Len(registers) - todo + 1]
                 info == RegisterInfo(next.json, serialDelimiter)
      <3>1. /\ pc = "registers" /\ todo > 0 /\ todo \in 1..Len(registers)
            /\ "registers" \in DOMAIN file.json
            /\ WellTypedFile(file)
        BY <2>2 DEF AddRegister, CatalogueInv
      <3>2. next \in ToSet(registers)
        <4>1. Len(registers) - todo + 1 \in DOMAIN registers
          BY <3>1 DEF WellTypedFile
        <4> QED
          BY <4>1 DEF ToSet
      <3>3. info.verdict \in {"accepted", "logic_error", "runtime_error"}
        BY Verdicts
      <3> HIDE DEF next, info
      <3>4. CASE info.verdict # "accepted"
        <4>1. pc' = info.verdict /\ UNCHANGED <<file, todo, serialDelimiter, catalogue>>
          BY <2>2, <3>4 DEF AddRegister, Fail, next, info
        <4> QED
          BY <3>3, <3>4, <4>1 DEF CatalogueInv
      <3>5. CASE info.verdict = "accepted"
        <4>1. /\ catalogue' = [path \in DOMAIN catalogue \cup {next.path} |->
                               IF path = next.path THEN info ELSE catalogue[path]]
              /\ todo' = todo - 1
              /\ UNCHANGED <<file, pc, serialDelimiter>>
          BY <2>2, <3>5 DEF AddRegister, next, info
        <4>2. /\ DOMAIN catalogue' = {next.path} \cup DOMAIN catalogue
              /\ catalogue'[next.path] = info
              /\ \A path \in DOMAIN catalogue \ {next.path} : catalogue'[path] = catalogue[path]
          BY <4>1
        <4>3. info = RegisterInfo(next.json, serialDelimiter')
          BY <4>1 DEF info
        <4>4. \A path \in DOMAIN catalogue' : \E r \in ToSet(file'.json["registers"]) :
                /\ r.path = path
                /\ catalogue'[path] = RegisterInfo(r.json, serialDelimiter')
                /\ catalogue'[path].verdict = "accepted"
          <5>1. ASSUME NEW path \in DOMAIN catalogue'
                PROVE  \E r \in ToSet(file'.json["registers"]) :
                         /\ r.path = path
                         /\ catalogue'[path] = RegisterInfo(r.json, serialDelimiter')
                         /\ catalogue'[path].verdict = "accepted"
            <6>1. CASE path = next.path
              BY <3>2, <3>5, <4>1, <4>2, <4>3, <6>1
            <6>2. CASE path # next.path
              <7>1. path \in DOMAIN catalogue /\ catalogue'[path] = catalogue[path]
                BY <4>2, <5>1, <6>2
              <7>2. serialDelimiter' = serialDelimiter /\ file' = file
                BY <4>1
              <7> QED
                BY <7>1, <7>2 DEF CatalogueInv
            <6> QED
              BY <6>1, <6>2
          <5> QED
            BY <5>1
        <4>5. todo' \in 0..Len(file'.json["registers"]) /\ todo' \in Nat
          BY <3>1, <4>1 DEF WellTypedFile
        <4> QED
          BY <3>1, <4>1, <4>4, <4>5 DEF CatalogueInv
      <3> QED
        BY <3>4, <3>5
    <2>3. CASE Finish
      BY <2>3 DEF Finish, CatalogueInv
    <2>4. CASE UNCHANGED vars
      BY <2>4 DEF vars, CatalogueInv
    <2> QED
      BY <2>1, <2>2, <2>3, <2>4 DEF Next
  <1> QED
    BY <1>1, <1>2, PTL DEF Spec


-----------------------------------------------------------------------------
(* What it means that a register is accepted *)

\* None of the tests of the constructor has thrown.
LEMMA WhatIsAccepted ==
  ASSUME NEW reg, NEW d, RegisterInfo(reg, d).verdict = "accepted"
  PROVE  /\ ~IsBadJson(reg)
         /\ RegisterInfo(reg, d).readInfo = ReadInfo(reg, d)
         /\ RegisterInfo(reg, d).writeInfo = WriteInfo(reg, d)
         /\ RegisterInfo(reg, d).nElements = getValueOr(reg.top, "nElem", 1)
         /\ RegisterInfo(reg, d).dataType =
              CHOOSE t \in DataTypes(ReadInfo(reg, d), WriteInfo(reg, d)) : TRUE
         /\ Verdict(ReadInfo(reg, d), WriteInfo(reg, d), getValueOr(reg.top, "nElem", 1)) = "accepted"
  <1> DEFINE v == Verdict(ReadInfo(reg, d), WriteInfo(reg, d), getValueOr(reg.top, "nElem", 1))
  <1> HIDE DEF v
  <1>1. ~IsBadJson(reg)
    BY DEF RegisterInfo
  <1>2. v = "accepted"
    BY <1>1 DEF RegisterInfo, v
  <1>3. RegisterInfo(reg, d) =
          [verdict |-> "accepted", readInfo |-> ReadInfo(reg, d), writeInfo |-> WriteInfo(reg, d),
           nElements |-> getValueOr(reg.top, "nElem", 1),
           dataType |-> CHOOSE t \in DataTypes(ReadInfo(reg, d), WriteInfo(reg, d)) : TRUE]
    BY <1>1, <1>2 DEF RegisterInfo, v
  <1> QED
    BY <1>1, <1>2, <1>3 DEF v

\* The tests that come after the responses have been rendered.
LEMMA WhatIsValid ==
  ASSUME NEW r, NEW w, NEW n, Verdict(r, w, n) = "accepted"
  PROVE  ~throwIfBadActivation(r, w) /\ ~IsBadInfo(r, w, n)
  BY DEF Verdict

\* a is an active interaction of the register reg, which was accepted.
ComesFrom(a, reg) ==
  /\ WellTypedRegister(reg)
  /\ RegisterInfo(reg, serialDelimiter).verdict = "accepted"
  /\ catalogue[a.path] = RegisterInfo(reg, serialDelimiter)
  /\ a.top = reg.top
  /\ isActive(a.info)
  /\ \/ /\ a.section \in reg.read
        /\ a.info = RegisterInfo(reg, serialDelimiter).readInfo
        /\ a.lines = 1
     \/ /\ a.section \in reg.write
        /\ a.info = RegisterInfo(reg, serialDelimiter).writeInfo
        /\ a.lines = 0

\* The register of a path that the properties speak of is the one it was made from.
LEMMA SourceIsRegister ==
  ASSUME CatalogueInv, WellTypedFile(file), NEW path \in DOMAIN catalogue
  PROVE  /\ WellTypedRegister(Source(path))
         /\ catalogue[path] = RegisterInfo(Source(path), serialDelimiter)
         /\ RegisterInfo(Source(path), serialDelimiter).verdict = "accepted"
  <1> DEFINE registers == file.json["registers"]
  <1>1. PICK r \in ToSet(registers) :
          /\ r.path = path
          /\ catalogue[path] = RegisterInfo(r.json, serialDelimiter)
          /\ catalogue[path].verdict = "accepted"
    BY DEF CatalogueInv
  <1>2. /\ \A i \in DOMAIN registers : WellTypedRegister(registers[i].json)
        /\ \A i, k \in DOMAIN registers : registers[i].path = registers[k].path => i = k
    BY DEF CatalogueInv, WellTypedFile
  <1>3. \A q \in ToSet(registers) : q.path = path => q = r
    BY <1>1, <1>2 DEF ToSet
  <1>4. (CHOOSE q \in ToSet(registers) : q.path = path) = r
    <2> HIDE DEF registers
    <2> QED
      BY <1>1, <1>3
  <1>5. Source(path) = r.json
    BY <1>4 DEF Source
  <1>6. WellTypedRegister(r.json)
    BY <1>1, <1>2 DEF ToSet
  <1> QED
    BY <1>1, <1>5, <1>6

\* Every active interaction that the properties speak of has its register.
LEMMA ActiveHasRegister ==
  ASSUME CatalogueInv, WellTypedFile(file), NEW a \in Active
  PROVE  \E reg : ComesFrom(a, reg)
  <1>1. isActive(a.info) /\ a \in ActiveInteractions
    BY DEF Active
  <1>2. PICK path \in DOMAIN catalogue :
          \/ \E j \in Source(path).read :
               a = [info |-> catalogue[path].readInfo, section |-> j, top |-> Source(path).top,
                    lines |-> 1, path |-> path]
          \/ \E j \in Source(path).write :
               a = [info |-> catalogue[path].writeInfo, section |-> j, top |-> Source(path).top,
                    lines |-> 0, path |-> path]
    BY <1>1 DEF ActiveInteractions
  <1>3. /\ WellTypedRegister(Source(path))
        /\ catalogue[path] = RegisterInfo(Source(path), serialDelimiter)
        /\ RegisterInfo(Source(path), serialDelimiter).verdict = "accepted"
    BY SourceIsRegister
  <1>4. /\ a.path = path /\ a.top = Source(path).top
        /\ \/ a.section \in Source(path).read /\ a.info = catalogue[path].readInfo /\ a.lines = 1
           \/ a.section \in Source(path).write /\ a.info = catalogue[path].writeInfo /\ a.lines = 0
    BY <1>2
  <1> QED
    BY <1>1, <1>3, <1>4 DEF ComesFrom

-----------------------------------------------------------------------------
(* What each setter changes *)

InfoFields == {"type", "command", "response", "cmdLineDelimiter", "reading", "width",
               "fractionalBits", "isSigned", "commandChecksums", "responseChecksums", "payloads"}

\* The members of the variant _responseInfo.
IsReading(r) == r = [lines |-> r.lines, n |-> r.n, delimiter |-> r.delimiter]

\* info has the members of an InteractionInfo.
IsInfo(info) == DOMAIN info = InfoFields /\ IsReading(info.reading)

\* What one level of the file makes of a reading: a delimiter asks for lines, a
\* number of lines too, a number of bytes for bytes.
Delimited(reading, j) ==
  IF {"respDelim", "delimiter"} \cap DOMAIN j = {} THEN reading
  ELSE [lines |-> TRUE, n |-> IF reading.lines THEN reading.n ELSE 0,
        delimiter |-> getValueOr(j, "respDelim", getValueOr(j, "delimiter", ""))]
Counted(reading, j) ==
  IF "nRespLines" \notin DOMAIN j THEN reading
  ELSE [lines |-> TRUE, n |-> j["nRespLines"],
        delimiter |-> IF reading.lines THEN reading.delimiter ELSE ""]
Limited(reading, j) ==
  IF "nRespBytes" \notin DOMAIN j THEN reading
  ELSE [lines |-> FALSE, n |-> j["nRespBytes"], delimiter |-> ""]
ReadingAfter(reading, j) == Limited(Counted(Delimited(reading, j), j), j)

\* A reading stays one, and one of bytes that is left or comes back has no
\* delimiter, and a number that the level set if it is not the one before.
LEMMA ReadingStays ==
  ASSUME NEW r, IsReading(r), NEW j
  PROVE  LET new == ReadingAfter(r, j) IN
           /\ IsReading(new)
           /\ ~r.lines /\ r.delimiter = "" /\ ~new.lines =>
                /\ new.delimiter = ""
                /\ new.n = r.n \/ ("nRespBytes" \in DOMAIN j /\ new.n = j["nRespBytes"])
  BY DEF IsReading, ReadingAfter, Limited, Counted, Delimited

\* Readings are equal when their members are.
LEMMA SameReading ==
  ASSUME NEW r, NEW q, IsReading(r), IsReading(q),
         r.lines = q.lines, r.n = q.n, r.delimiter = q.delimiter
  PROVE  r = q
  BY DEF IsReading

\* The same members but for those named.
SameExcept(info, new, fields) == \A f \in InfoFields \ fields : new[f] = info[f]

\* new is info with another value of the member f.
SetsMember(new, info, f, v) == IsInfo(new) /\ SameExcept(info, new, {f}) /\ new[f] = v

\* new is info with another reading.
SetsReading(new, info, reading) ==
  /\ IsInfo(new)
  /\ SameExcept(info, new, {"reading"})
  /\ new.reading = reading

\* The setters of the response change the reading and nothing else: the
\* delimiter of lines,
LEMMA DelimiterSetter ==
  ASSUME NEW info, IsInfo(info), NEW v
  PROVE  SetsReading(setResponseDelimiter(info, v), info,
                     [lines |-> TRUE, n |-> IF info.reading.lines THEN info.reading.n ELSE 0,
                      delimiter |-> v])
  BY DEF SetsReading, IsInfo, IsReading, InfoFields, SameExcept, setResponseDelimiter

\* their number,
LEMMA LinesSetter ==
  ASSUME NEW info, IsInfo(info), NEW v
  PROVE  SetsReading(setResponseNLines(info, v), info,
                     [lines |-> TRUE, n |-> v,
                      delimiter |-> IF info.reading.lines THEN info.reading.delimiter ELSE ""])
  BY DEF SetsReading, IsInfo, IsReading, InfoFields, SameExcept, setResponseNLines

\* or the number of bytes.
LEMMA BytesSetter ==
  ASSUME NEW info, IsInfo(info), NEW v
  PROVE  SetsReading(setResponseBytes(info, v), info, [lines |-> FALSE, n |-> v, delimiter |-> ""])
  BY DEF SetsReading, IsInfo, IsReading, InfoFields, SameExcept, setResponseBytes

\* Setting a member that is not the reading.
LEMMA MemberSetter ==
  ASSUME NEW info, IsInfo(info), NEW v, NEW f \in InfoFields \ {"reading"}
  PROVE  SetsMember([info EXCEPT ![f] = v], info, f, v)
  BY DEF SetsMember, IsInfo, IsReading, InfoFields, SameExcept

\* How a level begins: nothing but the endings may differ from the one around it.
BeginsLevel(new, info) == IsInfo(new) /\ SameExcept(info, new, {"reading", "cmdLineDelimiter"})

\* The endings that a level begins with.
LEMMA EndingsBefore ==
  ASSUME NEW info, IsInfo(info), NEW defaults
  PROVE  BeginsLevel(BeforeEndings(info, defaults), info)
  <1>1. CASE isBinary(info) /\ usesReadBytes(info)
    <2>1. BeforeEndings(info, defaults) = [info EXCEPT !.cmdLineDelimiter = ""]
      BY <1>1 DEF BeforeEndings, usesReadBytes, usesReadLines
    <2>2. SetsMember([info EXCEPT !.cmdLineDelimiter = ""], info, "cmdLineDelimiter", "")
      BY MemberSetter DEF InfoFields
    <2> QED
      BY <2>1, <2>2 DEF BeginsLevel, SetsMember, SameExcept, InfoFields
  <1>2. CASE isBinary(info) /\ usesReadLines(info)
    <2>1. BeforeEndings(info, defaults) = setResponseBytes(info, 0)
      BY <1>2 DEF BeforeEndings, usesReadBytes
    <2>2. SetsReading(setResponseBytes(info, 0), info, [lines |-> FALSE, n |-> 0, delimiter |-> ""])
      BY BytesSetter
    <2> QED
      BY <2>1, <2>2 DEF BeginsLevel, SetsReading, SameExcept
  <1>3. CASE ~isBinary(info) /\ defaults = {}
    <2>1. BeforeEndings(info, defaults) = info
      BY <1>3 DEF BeforeEndings
    <2> QED
      BY <2>1 DEF BeginsLevel, SameExcept
  <1>4. CASE ~isBinary(info) /\ defaults # {}
    <2> DEFINE d == CHOOSE d \in defaults : TRUE
               commanded == [info EXCEPT !.cmdLineDelimiter = d]
    <2>1. BeforeEndings(info, defaults) = setResponseDelimiter(commanded, d)
      BY <1>4 DEF BeforeEndings
    <2>2. SetsMember(commanded, info, "cmdLineDelimiter", d)
      BY MemberSetter DEF InfoFields
    <2> DEFINE r == [lines |-> TRUE,
                     n |-> IF commanded.reading.lines THEN commanded.reading.n ELSE 0,
                     delimiter |-> d]
    <2> HIDE DEF commanded, d
    <2>3. SetsReading(setResponseDelimiter(commanded, d), commanded, r)
      BY <2>2, DelimiterSetter DEF SetsMember
    <2> HIDE DEF r
    <2> QED
      BY <2>1, <2>2, <2>3 DEF BeginsLevel, SetsMember, SetsReading, SameExcept
  <1> QED
    BY <1>1, <1>2, <1>3, <1>4 DEF usesReadBytes

\* How a level begins for a binary interaction.
BeginsBinary(new, info) ==
  IF info.reading.lines
  THEN /\ new.cmdLineDelimiter = info.cmdLineDelimiter
       /\ new.reading = [lines |-> FALSE, n |-> 0, delimiter |-> ""]
  ELSE new.cmdLineDelimiter = "" /\ new.reading = info.reading

\* A binary interaction begins a level with bytes and, unless lines were read
\* before, without a delimiter of commands.
LEMMA BinaryBefore ==
  ASSUME NEW info, IsInfo(info), isBinary(info), NEW defaults
  PROVE  BeginsBinary(BeforeEndings(info, defaults), info)
  <1>1. CASE info.reading.lines
    <2>1. BeforeEndings(info, defaults) = setResponseBytes(info, 0)
      BY <1>1 DEF BeforeEndings, usesReadBytes, usesReadLines
    <2>2. SetsReading(setResponseBytes(info, 0), info, [lines |-> FALSE, n |-> 0, delimiter |-> ""])
      BY BytesSetter
    <2> QED
      BY <1>1, <2>1, <2>2 DEF BeginsBinary, SetsReading, SameExcept, InfoFields
  <1>2. CASE ~info.reading.lines
    <2>1. BeforeEndings(info, defaults) = [info EXCEPT !.cmdLineDelimiter = ""]
      BY <1>2 DEF BeforeEndings, usesReadBytes, usesReadLines
    <2> QED
      BY <1>2, <2>1 DEF BeginsBinary, IsInfo, IsReading, InfoFields
  <1> QED
    BY <1>1, <1>2

\* What a level sets of the endings, if it begins with start.
EndsLevel(new, info, j, start, responseIsAbsent) ==
  LET reading == ReadingAfter(start.reading, j) IN
    /\ BeginsLevel(new, info)
    /\ new.cmdLineDelimiter = CommandDelimiter(j, start.cmdLineDelimiter)
    /\ new.reading.lines = reading.lines
    /\ new.reading.delimiter = reading.delimiter
    /\ new.reading.n = IF responseIsAbsent THEN 0 ELSE reading.n

\* A level sets the delimiter of commands and the reading of responses.
LEMMA EndingsAfter ==
  ASSUME NEW info, IsInfo(info), NEW j, NEW defaults, NEW responseIsAbsent \in BOOLEAN
  PROVE  EndsLevel(setEndingsFromJson(info, j, defaults, responseIsAbsent), info, j,
                   BeforeEndings(info, defaults), responseIsAbsent)
  <1> DEFINE start == BeforeEndings(info, defaults)
             delimiter == CommandDelimiter(j, start.cmdLineDelimiter)
             commanded == [start EXCEPT !.cmdLineDelimiter = CommandDelimiter(j, @)]
             delimited ==
               IF {"respDelim", "delimiter"} \cap DOMAIN j = {} THEN commanded
               ELSE setResponseDelimiter(commanded, getValueOr(j, "respDelim", getValueOr(j, "delimiter", "")))
             counted == IF "nRespLines" \in DOMAIN j THEN setResponseNLines(delimited, j["nRespLines"])
                        ELSE delimited
             complete == IF "nRespBytes" \in DOMAIN j THEN setResponseBytes(counted, j["nRespBytes"])
                         ELSE counted
             new == IF responseIsAbsent THEN [complete EXCEPT !.reading.n = 0] ELSE complete
  <1>1. BeginsLevel(start, info)
    BY EndingsBefore
  <1>2. setEndingsFromJson(info, j, defaults, responseIsAbsent) = new
    BY DEF setEndingsFromJson
  <1> HIDE DEF start
  <1>3. SetsMember(commanded, start, "cmdLineDelimiter", delimiter)
    BY <1>1, MemberSetter DEF BeginsLevel, InfoFields
  <1> HIDE DEF commanded, delimiter
  <1>4. /\ IsInfo(delimited) /\ SameExcept(commanded, delimited, {"reading"})
        /\ delimited.reading = Delimited(commanded.reading, j)
    <2>0. IsInfo(commanded)
      BY <1>3 DEF SetsMember
    <2>1. CASE {"respDelim", "delimiter"} \cap DOMAIN j = {}
      BY <2>0, <2>1 DEF Delimited, SameExcept
    <2>2. CASE {"respDelim", "delimiter"} \cap DOMAIN j # {}
      <3> DEFINE v == getValueOr(j, "respDelim", getValueOr(j, "delimiter", ""))
      <3>1. SetsReading(setResponseDelimiter(commanded, v), commanded,
                        [lines |-> TRUE, n |-> IF commanded.reading.lines THEN commanded.reading.n ELSE 0,
                         delimiter |-> v])
        BY <2>0, DelimiterSetter
      <3>2. delimited = setResponseDelimiter(commanded, v)
        BY <2>2
      <3>3. Delimited(commanded.reading, j) =
              [lines |-> TRUE, n |-> IF commanded.reading.lines THEN commanded.reading.n ELSE 0,
               delimiter |-> v]
        BY <2>2 DEF Delimited
      <3> HIDE DEF delimited, v
      <3> QED
        BY <3>1, <3>2, <3>3 DEF SetsReading
    <2> QED
      BY <2>1, <2>2
  <1> HIDE DEF delimited
  <1>5. /\ IsInfo(counted) /\ SameExcept(delimited, counted, {"reading"})
        /\ counted.reading = Counted(delimited.reading, j)
    <2>1. CASE "nRespLines" \notin DOMAIN j
      BY <1>4, <2>1 DEF Counted, SameExcept
    <2>2. CASE "nRespLines" \in DOMAIN j
      <3> DEFINE v == j["nRespLines"]
      <3>1. SetsReading(setResponseNLines(delimited, v), delimited,
                        [lines |-> TRUE, n |-> v,
                         delimiter |-> IF delimited.reading.lines THEN delimited.reading.delimiter ELSE ""])
        BY <1>4, LinesSetter
      <3>2. counted = setResponseNLines(delimited, v)
        BY <2>2
      <3>3. Counted(delimited.reading, j) =
              [lines |-> TRUE, n |-> v,
               delimiter |-> IF delimited.reading.lines THEN delimited.reading.delimiter ELSE ""]
        BY <2>2 DEF Counted
      <3> HIDE DEF counted, v
      <3> QED
        BY <3>1, <3>2, <3>3 DEF SetsReading
    <2> QED
      BY <2>1, <2>2
  <1> HIDE DEF counted
  <1>6. /\ IsInfo(complete) /\ SameExcept(counted, complete, {"reading"})
        /\ complete.reading = Limited(counted.reading, j)
    <2>1. CASE "nRespBytes" \notin DOMAIN j
      BY <1>5, <2>1 DEF Limited, SameExcept
    <2>2. CASE "nRespBytes" \in DOMAIN j
      <3> DEFINE v == j["nRespBytes"]
      <3>1. SetsReading(setResponseBytes(counted, v), counted,
                        [lines |-> FALSE, n |-> v, delimiter |-> ""])
        BY <1>5, BytesSetter
      <3>2. complete = setResponseBytes(counted, v)
        BY <2>2
      <3>3. Limited(counted.reading, j) = [lines |-> FALSE, n |-> v, delimiter |-> ""]
        BY <2>2 DEF Limited
      <3> HIDE DEF complete, v
      <3> QED
        BY <3>1, <3>2, <3>3 DEF SetsReading
    <2> QED
      BY <2>1, <2>2
  <1> HIDE DEF complete
  <1>7. /\ IsInfo(new) /\ SameExcept(complete, new, {"reading"})
        /\ new.reading.lines = complete.reading.lines
        /\ new.reading.delimiter = complete.reading.delimiter
        /\ new.reading.n = IF responseIsAbsent THEN 0 ELSE complete.reading.n
    BY <1>6 DEF IsInfo, IsReading, InfoFields, SameExcept
  <1> HIDE DEF new
  <1>8. SameExcept(info, new, {"reading", "cmdLineDelimiter"})
    BY <1>1, <1>3, <1>4, <1>5, <1>6, <1>7 DEF BeginsLevel, SetsMember, SameExcept
  <1>9. new.cmdLineDelimiter = delimiter /\ commanded.reading = start.reading
    BY <1>3, <1>4, <1>5, <1>6, <1>7 DEF SetsMember, SameExcept, InfoFields
  <1>10. complete.reading = ReadingAfter(start.reading, j)
    BY <1>4, <1>5, <1>6, <1>9 DEF ReadingAfter
  <1>11. EndsLevel(new, info, j, start, responseIsAbsent)
    BY <1>7, <1>8, <1>9, <1>10 DEF EndsLevel, BeginsLevel, delimiter
  <1> QED
    BY <1>2, <1>11 DEF start

\* The width that a level sets, or the one of the level around it.
WidthAfter(width, j) ==
  CASE "bitWidth" \in DOMAIN j -> {j["bitWidth"] \div 4}
    [] "characterWidth" \in DOMAIN j -> {j["characterWidth"]}
    [] OTHER -> width

\* Width, fractional bits and sign of a level: three setters in a row.
Formatted(info, j) ==
  setSignedFromJson(setFractionalBitsFromJson(setFixedWidthFromJson(info, j), j), j)

\* What the three change; the sign is the level's own or follows from the type.
FormatsLevel(new, info, j) ==
  /\ IsInfo(new)
  /\ SameExcept(info, new, {"width", "fractionalBits", "isSigned"})
  /\ new.width = WidthAfter(info.width, j)
  /\ new.isSigned = getValueOr(j, "signed", info.type \in {"decInt", "decFloat", "binFloat"})

\* The format that a level leaves.
LEMMA FormatAfter ==
  ASSUME NEW info, IsInfo(info), NEW j
  PROVE  FormatsLevel(Formatted(info, j), info, j)
  <1> DEFINE wide == setFixedWidthFromJson(info, j)
             scaled == setFractionalBitsFromJson(wide, j)
             new == setSignedFromJson(scaled, j)
             sign == getValueOr(j, "signed", scaled.type \in {"decInt", "decFloat", "binFloat"})
  <1>1. SetsMember(wide, info, "width", WidthAfter(info.width, j))
    <2>1. wide = [info EXCEPT !.width = WidthAfter(info.width, j)]
      BY DEF setFixedWidthFromJson, WidthAfter
    <2> QED
      BY <2>1, MemberSetter DEF InfoFields
  <1> HIDE DEF wide
  <1>2. IsInfo(scaled) /\ SameExcept(wide, scaled, {"fractionalBits"})
    BY <1>1, MemberSetter DEF setFractionalBitsFromJson, InfoFields, SetsMember
  <1> HIDE DEF scaled
  <1>3. SetsMember(new, scaled, "isSigned", sign)
    BY <1>2, MemberSetter DEF setSignedFromJson, InfoFields
  <1> HIDE DEF new
  <1>4. Formatted(info, j) = new
    BY DEF Formatted, new, scaled, wide
  <1>5. SameExcept(info, new, {"width", "fractionalBits", "isSigned"})
    BY <1>1, <1>2, <1>3 DEF SameExcept, SetsMember
  <1>6. new.width = wide.width /\ scaled.type = info.type
    BY <1>1, <1>2, <1>3 DEF SameExcept, SetsMember, InfoFields
  <1> QED
    BY <1>1, <1>3, <1>4, <1>5, <1>6 DEF FormatsLevel, SetsMember

\* Nothing is set but the type and a number of lines.
IsTyped(typed, t, nLines) ==
  /\ IsInfo(typed)
  /\ typed.type = t
  /\ typed.command = <<>> /\ typed.response = <<>> /\ typed.cmdLineDelimiter = ""
  /\ typed.reading.lines /\ typed.reading.n = nLines
  /\ typed.width = {}
  /\ typed.commandChecksums = <<>> /\ typed.responseChecksums = <<>>

\* An interaction before the file says anything of it but its type.
LEMMA TypedInteraction ==
  ASSUME NEW nLines, NEW t
  PROVE  IsTyped([setResponseNLines(InteractionInfo, nLines) EXCEPT !.type = t], t, nLines)
  <1> DEFINE counted == setResponseNLines(InteractionInfo, nLines)
             typed == [counted EXCEPT !.type = t]
  <1>1. /\ IsInfo(InteractionInfo)
        /\ InteractionInfo.command = <<>> /\ InteractionInfo.response = <<>>
        /\ InteractionInfo.cmdLineDelimiter = ""
        /\ InteractionInfo.reading = [lines |-> TRUE, n |-> 0, delimiter |-> ""]
        /\ InteractionInfo.width = {}
        /\ InteractionInfo.commandChecksums = <<>> /\ InteractionInfo.responseChecksums = <<>>
    BY DEF IsInfo, IsReading, InfoFields, InteractionInfo
  <1>2. /\ IsInfo(counted) /\ SameExcept(InteractionInfo, counted, {"reading"})
        /\ counted.reading.lines /\ counted.reading.n = nLines
    <2> DEFINE r == [lines |-> TRUE, n |-> nLines,
                     delimiter |-> IF InteractionInfo.reading.lines
                                   THEN InteractionInfo.reading.delimiter ELSE ""]
    <2>1. SetsReading(counted, InteractionInfo, r)
      BY <1>1, LinesSetter
    <2>2. r.lines /\ r.n = nLines
      OBVIOUS
    <2> HIDE DEF r, counted
    <2> QED
      BY <2>1, <2>2 DEF SetsReading
  <1> HIDE DEF counted
  <1>3. SetsMember(typed, counted, "type", t)
    BY <1>2, MemberSetter DEF InfoFields
  <1> HIDE DEF typed
  <1>4. /\ typed.command = <<>> /\ typed.response = <<>> /\ typed.cmdLineDelimiter = ""
        /\ typed.reading = counted.reading
        /\ typed.width = {}
        /\ typed.commandChecksums = <<>> /\ typed.responseChecksums = <<>>
    BY <1>1, <1>2, <1>3 DEF SameExcept, SetsMember, InfoFields
  <1>5. typed.reading.lines /\ typed.reading.n = nLines
    BY <1>2, <1>4
  <1>6. IsTyped(typed, t, nLines)
    BY <1>3, <1>4, <1>5 DEF IsTyped, SetsMember
  <1> QED
    BY <1>6 DEF typed, counted

\* What the register level makes of info, where the endings begin with start.
LeavesRegister(new, info, top, start) ==
  /\ IsInfo(new)
  /\ new.type = info.type /\ new.command = info.command /\ new.response = info.response
  /\ new.commandChecksums = info.commandChecksums /\ new.responseChecksums = info.responseChecksums
  /\ new.cmdLineDelimiter = CommandDelimiter(top, start.cmdLineDelimiter)
  /\ new.reading = ReadingAfter(start.reading, top)
  /\ new.width = WidthAfter(info.width, top)

\* The register level leaves the type and everything of the sections alone.
LEMMA RegisterLevel ==
  ASSUME NEW info, IsInfo(info), NEW top, NEW d
  PROVE  LeavesRegister(FromRegisterLevel(info, top, d), info, top, BeforeEndings(info, {d}))
  <1> DEFINE ended == setEndingsFromJson(info, top, {d}, FALSE)
             start == BeforeEndings(info, {d})
             reading == ReadingAfter(start.reading, top)
             new == FromRegisterLevel(info, top, d)
  <1>1. EndsLevel(ended, info, top, start, FALSE)
    BY EndingsAfter
  <1>2. FormatsLevel(new, ended, top)
    <2>1. new = Formatted(ended, top)
      BY DEF FromRegisterLevel, Formatted
    <2>2. IsInfo(ended)
      BY <1>1 DEF EndsLevel, BeginsLevel
    <2> HIDE DEF new, ended
    <2> QED
      BY <2>1, <2>2, FormatAfter
  <1>3. IsReading(reading)
    <2>1. IsReading(start.reading)
      BY EndingsBefore DEF BeginsLevel, IsInfo
    <2> QED
      BY <2>1, ReadingStays
  <1> HIDE DEF ended, start, reading, new
  <1>4. ended.reading = reading
    <2>1. /\ IsReading(ended.reading)
          /\ ended.reading.lines = reading.lines
          /\ ended.reading.delimiter = reading.delimiter
          /\ ended.reading.n = reading.n
      BY <1>1 DEF EndsLevel, BeginsLevel, IsInfo, reading
    <2> QED
      BY <1>3, <2>1, SameReading
  <1>5. /\ new.type = info.type /\ new.command = info.command /\ new.response = info.response
        /\ new.commandChecksums = info.commandChecksums /\ new.responseChecksums = info.responseChecksums
        /\ new.cmdLineDelimiter = ended.cmdLineDelimiter
        /\ new.reading = ended.reading
        /\ ended.width = info.width
    BY <1>1, <1>2 DEF EndsLevel, BeginsLevel, FormatsLevel, SameExcept, InfoFields
  <1>6. IsInfo(new) /\ new.width = WidthAfter(ended.width, top)
    BY <1>2 DEF FormatsLevel
  <1>7. ended.cmdLineDelimiter = CommandDelimiter(top, start.cmdLineDelimiter)
    BY <1>1 DEF EndsLevel
  <1>8. LeavesRegister(new, info, top, start)
    BY <1>4, <1>5, <1>6, <1>7 DEF LeavesRegister, reading
  <1> QED
    BY <1>8 DEF new, start

\* What the reading of a section's level is, from that which it begins with.
LeavesReading(new, reading, j) ==
  LET after == ReadingAfter(reading, j) IN
    /\ new.lines = after.lines
    /\ new.delimiter = after.delimiter
    /\ new.n = IF "resp" \notin DOMAIN j THEN 0 ELSE after.n

\* What the section sets, and nothing before it has any part in.
LeavesSection(new, j) ==
  /\ "cmd" \in DOMAIN j /\ j["cmd"] # <<>> /\ new.command = j["cmd"]
  /\ new.response = getValueOr(j, "resp", <<>>)
  /\ new.isSigned = getValueOr(j, "signed", new.type \in {"decInt", "decFloat", "binFloat"})
  /\ new.commandChecksums = ChecksumNames(j, "cmdChecksum", new.command)
  /\ new.responseChecksums = ChecksumNames(j, "respChecksum", new.response)
  /\ new.payloads = getChecksumPayloadSnippets(new.command)

\* What an active section makes of info, where the endings begin with start.
LeavesLevels(new, info, j, start) ==
  /\ new.type = info.type
  /\ new.width = WidthAfter(info.width, j)
  /\ new.cmdLineDelimiter = CommandDelimiter(j, start.cmdLineDelimiter)
  /\ LeavesReading(new.reading, start.reading, j)
  /\ LeavesSection(new, j)

\* Nothing of a section is set.
IsBlank(info) == IsInfo(info) /\ info.command = <<>> /\ info.response = <<>>

\* What an active section makes of the interaction that the register level left.
LEMMA SectionLevel ==
  ASSUME NEW info, IsBlank(info), NEW j, isActive(populateFromJson(info, j))
  PROVE  LeavesLevels(populateFromJson(info, j), info, j, BeforeEndings(info, {}))
  <1> DEFINE command == getValueOr(j, "cmd", info.command)
             active == [info EXCEPT !.command = getValueOr(j, "cmd", @)]
             response == getValueOr(j, "resp", active.response)
             responding == [active EXCEPT !.response = getValueOr(j, "resp", @)]
             absent == "resp" \notin DOMAIN j
             ended == setEndingsFromJson(responding, j, {}, absent)
             formatted == Formatted(ended, j)
             new == setChecksumsFromJson(formatted, j)
             start == BeforeEndings(responding, {})
  <1>0. IsInfo(info)
    BY DEF IsBlank
  <1>1. SetsMember(active, info, "command", command)
    BY <1>0, MemberSetter DEF InfoFields
  <1>2. isActive(active) /\ populateFromJson(info, j) = new
    <2>1. CASE isActive(active)
      BY <2>1 DEF populateFromJson, Formatted
    <2>2. CASE ~isActive(active)
      <3>1. populateFromJson(info, j) = active
        BY <2>2 DEF populateFromJson
      <3> QED
        BY <2>2, <3>1
    <2> QED
      BY <2>1, <2>2
  <1> HIDE DEF active
  <1>3. "cmd" \in DOMAIN j /\ j["cmd"] # <<>> /\ active.command = j["cmd"]
    BY <1>1, <1>2 DEF isActive, getValueOr, IsBlank, SetsMember
  <1>4. SetsMember(responding, active, "response", response)
    <2>1. IsInfo(active)
      BY <1>1 DEF SetsMember
    <2> QED
      BY <2>1, MemberSetter DEF InfoFields
  <1>a. response = getValueOr(j, "resp", <<>>)
    BY <1>1 DEF SetsMember, SameExcept, InfoFields, IsBlank
  <1> HIDE DEF responding, response
  <1>5. EndsLevel(ended, responding, j, start, absent)
    <2>1. IsInfo(responding) /\ absent \in BOOLEAN
      BY <1>4 DEF SetsMember
    <2> HIDE DEF absent
    <2> QED
      BY <2>1, EndingsAfter
  <1> HIDE DEF ended
  <1>6. FormatsLevel(formatted, ended, j)
    BY <1>5, FormatAfter DEF EndsLevel, BeginsLevel
  <1> HIDE DEF formatted
  <1>7. /\ IsInfo(new)
        /\ SameExcept(formatted, new, {"commandChecksums", "responseChecksums", "payloads"})
        /\ new.commandChecksums = ChecksumNames(j, "cmdChecksum", formatted.command)
        /\ new.responseChecksums = ChecksumNames(j, "respChecksum", formatted.response)
        /\ new.payloads = getChecksumPayloadSnippets(formatted.command)
    BY <1>6 DEF FormatsLevel, IsInfo, IsReading, InfoFields, SameExcept, setChecksumsFromJson
  <1> HIDE DEF new
  <1>8. /\ new.command = active.command /\ formatted.command = active.command
        /\ new.response = response /\ formatted.response = response
        /\ new.type = info.type /\ ended.type = info.type
        /\ new.width = formatted.width /\ ended.width = info.width
        /\ new.isSigned = formatted.isSigned
        /\ new.reading = ended.reading
        /\ new.cmdLineDelimiter = ended.cmdLineDelimiter
    <2>1. /\ SameExcept(info, active, {"command"})
          /\ SameExcept(active, responding, {"response"}) /\ responding.response = response
          /\ SameExcept(responding, ended, {"reading", "cmdLineDelimiter"})
          /\ SameExcept(ended, formatted, {"width", "fractionalBits", "isSigned"})
      BY <1>1, <1>4, <1>5, <1>6 DEF SetsMember, EndsLevel, BeginsLevel, FormatsLevel
    <2> QED
      BY <1>7, <2>1 DEF SameExcept, InfoFields
  <1>9. /\ start.reading = BeforeEndings(info, {}).reading
        /\ start.cmdLineDelimiter = BeforeEndings(info, {}).cmdLineDelimiter
    <2>1. /\ responding.type = info.type /\ responding.reading = info.reading
          /\ responding.cmdLineDelimiter = info.cmdLineDelimiter
          /\ IsInfo(responding)
      BY <1>1, <1>4 DEF SameExcept, InfoFields, SetsMember
    <2>2. CASE isBinary(info) /\ usesReadBytes(info)
      BY <1>0, <2>1, <2>2 DEF BeforeEndings, isBinary, usesReadBytes, usesReadLines, IsInfo, InfoFields
    <2>3. CASE isBinary(info) /\ ~usesReadBytes(info)
      BY <1>0, <2>1, <2>3 DEF BeforeEndings, isBinary, usesReadBytes, usesReadLines, IsInfo, InfoFields, setResponseBytes
    <2>4. CASE ~isBinary(info)
      BY <1>0, <2>1, <2>4 DEF BeforeEndings, isBinary
    <2> QED
      BY <2>2, <2>3, <2>4
  <1>10. LeavesReading(new.reading, BeforeEndings(info, {}).reading, j)
    BY <1>5, <1>8, <1>9 DEF LeavesReading, EndsLevel, absent
  <1>11. LeavesSection(new, j)
    BY <1>3, <1>a, <1>6, <1>7, <1>8 DEF LeavesSection, FormatsLevel
  <1>12. /\ new.type = info.type
         /\ new.width = WidthAfter(info.width, j)
         /\ new.cmdLineDelimiter = CommandDelimiter(j, BeforeEndings(info, {}).cmdLineDelimiter)
    BY <1>5, <1>6, <1>8, <1>9 DEF EndsLevel, FormatsLevel
  <1> QED
    BY <1>2, <1>10, <1>11, <1>12 DEF LeavesLevels

\* How a text interaction enters the section's level: the map file's delimiter,
\* unless the register has set one.
EntersText(inner, top, nLines, d) ==
  /\ inner.cmdLineDelimiter = CommandDelimiter(top, d)
  /\ inner.reading = ReadingAfter([lines |-> TRUE, n |-> nLines, delimiter |-> d], top)

\* A text interaction goes through the register level from the map file's
\* delimiter, and enters the section's as it is.
LEMMA TextLevels ==
  ASSUME NEW info, IsInfo(info), ~isBinary(info), info.reading.lines, NEW top, NEW d
  PROVE  EntersText(BeforeEndings(FromRegisterLevel(info, top, d), {}), top, info.reading.n, d)
  <1> DEFINE level == FromRegisterLevel(info, top, d)
             start == BeforeEndings(info, {d})
             commanded == [info EXCEPT !.cmdLineDelimiter = d]
  <1>1. LeavesRegister(level, info, top, start)
    BY RegisterLevel
  <1>2. start = setResponseDelimiter(commanded, d)
    <2>1. {d} # {} /\ (CHOOSE x \in {d} : TRUE) = d
      OBVIOUS
    <2> QED
      BY <2>1 DEF BeforeEndings
  <1>a. SetsMember(commanded, info, "cmdLineDelimiter", d)
    BY MemberSetter DEF InfoFields
  <1> HIDE DEF commanded, start, level
  <1>3. /\ IsInfo(commanded) /\ commanded.cmdLineDelimiter = d
        /\ commanded.reading = info.reading
    BY <1>a DEF SetsMember, InfoFields, SameExcept
  <1>4. /\ SameExcept(commanded, start, {"reading"})
        /\ start.reading = [lines |-> TRUE,
                            n |-> IF commanded.reading.lines THEN commanded.reading.n ELSE 0,
                            delimiter |-> d]
    BY <1>2, <1>3, DelimiterSetter DEF SetsReading
  <1>5. start.cmdLineDelimiter = d
    BY <1>3, <1>4 DEF SameExcept, InfoFields
  <1>6. start.reading = [lines |-> TRUE, n |-> info.reading.n, delimiter |-> d]
    BY <1>3, <1>4
  <1>7. BeforeEndings(level, {}) = level
    BY <1>1 DEF BeforeEndings, isBinary, LeavesRegister
  <1>8. EntersText(level, top, info.reading.n, d)
    BY <1>1, <1>5, <1>6 DEF EntersText, LeavesRegister
  <1> QED
    BY <1>7, <1>8 DEF level

\* Reading no bytes.
LEMMA NoBytes ==
  ASSUME NEW r, r = [lines |-> FALSE, n |-> 0, delimiter |-> ""]
  PROVE  IsReading(r) /\ ~r.lines /\ r.n = 0 /\ r.delimiter = ""
  BY DEF IsReading

\* Endings that ask for bytes before a level and after it are of what that level sets.
LEMMA BytesStay ==
  ASSUME NEW r, NEW new, NEW j, IsReading(r), new = ReadingAfter(r, j),
         ~r.lines, r.delimiter = "", r.n = 0, ~new.lines
  PROVE  /\ IsReading(new) /\ new.delimiter = ""
         /\ new.n = 0 \/ ("nRespBytes" \in DOMAIN j /\ new.n = j["nRespBytes"])
  BY ReadingStays

\* How a binary interaction enters the section's level: with bytes, and, unless
\* the register has set one, without a delimiter of commands.
EntersBinary(inner, top) ==
  /\ IsReading(inner.reading)
  /\ ~inner.reading.lines /\ inner.reading.delimiter = ""
  /\ inner.reading.n = 0 \/ ("nRespBytes" \in DOMAIN top /\ inner.reading.n = top["nRespBytes"])
  /\ {"cmdDelim", "delimiter"} \cap DOMAIN top = {} => inner.cmdLineDelimiter = ""

\* What the register sets of the endings is undone for a binary interaction
\* where it asks for lines.
LEMMA BinaryLevels ==
  ASSUME NEW info, IsInfo(info), isBinary(info), info.reading.lines,
         info.cmdLineDelimiter = "", NEW top, NEW d
  PROVE  EntersBinary(BeforeEndings(FromRegisterLevel(info, top, d), {}), top)
  <1> DEFINE level == FromRegisterLevel(info, top, d)
             start == BeforeEndings(info, {d})
             inner == BeforeEndings(level, {})
  <1>0. LeavesRegister(level, info, top, start)
    BY RegisterLevel
  <1>2. start.cmdLineDelimiter = "" /\ start.reading = [lines |-> FALSE, n |-> 0, delimiter |-> ""]
    BY BinaryBefore DEF BeginsBinary
  <1> HIDE DEF start, level
  <1>1. /\ IsInfo(level) /\ isBinary(level)
        /\ level.cmdLineDelimiter = CommandDelimiter(top, start.cmdLineDelimiter)
        /\ level.reading = ReadingAfter(start.reading, top)
    BY <1>0 DEF isBinary, LeavesRegister
  <1>3. IF level.reading.lines
        THEN /\ inner.cmdLineDelimiter = level.cmdLineDelimiter
             /\ inner.reading = [lines |-> FALSE, n |-> 0, delimiter |-> ""]
        ELSE inner.cmdLineDelimiter = "" /\ inner.reading = level.reading
    BY <1>1, BinaryBefore DEF BeginsBinary
  <1> HIDE DEF inner
  <1>4. {"cmdDelim", "delimiter"} \cap DOMAIN top = {} => level.cmdLineDelimiter = ""
    BY <1>1, <1>2 DEF CommandDelimiter, getValueOr
  <1>5. ASSUME level.reading.lines PROVE EntersBinary(inner, top)
    <2>1. inner.reading = [lines |-> FALSE, n |-> 0, delimiter |-> ""]
      BY <1>3, <1>5
    <2>2. /\ IsReading(inner.reading) /\ ~inner.reading.lines
          /\ inner.reading.delimiter = "" /\ inner.reading.n = 0
      BY <2>1, NoBytes
    <2>3. inner.cmdLineDelimiter = level.cmdLineDelimiter
      BY <1>3, <1>5
    <2> QED
      BY ONLY <2>2, <2>3, <1>4 DEF EntersBinary
  <1>6. ASSUME ~level.reading.lines PROVE EntersBinary(inner, top)
    <2>1. /\ IsReading(start.reading) /\ ~start.reading.lines
          /\ start.reading.delimiter = "" /\ start.reading.n = 0
      BY <1>2, NoBytes
    <2>2. /\ IsReading(level.reading) /\ level.reading.delimiter = ""
          /\ level.reading.n = 0 \/ ("nRespBytes" \in DOMAIN top /\ level.reading.n = top["nRespBytes"])
      <3> SUFFICES ASSUME NEW r, NEW new, r = start.reading, new = level.reading
                   PROVE  /\ IsReading(new) /\ new.delimiter = ""
                          /\ new.n = 0 \/ ("nRespBytes" \in DOMAIN top /\ new.n = top["nRespBytes"])
        OBVIOUS
      <3>1. IsReading(r) /\ ~r.lines /\ r.delimiter = "" /\ r.n = 0
        BY ONLY <2>1, r = start.reading
      <3>2. new = ReadingAfter(r, top) /\ ~new.lines
        BY ONLY <1>1, <1>6, r = start.reading, new = level.reading
      <3> QED
        BY ONLY <3>1, <3>2, BytesStay
    <2> QED
      BY ONLY <1>3, <1>6, <2>2 DEF EntersBinary
  <1> QED
    BY ONLY <1>5, <1>6 DEF inner, level

\* own, the sections of a kind, has j and no other.
IsOnly(j, own) == j \in own /\ \A k \in own : k = j

\* The endings of an interaction, from those of its level and of the register's.
LeavesEndings(info, j, top, nLines, d) ==
  IF isBinary(info)
  THEN \E inner : /\ EntersBinary(inner, top)
                  /\ info.cmdLineDelimiter = CommandDelimiter(j, inner.cmdLineDelimiter)
                  /\ LeavesReading(info.reading, inner.reading, j)
  ELSE LET outer == ReadingAfter([lines |-> TRUE, n |-> nLines, delimiter |-> d], top) IN
         /\ info.cmdLineDelimiter = CommandDelimiter(j, CommandDelimiter(top, d))
         /\ LeavesReading(info.reading, outer, j)

\* An active interaction, from its section and the register level: what is set
\* last holds, and each level starts from what the one around it has left.
LEMMA InteractionMembers ==
  ASSUME NEW own, NEW j, IsOnly(j, own), NEW other, NEW top, NEW nLines, NEW d,
         isActive(Interaction(own, other, top, nLines, d))
  PROVE  LET info == Interaction(own, other, top, nLines, d) IN
           /\ info.type = (CHOOSE t \in TypeOf(own, other, top) : TRUE)
           /\ info.width = WidthAfter(WidthAfter({}, top), j)
           /\ LeavesSection(info, j)
           /\ LeavesEndings(info, j, top, nLines, d)
  <1> DEFINE info == Interaction(own, other, top, nLines, d)
             t == CHOOSE t \in TypeOf(own, other, top) : TRUE
             typed == [setResponseNLines(InteractionInfo, nLines) EXCEPT !.type = t]
             start == BeforeEndings(typed, {d})
             level == FromRegisterLevel(typed, top, d)
             inner == BeforeEndings(level, {})
  <1>1. info = populateFromJson(level, j)
    <2>1. own # {} /\ (CHOOSE k \in own : TRUE) = j
      BY DEF IsOnly
    <2> QED
      BY <2>1 DEF Interaction
  <1> HIDE DEF info, t
  <1>2. IsTyped(typed, t, nLines)
    BY TypedInteraction
  <1> HIDE DEF typed
  <1>3. IsInfo(typed) /\ typed.reading.lines /\ typed.reading.n = nLines /\ typed.cmdLineDelimiter = ""
    BY <1>2 DEF IsTyped
  <1>4. LeavesRegister(level, typed, top, start)
    BY <1>3, RegisterLevel
  <1>5. ~isBinary(typed) => EntersText(inner, top, nLines, d)
    BY <1>3, TextLevels
  <1>6. isBinary(typed) => EntersBinary(inner, top)
    BY <1>3, BinaryLevels
  <1> HIDE DEF level, start
  <1>7. /\ IsBlank(level)
        /\ level.type = t /\ typed.type = t
        /\ level.width = WidthAfter({}, top)
    BY <1>2, <1>4 DEF IsTyped, LeavesRegister, IsBlank
  <1>8. isActive(populateFromJson(level, j))
    BY <1>1 DEF info
  <1>9. LeavesLevels(info, level, j, inner)
    BY <1>1, <1>7, <1>8, SectionLevel
  <1> HIDE DEF inner
  <1>10. /\ info.type = t
         /\ info.width = WidthAfter(WidthAfter({}, top), j)
         /\ LeavesSection(info, j)
         /\ info.cmdLineDelimiter = CommandDelimiter(j, inner.cmdLineDelimiter)
         /\ LeavesReading(info.reading, inner.reading, j)
    BY <1>7, <1>9 DEF LeavesLevels
  <1>11. isBinary(info) <=> isBinary(typed)
    BY <1>7, <1>10 DEF isBinary
  <1>12. LeavesEndings(info, j, top, nLines, d)
    <2>1. CASE isBinary(info)
      BY <1>6, <1>10, <1>11, <2>1 DEF LeavesEndings
    <2>2. CASE ~isBinary(info)
      BY <1>5, <1>10, <1>11, <2>2 DEF LeavesEndings, EntersText
    <2> QED
      BY <2>1, <2>2
  <1> QED
    BY <1>10, <1>12 DEF info, t

\* a was made from a section of own, the type perhaps from other, and the register.
MadeFrom(a, own, other) ==
  /\ IsOnly(a.section, own)
  /\ a.info = Interaction(own, other, a.top, a.lines, serialDelimiter)
  /\ TypeOf(own, other, a.top) # {}
  /\ \A t \in TypeOf(own, other, a.top) :
       /\ ~IsBadWidth([InteractionInfo EXCEPT !.type = t], a.top)
       /\ ~IsBadSection([InteractionInfo EXCEPT !.type = t], a.section)
       /\ t \in TransportLayerType

\* Only known types are taken.
LEMMA TypesAreKnown ==
  ASSUME NEW own, NEW other, NEW top, \A i, j \in own : i = j, \A i, j \in other : i = j,
         \A j \in {top} \cup own \cup other : "type" \in DOMAIN j => j["type"] \in TransportLayerType
  PROVE  \A t \in TypeOf(own, other, top) : t \in TransportLayerType
  <1> DEFINE Declared(section) ==
               IF \E j \in section : "type" \in DOMAIN j
               THEN {j["type"] : j \in section} ELSE getValueOption(top, "type")
  <1>1. \A t \in getValueOption(top, "type") : t \in TransportLayerType
    BY DEF getValueOption
  <1>2. \A t \in Declared(own) : t \in TransportLayerType
    BY <1>1
  <1>3. \A t \in Declared(other) : t \in TransportLayerType
    BY <1>1
  <1>4. TypeOf(own, other, top) = IF Declared(own) # {} THEN Declared(own) ELSE Declared(other)
    BY DEF TypeOf
  <1> HIDE DEF Declared
  <1> QED
    BY <1>2, <1>3, <1>4

\* What the properties of active interactions rest on: the interaction is made
\* from its section and the register, and has passed every test.
LEMMA ActiveIsAccepted ==
  ASSUME NEW a, NEW reg, ComesFrom(a, reg)
  PROVE  /\ \E own, other : MadeFrom(a, own, other)
         /\ ~IsBadEnding(a.top, FALSE)
         /\ WellTyped(a.top) /\ WellTyped(a.section)
         /\ ~throwIfBadEndings(a.info)
         /\ ~throwIfBadFixedWidth(a.info)
         /\ ~throwIfBadChecksum(a.info)
  <1> DEFINE d == serialDelimiter
             r == ReadInfo(reg, d)
             w == WriteInfo(reg, d)
  <1>1. /\ ~IsBadJson(reg)
        /\ RegisterInfo(reg, d).readInfo = r
        /\ RegisterInfo(reg, d).writeInfo = w
        /\ Verdict(r, w, getValueOr(reg.top, "nElem", 1)) = "accepted"
    BY WhatIsAccepted DEF ComesFrom
  <1>2. ~IsBadInfo(r, w, getValueOr(reg.top, "nElem", 1))
    BY <1>1, WhatIsValid
  <1>3. \A info \in {r, w} : /\ ~throwIfBadEndings(info)
                             /\ ~throwIfBadFixedWidth(info)
                             /\ ~throwIfBadChecksum(info)
    BY <1>2 DEF IsBadInfo
  <1>4. /\ ~IsBadEnding(reg.top, FALSE)
        /\ TypeOf(reg.read, reg.write, reg.top) \cup TypeOf(reg.write, reg.read, reg.top) # {}
        /\ \A t \in TypeOf(reg.read, reg.write, reg.top) \cup TypeOf(reg.write, reg.read, reg.top) :
             ~IsBadWidth([InteractionInfo EXCEPT !.type = t], reg.top)
        /\ \A j \in reg.read : \A t \in TypeOf(reg.read, reg.write, reg.top) :
             ~IsBadSection([InteractionInfo EXCEPT !.type = t], j)
        /\ \A j \in reg.write : \A t \in TypeOf(reg.write, reg.read, reg.top) :
             ~IsBadSection([InteractionInfo EXCEPT !.type = t], j)
    BY <1>1 DEF IsBadJson
  <1>5. /\ TypeOf(reg.read, reg.write, reg.top) # {}
        /\ TypeOf(reg.write, reg.read, reg.top) # {}
    BY <1>4 DEF TypeOf
  <1>a. /\ \A t \in TypeOf(reg.read, reg.write, reg.top) : t \in TransportLayerType
        /\ \A t \in TypeOf(reg.write, reg.read, reg.top) : t \in TransportLayerType
    <2>1. /\ \A i, j \in reg.read : i = j
          /\ \A i, j \in reg.write : i = j
      BY DEF ComesFrom, WellTypedRegister
    <2>2. \A j \in {reg.top} \cup reg.read \cup reg.write :
            "type" \in DOMAIN j => j["type"] \in TransportLayerType
      BY <1>1 DEF IsBadJson
    <2> QED
      BY <2>1, <2>2, TypesAreKnown
  <1>6. /\ WellTyped(a.top) /\ WellTyped(a.section)
        /\ a.section \in reg.read => IsOnly(a.section, reg.read)
        /\ a.section \in reg.write => IsOnly(a.section, reg.write)
        /\ a.top = reg.top /\ isActive(a.info)
    BY DEF ComesFrom, WellTypedRegister, IsOnly
  <1> HIDE DEF r, w
  <1>7. CASE a.section \in reg.read /\ a.info = r /\ a.lines = 1
    <2>1. r = Interaction(reg.read, reg.write, a.top, a.lines, serialDelimiter)
      BY <1>6, <1>7 DEF r, ReadInfo
    <2>2. MadeFrom(a, reg.read, reg.write)
      BY <1>4, <1>5, <1>a, <1>6, <1>7, <2>1 DEF MadeFrom
    <2> QED
      BY <1>3, <1>4, <1>6, <1>7, <2>2
  <1>8. CASE a.section \in reg.write /\ a.info = w /\ a.lines = 0
    <2>1. w = Interaction(reg.write, reg.read, a.top, a.lines, serialDelimiter)
      BY <1>6, <1>8 DEF w, WriteInfo
    <2>2. MadeFrom(a, reg.write, reg.read)
      BY <1>4, <1>5, <1>a, <1>6, <1>8, <2>1 DEF MadeFrom
    <2> QED
      BY <1>3, <1>4, <1>6, <1>8, <2>2
  <1> QED
    BY <1>1, <1>7, <1>8 DEF ComesFrom

-----------------------------------------------------------------------------
(* Checksums *)

\* A pattern in which every checksum has all its tags has as many tags of each
\* kind as checksums, or more.
LEMMA TagsOfChecksums ==
  ASSUME NEW pattern \in Seq(Token), ~HasIncompleteEntries(parsePattern(pattern)),
         NEW tag \in ChecksumTag
  PROVE  /\ TagCount(pattern, tag) \in Nat /\ getNChecksums(pattern) \in Nat
         /\ TagCount(pattern, tag) >= getNChecksums(pattern)
  <1> DEFINE S == {i \in DOMAIN pattern : pattern[i].tag = tag}
             T == ChecksumIndices(pattern)
             f == [i \in S |-> pattern[i].n]
  <1>1. IsFiniteSet(S)
    <2>1. DOMAIN pattern = 1..Len(pattern) /\ Len(pattern) \in Nat
      OBVIOUS
    <2>2. IsFiniteSet(1..Len(pattern))
      BY <2>1, FS_Interval
    <2>3. S \in SUBSET (1..Len(pattern))
      BY <2>1
    <2> QED
      BY <2>2, <2>3, FS_Subset
  <1>2. f \in Surjection(S, T)
    <2>1. \A i \in S : f[i] \in T
      <3>1. \A i \in S : pattern[i] \in ToSet(pattern) /\ pattern[i].tag \in ChecksumTag
        BY DEF ToSet
      <3> QED
        BY <3>1 DEF ChecksumIndices
    <2>2. ASSUME NEW k \in T
          PROVE  \E i \in S : f[i] = k
      <3>1. TagPosition(pattern, tag, k) # NotFound
        BY DEF HasIncompleteEntries, parsePattern
      <3>2. PICK i \in DOMAIN pattern : pattern[i] = [tag |-> tag, n |-> k]
        BY <3>1 DEF TagPosition
      <3> QED
        BY <3>2
    <2>3. f \in [S -> T]
      BY <2>1
    <2> QED
      BY <2>2, <2>3 DEF Surjection
  <1>3. Cardinality(T) <= Cardinality(S) /\ IsFiniteSet(T)
    <2> HIDE DEF S, T, f
    <2> QED
      BY <1>1, <1>2, FS_Surjection
  <1>4. Cardinality(S) \in Nat /\ Cardinality(T) \in Nat
    BY <1>1, <1>3, FS_CardinalityType
  <1> QED
    BY <1>3, <1>4 DEF TagCount, getNChecksums

\* The number of tags of a kind, whatever it is, is a number.
LEMMA TagCountNat ==
  ASSUME NEW pattern \in Seq(Token), NEW tag
  PROVE  TagCount(pattern, tag) \in Nat
  <1>1. IsFiniteSet(1..Len(pattern)) /\ DOMAIN pattern = 1..Len(pattern)
    BY FS_Interval
  <1>2. {i \in DOMAIN pattern : pattern[i].tag = tag} \in SUBSET (1..Len(pattern))
    BY <1>1
  <1> QED
    BY <1>1, <1>2, FS_Subset, FS_CardinalityType DEF TagCount

\* What the file gives as a response is a pattern.
LEMMA PatternOf ==
  ASSUME NEW j, WellTyped(j), NEW key \in {"cmd", "resp"}
  PROVE  getValueOr(j, key, <<>>) \in Seq(Token)
  BY DEF WellTyped, getValueOr

\* What the checks of checksums need to know of an interaction.
LEMMA ChecksumMembers ==
  ASSUME NEW a, NEW own, NEW other, MadeFrom(a, own, other), isActive(a.info)
  PROVE  /\ "cmd" \in DOMAIN a.section /\ a.info.command = a.section["cmd"]
         /\ a.info.response = getValueOr(a.section, "resp", <<>>)
         /\ a.info.payloads = getChecksumPayloadSnippets(a.info.command)
  <1> DEFINE info == Interaction(own, other, a.top, a.lines, serialDelimiter)
  <1>1. a.info = info /\ IsOnly(a.section, own)
    BY DEF MadeFrom
  <1>2. isActive(info)
    BY <1>1
  <1>3. /\ "cmd" \in DOMAIN a.section /\ info.command = a.section["cmd"]
        /\ info.response = getValueOr(a.section, "resp", <<>>)
        /\ info.payloads = getChecksumPayloadSnippets(info.command)
    BY <1>1, <1>2, InteractionMembers DEF LeavesSection
  <1> QED
    BY <1>1, <1>3

\* The three lists that the accessor walks through in parallel have, for every
\* register of every map file, the lengths it relies on.
THEOREM AgreeingLists ==
  ASSUME \A f \in Files : WellTypedFile(f)
  PROVE  Spec => []ChecksumListsAgree
  <1>1. CatalogueInv /\ file \in Files => ChecksumListsAgree
    <2> SUFFICES ASSUME CatalogueInv, file \in Files, NEW a \in Active
                 PROVE  /\ Len(a.info.payloads) >= Len(a.info.commandChecksums)
                        /\ ResponseChecksumMarks(a.info) >= Len(a.info.responseChecksums)
                        /\ ResponseChecksumPayloadMarks(a.info) >= Len(a.info.responseChecksums)
      BY DEF ChecksumListsAgree
    <2>1. PICK reg : ComesFrom(a, reg)
      BY ActiveHasRegister
    <2>2. /\ WellTyped(a.section) /\ isActive(a.info)
          /\ ~throwIfBadChecksum(a.info)
          /\ \E own, other : MadeFrom(a, own, other)
      BY <2>1, ActiveIsAccepted DEF ComesFrom
    <2>3. /\ a.info.command = a.section["cmd"] /\ "cmd" \in DOMAIN a.section
          /\ a.info.response = getValueOr(a.section, "resp", <<>>)
          /\ a.info.payloads = getChecksumPayloadSnippets(a.info.command)
      <3>1. PICK own, other : MadeFrom(a, own, other)
        BY <2>2
      <3> QED
        BY <2>2, <3>1, ChecksumMembers
    <2>4. /\ a.info.response \in Seq(Token) /\ a.info.command \in Seq(Token)
      BY <2>2, <2>3, PatternOf DEF WellTyped
    <2>5. /\ IsValidChecksumPattern(a.info.response) /\ IsValidChecksumPattern(a.info.command)
          /\ getNChecksums(a.info.response) = Len(a.info.responseChecksums)
          /\ getNChecksums(a.info.command) = Len(a.info.commandChecksums)
      BY <2>2 DEF throwIfBadChecksum
    <2>6. /\ ~HasIncompleteEntries(parsePattern(a.info.response))
          /\ ~HasIncompleteEntries(parsePattern(a.info.command))
      BY <2>5 DEF IsValidChecksumPattern
    <2>7. Len(a.info.payloads) = getNChecksums(a.info.command)
      <3>1. getNChecksums(a.info.command) \in Nat
        BY <2>4, <2>6, TagsOfChecksums DEF ChecksumTag
      <3> QED
        BY <2>3, <3>1 DEF getChecksumPayloadSnippets
    <2>8. /\ TagCount(a.info.response, "group") \in Nat
          /\ TagCount(a.info.response, "point") \in Nat /\ TagCount(a.info.response, "start") \in Nat
          /\ getNChecksums(a.info.response) \in Nat /\ getNChecksums(a.info.command) \in Nat
          /\ TagCount(a.info.response, "point") >= getNChecksums(a.info.response)
          /\ TagCount(a.info.response, "start") >= getNChecksums(a.info.response)
      BY <2>4, <2>6, TagsOfChecksums, TagCountNat DEF ChecksumTag
    <2> QED
      BY <2>5, <2>7, <2>8 DEF ResponseChecksumMarks, ResponseChecksumPayloadMarks
  <1> QED
    BY <1>1, CatalogueInvariant, PTL

-----------------------------------------------------------------------------
(* Endings *)

\* What the innermost of several levels is.
LEMMA InnermostFound ==
  ASSUME NEW c, DOMAIN c \subseteq Nat, NEW m \in DOMAIN c, c[m].key \in DOMAIN c[m].level,
         \A i \in DOMAIN c : i < m => c[i].key \notin DOMAIN c[i].level, NEW default
  PROVE  Innermost(c, default) = c[m].level[c[m].key]
  <1> DEFINE found == {i \in DOMAIN c : c[i].key \in DOMAIN c[i].level}
  <1>1. found \subseteq Nat /\ m \in found
    OBVIOUS
  <1>2. \A i \in found : m <= i
    OBVIOUS
  <1>3. Min(found) = m
    <2> HIDE DEF found
    <2> QED
      BY <1>1, <1>2, LeastIsMin
  <1> QED
    BY <1>1, <1>3 DEF Innermost

\* No level says anything.
LEMMA InnermostNone ==
  ASSUME NEW c, \A i \in DOMAIN c : c[i].key \notin DOMAIN c[i].level, NEW default
  PROVE  Innermost(c, default) = default
  BY DEF Innermost

\* One key on two levels.
LEMMA InnermostOfTwo ==
  ASSUME NEW section, NEW top, NEW key, NEW default
  PROVE  Innermost(<<At(section, key), At(top, key)>>, default) =
           getValueOr(section, key, getValueOr(top, key, default))
  <1> DEFINE c == <<At(section, key), At(top, key)>>
  <1>1. /\ DOMAIN c = {1, 2}
        /\ c[1].level = section /\ c[1].key = key
        /\ c[2].level = top /\ c[2].key = key
    BY DEF At
  <1> HIDE DEF c
  <1>2. CASE key \in DOMAIN section
    <2>1. Innermost(c, default) = c[1].level[c[1].key]
      BY <1>1, <1>2, InnermostFound
    <2> QED
      BY <1>1, <1>2, <2>1 DEF c, getValueOr
  <1>3. CASE key \notin DOMAIN section /\ key \in DOMAIN top
    <2>1. Innermost(c, default) = c[2].level[c[2].key]
      BY <1>1, <1>3, InnermostFound
    <2> QED
      BY <1>1, <1>3, <2>1 DEF c, getValueOr
  <1>4. CASE key \notin DOMAIN section /\ key \notin DOMAIN top
    <2>1. Innermost(c, default) = default
      BY <1>1, <1>4, InnermostNone
    <2> QED
      BY <1>4, <2>1 DEF c, getValueOr
  <1> QED
    BY <1>2, <1>3, <1>4

\* Two keys on two levels, the special one before the general one on each.
LEMMA InnermostOfFour ==
  ASSUME NEW section, NEW top, NEW key, NEW general, NEW default
  PROVE  Innermost(<<At(section, key), At(section, general), At(top, key), At(top, general)>>, default) =
           getValueOr(section, key, getValueOr(section, general,
             getValueOr(top, key, getValueOr(top, general, default))))
  <1> DEFINE c == <<At(section, key), At(section, general), At(top, key), At(top, general)>>
  <1>1. /\ DOMAIN c = {1, 2, 3, 4}
        /\ c[1].level = section /\ c[1].key = key
        /\ c[2].level = section /\ c[2].key = general
        /\ c[3].level = top /\ c[3].key = key
        /\ c[4].level = top /\ c[4].key = general
    BY DEF At
  <1> HIDE DEF c
  <1>2. CASE key \in DOMAIN section
    <2>1. Innermost(c, default) = c[1].level[c[1].key]
      BY <1>1, <1>2, InnermostFound
    <2> QED
      BY <1>1, <1>2, <2>1 DEF c, getValueOr
  <1>3. CASE key \notin DOMAIN section /\ general \in DOMAIN section
    <2>1. Innermost(c, default) = c[2].level[c[2].key]
      BY <1>1, <1>3, InnermostFound
    <2> QED
      BY <1>1, <1>3, <2>1 DEF c, getValueOr
  <1>4. CASE key \notin DOMAIN section /\ general \notin DOMAIN section /\ key \in DOMAIN top
    <2>1. Innermost(c, default) = c[3].level[c[3].key]
      BY <1>1, <1>4, InnermostFound
    <2> QED
      BY <1>1, <1>4, <2>1 DEF c, getValueOr
  <1>5. CASE /\ key \notin DOMAIN section /\ general \notin DOMAIN section
             /\ key \notin DOMAIN top /\ general \in DOMAIN top
    <2>1. Innermost(c, default) = c[4].level[c[4].key]
      BY <1>1, <1>5, InnermostFound
    <2> QED
      BY <1>1, <1>5, <2>1 DEF c, getValueOr
  <1>6. CASE /\ key \notin DOMAIN section /\ general \notin DOMAIN section
             /\ key \notin DOMAIN top /\ general \notin DOMAIN top
    <2>1. Innermost(c, default) = default
      BY <1>1, <1>6, InnermostNone
    <2> QED
      BY <1>6, <2>1 DEF c, getValueOr
  <1> QED
    BY <1>2, <1>3, <1>4, <1>5, <1>6

\* The delimiter of responses, of a level and of the one around it.
ResponseDelimiter(j, inherited) == getValueOr(j, "respDelim", getValueOr(j, "delimiter", inherited))

\* Lines that a level reads have the delimiter that it sets, or else that of the
\* lines around it; bytes have lost theirs.
LEMMA LinesOfLevel ==
  ASSUME NEW r, IsReading(r), NEW j, ReadingAfter(r, j).lines, ReadingAfter(r, j).delimiter # ""
  PROVE  /\ ReadingAfter(r, j).delimiter = ResponseDelimiter(j, r.delimiter)
         /\ r.lines \/ {"respDelim", "delimiter"} \cap DOMAIN j # {}
  <1>1. "nRespBytes" \notin DOMAIN j
    BY DEF ReadingAfter, Limited
  <1>2. ReadingAfter(r, j) = Counted(Delimited(r, j), j)
    BY <1>1 DEF ReadingAfter, Limited
  <1>3. Delimited(r, j).lines /\ ReadingAfter(r, j).delimiter = Delimited(r, j).delimiter
    <2>1. CASE "nRespLines" \notin DOMAIN j
      BY <1>2, <2>1 DEF Counted
    <2>2. CASE "nRespLines" \in DOMAIN j
      <3>1. Counted(Delimited(r, j), j).delimiter =
              IF Delimited(r, j).lines THEN Delimited(r, j).delimiter ELSE ""
        BY <2>2 DEF Counted
      <3> QED
        BY <1>2, <3>1
    <2> QED
      BY <2>1, <2>2
  <1>4. CASE {"respDelim", "delimiter"} \cap DOMAIN j = {}
    <2>1. Delimited(r, j) = r
      BY <1>4 DEF Delimited
    <2> QED
      BY <1>3, <1>4, <2>1 DEF ResponseDelimiter, getValueOr
  <1>5. CASE {"respDelim", "delimiter"} \cap DOMAIN j # {}
    <2>1. Delimited(r, j).delimiter = getValueOr(j, "respDelim", getValueOr(j, "delimiter", ""))
      BY <1>5 DEF Delimited
    <2> QED
      BY <1>3, <1>5, <2>1 DEF ResponseDelimiter, getValueOr
  <1> QED
    BY <1>4, <1>5

\* The same for the two levels: lines have the innermost of the delimiters.
LEMMA LinesOfLevels ==
  ASSUME NEW r, IsReading(r), NEW top, NEW j,
         ReadingAfter(ReadingAfter(r, top), j).lines,
         ReadingAfter(ReadingAfter(r, top), j).delimiter # ""
  PROVE  ReadingAfter(ReadingAfter(r, top), j).delimiter =
           ResponseDelimiter(j, ResponseDelimiter(top, r.delimiter))
  <1> DEFINE outer == ReadingAfter(r, top)
  <1>1. IsReading(outer)
    BY ReadingStays
  <1>2. /\ ReadingAfter(outer, j).delimiter = ResponseDelimiter(j, outer.delimiter)
        /\ outer.lines \/ {"respDelim", "delimiter"} \cap DOMAIN j # {}
    <2> HIDE DEF outer
    <2>1. ReadingAfter(outer, j).lines /\ ReadingAfter(outer, j).delimiter # ""
      BY DEF outer
    <2> QED
      BY <1>1, <2>1, LinesOfLevel
  <1>3. CASE {"respDelim", "delimiter"} \cap DOMAIN j # {}
    BY <1>2, <1>3 DEF ResponseDelimiter, getValueOr
  <1>4. CASE {"respDelim", "delimiter"} \cap DOMAIN j = {}
    <2>1. ReadingAfter(outer, j).delimiter = outer.delimiter /\ outer.lines
      BY <1>2, <1>4 DEF ResponseDelimiter, getValueOr
    <2>2. outer.delimiter = ResponseDelimiter(top, r.delimiter)
      BY <2>1, LinesOfLevel
    <2> QED
      BY <1>2, <2>2
  <1> QED
    BY <1>3, <1>4

\* Lines stay lines where no level asks for bytes, and their number is what the
\* innermost level says.
LEMMA LinesStay ==
  ASSUME NEW r, IsReading(r), r.lines, NEW j, "nRespBytes" \notin DOMAIN j
  PROVE  /\ ReadingAfter(r, j).lines
         /\ ReadingAfter(r, j).n = getValueOr(j, "nRespLines", r.n)
  <1>1. ReadingAfter(r, j) = Counted(Delimited(r, j), j)
    BY DEF ReadingAfter, Limited
  <1>2. Delimited(r, j).lines /\ Delimited(r, j).n = r.n
    BY DEF Delimited
  <1>3. CASE "nRespLines" \notin DOMAIN j
    BY <1>1, <1>2, <1>3 DEF Counted, getValueOr
  <1>4. CASE "nRespLines" \in DOMAIN j
    <2>1. Counted(Delimited(r, j), j).lines /\ Counted(Delimited(r, j), j).n = j["nRespLines"]
      BY <1>4 DEF Counted
    <2> QED
      BY <1>1, <1>4, <2>1 DEF getValueOr
  <1> QED
    BY <1>3, <1>4

\* A level that asks for bytes reads them, whatever else it sets.
LEMMA BytesOfLevel ==
  ASSUME NEW r, NEW j, "nRespBytes" \in DOMAIN j
  PROVE  ~ReadingAfter(r, j).lines /\ ReadingAfter(r, j).n = j["nRespBytes"]
  BY DEF ReadingAfter, Limited

\* A level that says nothing of endings leaves the reading.
LEMMA SilentLevel ==
  ASSUME NEW r, NEW j, DOMAIN j \cap {"delimiter", "respDelim", "nRespLines", "nRespBytes"} = {}
  PROVE  ReadingAfter(r, j) = r
  BY DEF ReadingAfter, Limited, Counted, Delimited

\* What the properties of endings need to know of an active interaction.
LEMMA EndingMembers ==
  ASSUME NEW a, NEW reg, ComesFrom(a, reg)
  PROVE  /\ LeavesEndings(a.info, a.section, a.top, a.lines, serialDelimiter)
         /\ a.info.reading.lines => a.info.reading.delimiter # ""
  <1>1. /\ \E own, other : MadeFrom(a, own, other)
        /\ ~throwIfBadEndings(a.info)
        /\ isActive(a.info)
    BY ActiveIsAccepted DEF ComesFrom
  <1>2. PICK own, other : MadeFrom(a, own, other)
    BY <1>1
  <1> DEFINE info == Interaction(own, other, a.top, a.lines, serialDelimiter)
  <1>3. a.info = info /\ IsOnly(a.section, own)
    BY <1>2 DEF MadeFrom
  <1>4. isActive(info)
    BY <1>1, <1>3
  <1>5. LeavesEndings(info, a.section, a.top, a.lines, serialDelimiter)
    BY <1>3, <1>4, InteractionMembers
  <1> QED
    BY <1>1, <1>3, <1>5 DEF throwIfBadEndings, usesReadLines

\* A text interaction has the delimiters that were set for it.
LEMMA TextDelimiters ==
  ASSUME NEW info, ~isBinary(info), NEW j, NEW top, NEW nLines, NEW d,
         LeavesEndings(info, j, top, nLines, d), info.reading.lines => info.reading.delimiter # ""
  PROVE  /\ info.cmdLineDelimiter = CommandDelimiter(j, CommandDelimiter(top, d))
         /\ info.reading.lines =>
              info.reading.delimiter = ResponseDelimiter(j, ResponseDelimiter(top, d))
  <1> DEFINE r == [lines |-> TRUE, n |-> nLines, delimiter |-> d]
             reading == ReadingAfter(ReadingAfter(r, top), j)
  <1>1. /\ info.cmdLineDelimiter = CommandDelimiter(j, CommandDelimiter(top, d))
        /\ info.reading.lines = reading.lines
        /\ info.reading.delimiter = reading.delimiter
    BY DEF LeavesEndings, LeavesReading
  <1>2. IsReading(r) /\ r.delimiter = d
    BY DEF IsReading
  <1> HIDE DEF r
  <1>3. reading.lines /\ reading.delimiter # "" =>
          reading.delimiter = ResponseDelimiter(j, ResponseDelimiter(top, d))
    BY <1>2, LinesOfLevels
  <1> QED
    BY <1>1, <1>3

\* A binary interaction for which nothing was set has no delimiter.
LEMMA BinaryHasNoDelimiter ==
  ASSUME NEW info, isBinary(info), NEW j, NEW top, NEW nLines, NEW d,
         LeavesEndings(info, j, top, nLines, d), info.reading.lines => info.reading.delimiter # "",
         {"delimiter", "cmdDelim", "respDelim"} \cap (DOMAIN j \cup DOMAIN top) = {}
  PROVE  info.cmdLineDelimiter = "" /\ ~info.reading.lines
  <1>1. PICK inner : /\ EntersBinary(inner, top)
                     /\ info.cmdLineDelimiter = CommandDelimiter(j, inner.cmdLineDelimiter)
                     /\ LeavesReading(info.reading, inner.reading, j)
    BY DEF LeavesEndings
  <1>2. /\ inner.cmdLineDelimiter = ""
        /\ IsReading(inner.reading) /\ ~inner.reading.lines
    BY <1>1 DEF EntersBinary
  <1>3. info.cmdLineDelimiter = ""
    BY <1>1, <1>2 DEF CommandDelimiter, getValueOr
  <1> DEFINE after == ReadingAfter(inner.reading, j)
  <1>4. info.reading.lines = after.lines /\ info.reading.delimiter = after.delimiter
    BY <1>1 DEF LeavesReading
  <1>5. {"respDelim", "delimiter"} \cap DOMAIN j = {}
    OBVIOUS
  <1>6. ~(after.lines /\ after.delimiter # "")
    BY <1>2, <1>5, LinesOfLevel
  <1> QED
    BY <1>3, <1>4, <1>6

\* No register of any map file loses a delimiter that it sets, or keeps one that
\* was destroyed; the command's is left open where only a number of bytes is set.
THEOREM InnermostDelimiters ==
  ASSUME \A f \in Files : WellTypedFile(f)
  PROVE  Spec => []DelimitersAreInnermost
  <1>1. CatalogueInv /\ file \in Files => DelimitersAreInnermost
    <2> SUFFICES ASSUME CatalogueInv, file \in Files
                 PROVE  DelimitersAreInnermost
      OBVIOUS
    <2> DEFINE Expected(a, key) ==
                 Innermost(<<At(a.section, key), At(a.section, "delimiter"),
                             At(a.top, key), At(a.top, "delimiter")>>, serialDelimiter)
               Holds(a) ==
                 IF ~isBinary(a.info)
                 THEN /\ SetsCommandDelimiter(a)
                           \/ "nRespBytes" \notin DOMAIN a.section \cup DOMAIN a.top
                           => a.info.cmdLineDelimiter = Expected(a, "cmdDelim")
                      /\ usesReadLines(a.info) => a.info.reading.delimiter = Expected(a, "respDelim")
                 ELSE {"delimiter", "cmdDelim", "respDelim"} \cap (DOMAIN a.section \cup DOMAIN a.top) = {}
                        => a.info.cmdLineDelimiter = "" /\ usesReadBytes(a.info)
    <2>1. ASSUME NEW a \in Active PROVE Holds(a)
      <3>1. PICK reg : ComesFrom(a, reg)
        BY ActiveHasRegister
      <3>2. /\ LeavesEndings(a.info, a.section, a.top, a.lines, serialDelimiter)
            /\ a.info.reading.lines => a.info.reading.delimiter # ""
        BY <3>1, EndingMembers
      <3>3. CASE ~isBinary(a.info)
        <4>1. /\ a.info.cmdLineDelimiter =
                   CommandDelimiter(a.section, CommandDelimiter(a.top, serialDelimiter))
              /\ a.info.reading.lines => a.info.reading.delimiter =
                   ResponseDelimiter(a.section, ResponseDelimiter(a.top, serialDelimiter))
          BY <3>2, <3>3, TextDelimiters
        <4>2. Expected(a, "cmdDelim") =
                CommandDelimiter(a.section, CommandDelimiter(a.top, serialDelimiter))
          BY InnermostOfFour DEF CommandDelimiter
        <4>3. Expected(a, "respDelim") =
                ResponseDelimiter(a.section, ResponseDelimiter(a.top, serialDelimiter))
          BY InnermostOfFour DEF ResponseDelimiter
        <4> HIDE DEF Expected
        <4> QED
          BY <3>3, <4>1, <4>2, <4>3 DEF usesReadLines
      <3>4. CASE isBinary(a.info)
        BY <3>2, <3>4, BinaryHasNoDelimiter DEF usesReadBytes, usesReadLines
      <3> QED
        BY <3>3, <3>4
    <2> HIDE DEF Holds
    <2>2. \A a \in Active : Holds(a)
      BY <2>1
    <2> QED
      BY <2>2 DEF DelimitersAreInnermost, Holds
  <1> QED
    BY <1>1, CatalogueInvariant, PTL

\* A response that the file declares is waited for as it says, for every
\* register of every map file.
THEOREM DeclaredReads ==
  ASSUME \A f \in Files : WellTypedFile(f)
  PROVE  Spec => []ReadsWhatIsDeclared
  <1>1. CatalogueInv /\ file \in Files => ReadsWhatIsDeclared
    <2> SUFFICES ASSUME CatalogueInv, file \in Files
                 PROVE  ReadsWhatIsDeclared
      OBVIOUS
    <2>1. ASSUME NEW a \in Active, ~isBinary(a.info)
          PROVE  LET lines == Innermost(<<At(a.section, "nRespLines"), At(a.top, "nRespLines")>>, a.lines)
                     endings == {"delimiter", "respDelim", "nRespLines", "nRespBytes"}
                 IN CASE "resp" \notin DOMAIN a.section -> a.info.reading.n = 0
                      [] "resp" \in DOMAIN a.section /\ "nRespBytes" \notin DOMAIN a.section \cup DOMAIN a.top ->
                           usesReadLines(a.info) /\ a.info.reading.n = lines
                      [] "resp" \in DOMAIN a.section /\ "nRespBytes" \in DOMAIN a.section ->
                           usesReadBytes(a.info) /\ a.info.reading.n = a.section["nRespBytes"]
                      [] OTHER -> DOMAIN a.section \cap endings = {}
                                    => usesReadBytes(a.info) /\ a.info.reading.n = a.top["nRespBytes"]
      <3> DEFINE r == [lines |-> TRUE, n |-> a.lines, delimiter |-> serialDelimiter]
                 outer == ReadingAfter(r, a.top)
                 reading == ReadingAfter(outer, a.section)
                 lines == Innermost(<<At(a.section, "nRespLines"), At(a.top, "nRespLines")>>, a.lines)
      <3>1. PICK reg : ComesFrom(a, reg)
        BY <2>1, ActiveHasRegister
      <3>2. LeavesEndings(a.info, a.section, a.top, a.lines, serialDelimiter)
        BY <3>1, EndingMembers
      <3>3. LeavesReading(a.info.reading, outer, a.section)
        BY <2>1, <3>2 DEF LeavesEndings
      <3>4. IsReading(r) /\ r.lines /\ r.n = a.lines
        BY DEF IsReading
      <3> HIDE DEF r
      <3>5. IsReading(outer)
        BY <3>4, ReadingStays
      <3>6. lines = getValueOr(a.section, "nRespLines", getValueOr(a.top, "nRespLines", a.lines))
        BY InnermostOfTwo
      <3>7. CASE "resp" \notin DOMAIN a.section
        BY <3>3, <3>7 DEF LeavesReading
      <3>8. CASE "resp" \in DOMAIN a.section
        <4>1. a.info.reading.lines = reading.lines /\ a.info.reading.n = reading.n
          BY <3>3, <3>8 DEF LeavesReading
        <4>2. CASE "nRespBytes" \notin DOMAIN a.section \cup DOMAIN a.top
          <5>1. outer.lines /\ outer.n = getValueOr(a.top, "nRespLines", a.lines)
            BY <3>4, <4>2, LinesStay
          <5> HIDE DEF outer
          <5>2. reading.lines /\ reading.n = getValueOr(a.section, "nRespLines", outer.n)
            BY <3>5, <4>2, <5>1, LinesStay
          <5>3. a.info.reading.n = lines
            BY <3>6, <4>1, <5>1, <5>2
          <5> HIDE DEF lines, reading
          <5>4. usesReadLines(a.info)
            BY <4>1, <5>2 DEF usesReadLines
          <5> QED
            BY <3>8, <4>2, <5>3, <5>4 DEF lines
        <4>3. CASE "nRespBytes" \in DOMAIN a.section
          <5> HIDE DEF outer
          <5>1. ~reading.lines /\ reading.n = a.section["nRespBytes"]
            BY <4>3, BytesOfLevel
          <5> HIDE DEF reading
          <5>2. usesReadBytes(a.info) /\ a.info.reading.n = a.section["nRespBytes"]
            BY <4>1, <5>1 DEF usesReadBytes, usesReadLines
          <5> QED
            BY <3>8, <4>3, <5>2
        <4>4. CASE "nRespBytes" \notin DOMAIN a.section /\ "nRespBytes" \in DOMAIN a.top
          <5>1. ASSUME DOMAIN a.section \cap {"delimiter", "respDelim", "nRespLines", "nRespBytes"} = {}
                PROVE  usesReadBytes(a.info) /\ a.info.reading.n = a.top["nRespBytes"]
            <6>1. ~outer.lines /\ outer.n = a.top["nRespBytes"]
              BY <4>4, BytesOfLevel
            <6> HIDE DEF outer
            <6>2. reading = outer
              BY <5>1, SilentLevel
            <6> HIDE DEF reading
            <6> QED
              BY <4>1, <6>1, <6>2 DEF usesReadBytes, usesReadLines
          <5> QED
            BY <3>8, <4>4, <5>1
        <4> QED
          BY <4>2, <4>3, <4>4
      <3> QED
        BY <3>7, <3>8
    <2> QED
      BY <2>1 DEF ReadsWhatIsDeclared
  <1> QED
    BY <1>1, CatalogueInvariant, PTL

-----------------------------------------------------------------------------
(* Payloads *)

\* Where no tag is repeated, a tag's position is the only place where it stands.
LEMMA UniquePosition ==
  ASSUME NEW pattern \in Seq(Token), ~HasRepeatedTags(pattern), NEW p \in DOMAIN pattern,
         pattern[p].tag \in ChecksumTag
  PROVE  TagPosition(pattern, pattern[p].tag, pattern[p].n) = p
  <1> DEFINE at == {i \in DOMAIN pattern : pattern[i] = [tag |-> pattern[p].tag, n |-> pattern[p].n]}
  <1>1. pattern[p] \in Token /\ p \in Nat
    OBVIOUS
  <1>2. pattern[p] = [tag |-> pattern[p].tag, n |-> pattern[p].n]
    BY <1>1 DEF Token
  <1>3. \A i \in at : i = p
    BY <1>2 DEF HasRepeatedTags
  <1>4. at = {p}
    BY <1>2, <1>3
  <1>5. Max(at) = p
    <2> HIDE DEF at
    <2> QED
      BY <1>1, <1>4 DEF Max
  <1>6. at # {}
    BY <1>4
  <1> QED
    BY <1>5, <1>6 DEF TagPosition

\* A tag that occurs stands at its position.
LEMMA PositionHolds ==
  ASSUME NEW pattern \in Seq(Token), ~HasRepeatedTags(pattern), NEW tag \in ChecksumTag, NEW k,
         TagPosition(pattern, tag, k) # NotFound
  PROVE  /\ TagPosition(pattern, tag, k) \in DOMAIN pattern
         /\ pattern[TagPosition(pattern, tag, k)].tag = tag
         /\ pattern[TagPosition(pattern, tag, k)].n = k
  <1>1. PICK p \in DOMAIN pattern : pattern[p] = [tag |-> tag, n |-> k]
    BY DEF TagPosition
  <1>2. pattern[p].tag = tag /\ pattern[p].n = k
    BY <1>1
  <1>3. TagPosition(pattern, tag, k) = p
    BY <1>2, UniquePosition
  <1> QED
    BY <1>2, <1>3

\* Between the start and the end of a checksum stand only tags of earlier ones.
LEMMA OnlyEarlierTags ==
  ASSUME NEW pattern \in Seq(Token), IsValidChecksumPattern(pattern), ~HasRepeatedTags(pattern),
         NEW k \in ChecksumIndices(pattern), NEW p \in DOMAIN pattern,
         pattern[p].tag \in ChecksumTag,
         TagPosition(pattern, "start", k) < p, p < TagPosition(pattern, "end", k)
  PROVE  pattern[p].n < k
  <1> DEFINE map == parsePattern(pattern)
             tag == pattern[p].tag
             n == pattern[p].n
  <1>1. /\ DOMAIN map = ChecksumIndices(pattern)
        /\ \A i \in ChecksumIndices(pattern) : \A t \in ChecksumTag :
             map[i][t] = TagPosition(pattern, t, i)
    BY DEF parsePattern
  <1>2. n \in ChecksumIndices(pattern) /\ n \in Nat /\ k \in Nat
    <2>0. \A i \in DOMAIN pattern : pattern[i] \in Token
      OBVIOUS
    <2>1. \A i \in DOMAIN pattern : pattern[i] \in ToSet(pattern) /\ pattern[i].n \in Nat
      BY <2>0 DEF ToSet, Token
    <2>2. \A token \in ToSet(pattern) : token.n \in Nat
      BY <2>1 DEF ToSet
    <2> QED
      BY <2>1, <2>2 DEF ChecksumIndices
  <1>3. TagPosition(pattern, tag, n) = p
    BY UniquePosition
  <1>4. /\ map[n][tag] = p
        /\ map[k]["start"] = TagPosition(pattern, "start", k)
        /\ map[k]["end"] = TagPosition(pattern, "end", k)
    BY <1>1, <1>2, <1>3 DEF ChecksumTag
  <1>5. map[k]["start"] \in Nat /\ map[k]["end"] \in Nat /\ p \in Nat
    <2>1. map[k]["start"] # NotFound /\ map[k]["end"] # NotFound
      BY <1>1 DEF IsValidChecksumPattern, HasIncompleteEntries, ChecksumTag
    <2>2. TagPosition(pattern, "start", k) \in DOMAIN pattern
      BY <1>4, <2>1, PositionHolds DEF ChecksumTag
    <2>3. TagPosition(pattern, "end", k) \in DOMAIN pattern
      BY <1>4, <2>1, PositionHolds DEF ChecksumTag
    <2> QED
      BY <1>4, <2>2, <2>3
  <1>6. IsInside(map[n][tag], map[k])
    BY <1>4, <1>5 DEF IsInside
  <1>7. ~(k < n)
    <2> HIDE DEF map, tag, n
    <2>1. ~HasNestingOrOverlaps(map) /\ tag \in ChecksumTag
      BY DEF IsValidChecksumPattern, map, tag
    <2> QED
      BY <1>1, <1>2, <1>6, <2>1 DEF HasNestingOrOverlaps
  <1>8. k # n
    <2> SUFFICES ASSUME k = n PROVE FALSE
      OBVIOUS
    <2>1. tag = "start" \/ tag = "end" \/ tag = "point"
      BY DEF ChecksumTag
    <2>2. CASE tag = "start"
      BY <1>4, <1>5, <2>2
    <2>3. CASE tag = "end"
      BY <1>4, <1>5, <2>3
    <2>4. CASE tag = "point"
      BY <1>1, <1>6, <2>4 DEF IsValidChecksumPattern, HasInfiniteLoops
    <2> QED
      BY <2>1, <2>2, <2>3, <2>4
  <1> QED
    BY <1>2, <1>7, <1>8

\* A part of a sequence has no other elements.
LEMMA PartOfPattern ==
  ASSUME NEW S, NEW s \in Seq(S), NEW m \in 1..Len(s) + 1, NEW n \in 0..Len(s),
         NEW x \in ToSet(SubSeq(s, m, n))
  PROVE  \E p \in DOMAIN s : m <= p /\ p <= n /\ s[p] = x
  <1>1. PICK i \in DOMAIN SubSeq(s, m, n) : x = SubSeq(s, m, n)[i]
    BY DEF ToSet
  <1>2. i \in 1..(n - m + 1) /\ SubSeq(s, m, n)[i] = s[m + i - 1]
    BY <1>1
  <1>3. m + i - 1 \in DOMAIN s
    BY <1>2
  <1> QED
    BY <1>1, <1>2, <1>3

\* The payloads of a valid pattern that can be rendered can be rendered in turn.
LEMMA RenderablePayloads ==
  ASSUME NEW pattern \in Seq(Token), IsValidChecksumPattern(pattern), ~HasRepeatedTags(pattern),
         NEW nElements, NEW nChecksums, IsRenderable(pattern, nElements, nChecksums)
  PROVE  ArePayloadsRenderable(getChecksumPayloadSnippets(pattern), nElements)
  <1> DEFINE payloads == getChecksumPayloadSnippets(pattern)
  <1>1. getNChecksums(pattern) \in Nat
    BY TagsOfChecksums DEF IsValidChecksumPattern, ChecksumTag
  <1>2. DOMAIN payloads = 1..getNChecksums(pattern)
    BY DEF getChecksumPayloadSnippets
  <1>3. ASSUME NEW i \in DOMAIN payloads, NEW token \in ToSet(payloads[i])
        PROVE  /\ token.tag = "x" => token.n < nElements
               /\ token.tag \in ChecksumTag => token.n < i - 1
    <2> DEFINE k == i - 1
               start == TagPosition(pattern, "start", k)
               end == TagPosition(pattern, "end", k)
    <2>1. k \in ChecksumIndices(pattern)
      <3>1. ~HasGaps(parsePattern(pattern)) /\ DOMAIN parsePattern(pattern) = ChecksumIndices(pattern)
        BY DEF IsValidChecksumPattern, parsePattern
      <3>2. ChecksumIndices(pattern) = 0..(getNChecksums(pattern) - 1)
        BY <3>1 DEF HasGaps, getNChecksums
      <3>3. k \in 0..(getNChecksums(pattern) - 1)
        BY <1>1, <1>2
      <3> QED
        BY <3>2, <3>3
    <2>2. payloads[i] = SubSeq(pattern, start + 1, end - 1)
      <3>1. payloads[i] = SubSeq(pattern, parsePattern(pattern)[k]["start"] + 1,
                                 parsePattern(pattern)[k]["end"] - 1)
        BY <1>2 DEF getChecksumPayloadSnippets
      <3>2. /\ parsePattern(pattern)[k]["start"] = start
            /\ parsePattern(pattern)[k]["end"] = end
        BY <2>1 DEF parsePattern, ChecksumTag
      <3> QED
        BY <3>1, <3>2
    <2>3. start \in DOMAIN pattern /\ end \in DOMAIN pattern
      <3>1. /\ parsePattern(pattern)[k]["start"] = start
            /\ parsePattern(pattern)[k]["end"] = end
            /\ k \in DOMAIN parsePattern(pattern)
        BY <2>1 DEF parsePattern, ChecksumTag
      <3>2. start # NotFound /\ end # NotFound
        BY <3>1 DEF IsValidChecksumPattern, HasIncompleteEntries, ChecksumTag
      <3>3. start \in DOMAIN pattern
        BY <3>2, PositionHolds DEF ChecksumTag
      <3>4. end \in DOMAIN pattern
        BY <3>2, PositionHolds DEF ChecksumTag
      <3> QED
        BY <3>3, <3>4
    <2> HIDE DEF start, end, k, payloads
    <2>4. start + 1 \in 1..Len(pattern) + 1 /\ end - 1 \in 0..Len(pattern)
      BY <2>3
    <2>5. PICK p \in DOMAIN pattern : start + 1 <= p /\ p <= end - 1 /\ pattern[p] = token
      BY <2>2, <2>4, PartOfPattern
    <2>6. token \in ToSet(pattern)
      BY <2>5 DEF ToSet
    <2>7. start < p /\ p < end
      BY <2>3, <2>5
    <2>8. token.tag \in ChecksumTag => token.n < k
      BY <2>1, <2>5, <2>7, OnlyEarlierTags DEF start, end
    <2> QED
      BY <2>6, <2>8 DEF IsRenderable, k
  <1> HIDE DEF payloads
  <1>4. ArePayloadsRenderable(payloads, nElements)
    BY <1>3 DEF ArePayloadsRenderable, IsRenderable
  <1> QED
    BY <1>4 DEF payloads

\* doPreWrite has, for every register of every map file, the values that the
\* payload of each checksum needs.
THEOREM PayloadsInOrder ==
  ASSUME \A f \in Files : WellTypedFile(f)
  PROVE  Spec => []PayloadsComeInOrder
  <1>1. CatalogueInv /\ file \in Files => PayloadsComeInOrder
    <2> SUFFICES ASSUME CatalogueInv, file \in Files, NEW a \in Active,
                        ~HasRepeatedTags(a.info.command),
                        IsRenderable(a.info.command, catalogue[a.path].nElements, Len(a.info.commandChecksums))
                 PROVE  ArePayloadsRenderable(a.info.payloads, catalogue[a.path].nElements)
      BY DEF PayloadsComeInOrder
    <2>1. PICK reg : ComesFrom(a, reg)
      BY ActiveHasRegister
    <2>2. /\ WellTyped(a.section) /\ isActive(a.info)
          /\ ~throwIfBadChecksum(a.info)
          /\ \E own, other : MadeFrom(a, own, other)
      BY <2>1, ActiveIsAccepted DEF ComesFrom
    <2>3. /\ a.info.command = a.section["cmd"] /\ "cmd" \in DOMAIN a.section
          /\ a.info.payloads = getChecksumPayloadSnippets(a.info.command)
      <3>1. PICK own, other : MadeFrom(a, own, other)
        BY <2>2
      <3> QED
        BY <2>2, <3>1, ChecksumMembers
    <2>4. a.info.command \in Seq(Token)
      BY <2>2, <2>3 DEF WellTyped
    <2>5. IsValidChecksumPattern(a.info.command)
      BY <2>2 DEF throwIfBadChecksum
    <2> QED
      BY <2>3, <2>4, <2>5, RenderablePayloads
  <1> QED
    BY <1>1, CatalogueInvariant, PTL

-----------------------------------------------------------------------------
(* Widths and the data type *)

\* Without a section there is no command.
LEMMA SectionOfActive ==
  ASSUME NEW own, NEW other, NEW top, NEW nLines, NEW d,
         isActive(Interaction(own, other, top, nLines, d))
  PROVE  own # {}
  <1> SUFFICES ASSUME own = {} PROVE FALSE
    OBVIOUS
  <1> DEFINE t == CHOOSE t \in TypeOf(own, other, top) : TRUE
             typed == [setResponseNLines(InteractionInfo, nLines) EXCEPT !.type = t]
             level == FromRegisterLevel(typed, top, d)
             start == BeforeEndings(typed, {d})
  <1>1. Interaction(own, other, top, nLines, d) = level
    BY DEF Interaction
  <1> HIDE DEF t
  <1>2. IsTyped(typed, t, nLines)
    BY TypedInteraction
  <1> HIDE DEF typed
  <1>3. LeavesRegister(level, typed, top, start)
    BY <1>2, RegisterLevel DEF IsTyped
  <1> HIDE DEF level, start
  <1>4. level.command = <<>>
    BY <1>2, <1>3 DEF IsTyped, LeavesRegister
  <1> QED
    BY <1>1, <1>4 DEF isActive

\* An active interaction of the catalogue comes from a section of its register.
LEMMA InfoComesFrom ==
  ASSUME CatalogueInv, WellTypedFile(file), NEW path \in DOMAIN catalogue,
         NEW info \in {catalogue[path].readInfo, catalogue[path].writeInfo}, isActive(info)
  PROVE  \E a : ComesFrom(a, Source(path)) /\ a.info = info
  <1> DEFINE reg == Source(path)
             d == serialDelimiter
  <1>1. /\ WellTypedRegister(reg)
        /\ catalogue[path] = RegisterInfo(reg, d)
        /\ RegisterInfo(reg, d).verdict = "accepted"
    BY SourceIsRegister
  <1>2. /\ RegisterInfo(reg, d).readInfo = ReadInfo(reg, d)
        /\ RegisterInfo(reg, d).writeInfo = WriteInfo(reg, d)
    BY <1>1, WhatIsAccepted
  <1> HIDE DEF reg, d
  <1>3. CASE info = catalogue[path].readInfo
    <2>1. isActive(Interaction(reg.read, reg.write, reg.top, 1, d))
      BY <1>1, <1>2, <1>3 DEF ReadInfo
    <2>2. PICK j : j \in reg.read
      BY <2>1, SectionOfActive
    <2> DEFINE a == [info |-> info, section |-> j, top |-> reg.top, lines |-> 1, path |-> path]
    <2>3. /\ a.info = info /\ a.section = j /\ a.top = reg.top /\ a.lines = 1 /\ a.path = path
      OBVIOUS
    <2> HIDE DEF a
    <2>4. ComesFrom(a, reg)
      BY <1>1, <1>3, <2>2, <2>3 DEF ComesFrom, d
    <2> QED
      BY <2>3, <2>4 DEF reg
  <1>4. CASE info = catalogue[path].writeInfo
    <2>1. isActive(Interaction(reg.write, reg.read, reg.top, 0, d))
      BY <1>1, <1>2, <1>4 DEF WriteInfo
    <2>2. PICK j : j \in reg.write
      BY <2>1, SectionOfActive
    <2> DEFINE a == [info |-> info, section |-> j, top |-> reg.top, lines |-> 0, path |-> path]
    <2>3. /\ a.info = info /\ a.section = j /\ a.top = reg.top /\ a.lines = 0 /\ a.path = path
      OBVIOUS
    <2> HIDE DEF a
    <2>4. ComesFrom(a, reg)
      BY <1>1, <1>4, <2>2, <2>3 DEF ComesFrom, d
    <2> QED
      BY <2>3, <2>4 DEF reg
  <1> QED
    BY <1>3, <1>4

\* The width that a level sets is positive, if the level is not rejected.
LEMMA WidthOfLevel ==
  ASSUME NEW info, NEW j, WellTyped(j), ~IsBadWidth(info, j), NEW width,
         \A w \in width : width = {w} /\ w \in Nat \ {0}
  PROVE  \A w \in WidthAfter(width, j) : WidthAfter(width, j) = {w} /\ w \in Nat \ {0}
  <1>1. CASE "bitWidth" \in DOMAIN j
    <2>1. j["bitWidth"] \in Int /\ j["bitWidth"] > 0 /\ j["bitWidth"] % 4 = 0
      BY <1>1 DEF WellTyped, IsBadWidth
    <2>2. j["bitWidth"] \div 4 \in Nat \ {0}
      BY <2>1
    <2> DEFINE v == j["bitWidth"] \div 4
    <2>3. WidthAfter(width, j) = {v}
      <3>1. "characterWidth" \notin DOMAIN j
        BY <1>1 DEF IsBadWidth
      <3> QED
        BY <1>1, <3>1 DEF WidthAfter
    <2> HIDE DEF v
    <2>4. v \in Nat \ {0}
      BY <2>2 DEF v
    <2> QED
      BY <2>3, <2>4
  <1>2. CASE "bitWidth" \notin DOMAIN j /\ "characterWidth" \in DOMAIN j
    <2> DEFINE v == j["characterWidth"]
    <2>1. v \in Int /\ v > 0
      BY <1>2 DEF WellTyped, IsBadWidth
    <2>2. WidthAfter(width, j) = {v}
      BY <1>2 DEF WidthAfter
    <2> HIDE DEF v
    <2> QED
      BY <2>1, <2>2
  <1>3. CASE "bitWidth" \notin DOMAIN j /\ "characterWidth" \notin DOMAIN j
    BY <1>3 DEF WidthAfter
  <1> QED
    BY <1>1, <1>2, <1>3

\* The members that the data type depends on, and that a transfer relies on.
LEMMA TypedMembers ==
  ASSUME NEW a, NEW reg, ComesFrom(a, reg)
  PROVE  /\ \A w \in a.info.width : a.info.width = {w} /\ w \in Nat \ {0}
         /\ a.info.isSigned \in BOOLEAN
         /\ a.info.type \in TransportLayerType
  <1>1. /\ \E own, other : MadeFrom(a, own, other)
        /\ WellTyped(a.top) /\ WellTyped(a.section)
        /\ isActive(a.info)
    BY ActiveIsAccepted DEF ComesFrom
  <1>2. PICK own, other : MadeFrom(a, own, other)
    BY <1>1
  <1> DEFINE info == Interaction(own, other, a.top, a.lines, serialDelimiter)
             t == CHOOSE t \in TypeOf(own, other, a.top) : TRUE
  <1>3. a.info = info /\ IsOnly(a.section, own)
    BY <1>2 DEF MadeFrom
  <1>4. isActive(info)
    BY <1>1, <1>3
  <1>5. /\ info.type = t
        /\ info.width = WidthAfter(WidthAfter({}, a.top), a.section)
        /\ LeavesSection(info, a.section)
    BY <1>3, <1>4, InteractionMembers
  <1>6. /\ ~IsBadWidth([InteractionInfo EXCEPT !.type = t], a.top)
        /\ ~IsBadSection([InteractionInfo EXCEPT !.type = t], a.section)
        /\ t \in TypeOf(own, other, a.top)
    BY <1>2 DEF MadeFrom
  <1> HIDE DEF info, t
  <1>7. ~IsBadWidth([InteractionInfo EXCEPT !.type = t], a.section)
    BY <1>5, <1>6 DEF IsBadSection, LeavesSection, getValueOr
  <1>8. \A w \in WidthAfter({}, a.top) : WidthAfter({}, a.top) = {w} /\ w \in Nat \ {0}
    BY <1>1, <1>6, WidthOfLevel
  <1>9. \A w \in info.width : info.width = {w} /\ w \in Nat \ {0}
    BY <1>1, <1>5, <1>7, <1>8, WidthOfLevel
  <1>10. info.isSigned \in BOOLEAN
    <2>1. (info.type \in {"decInt", "decFloat", "binFloat"}) \in BOOLEAN
      OBVIOUS
    <2>2. CASE "signed" \in DOMAIN a.section
      BY <1>1, <1>5, <2>2 DEF LeavesSection, getValueOr, WellTyped
    <2>3. CASE "signed" \notin DOMAIN a.section
      BY <1>5, <2>1, <2>3 DEF LeavesSection, getValueOr
    <2> QED
      BY <2>2, <2>3
  <1>11. t \in TransportLayerType
    BY <1>2, <1>6 DEF MadeFrom
  <1> QED
    BY <1>3, <1>5, <1>9, <1>10, <1>11

\* The sizes of integer types but the one of one bit.
Sizes == {8, 16, 32, 64}

\* A fixed width gets the narrowest type that is as wide.
LEMMA BitsOfWidth ==
  ASSUME NEW w \in 1..16
  PROVE  /\ getMinBitCountForADataType(4 * w) \in Sizes
         /\ \A c \in Sizes : 4 * w <= c <=> getMinBitCountForADataType(4 * w) <= c
  <1> DEFINE S == {bits \in {1, 8, 16, 32} : 4 * w <= bits}
  <1>1. CASE 4 * w > 32
    BY <1>1 DEF getMinBitCountForADataType, Sizes
  <1>2. CASE ~(4 * w > 32)
    <2>1. S \subseteq Nat /\ 32 \in S /\ 1 \notin S
      BY <1>2
    <2>2. Min(S) \in S /\ \A y \in S : Min(S) <= y
      <3> HIDE DEF S
      <3> QED
        BY <2>1, MinOfNats
    <2>3. Min(S) \in {8, 16, 32} /\ 4 * w <= Min(S)
      BY <2>1, <2>2
    <2>4. \A c \in {8, 16, 32} : 4 * w <= c => c \in S
      OBVIOUS
    <2>5. getMinBitCountForADataType(4 * w) = Min(S)
      BY <1>2 DEF getMinBitCountForADataType
    <2> HIDE DEF S
    <2>6. \A c \in Sizes : 4 * w <= c <=> Min(S) <= c
      BY <1>2, <2>2, <2>3, <2>4 DEF Sizes
    <2> QED
      BY <2>3, <2>5, <2>6 DEF Sizes
  <1> QED
    BY <1>1, <1>2

\* The greater of two numbers.
LEMMA MaxOfTwo ==
  ASSUME NEW a \in Nat, NEW b \in Nat
  PROVE  Max({a, b}) = IF a >= b THEN a ELSE b
  <1> DEFINE m == IF a >= b THEN a ELSE b
  <1>1. m \in {a, b} /\ \A y \in {a, b} : m >= y
    OBVIOUS
  <1>2. \A x \in {a, b} : (\A y \in {a, b} : x >= y) => x = m
    OBVIOUS
  <1> HIDE DEF m
  <1>3. Max({a, b}) = m
    BY <1>1, <1>2 DEF Max
  <1> QED
    BY <1>3 DEF m

\* An integer slot of fixed width.
IsSlot(info) == info.type \in {"hexInt", "binInt"} /\ info.width # {}

\* d is an integer type with the sign of info, that holds what is in the slot of
\* info and is no wider than that needs.
IsTypeOfSlot(d, info) ==
  /\ d.class = "integer"
  /\ d.isSigned = info.isSigned
  /\ d.isSigned \in BOOLEAN
  /\ d.bits \in Sizes
  /\ \A c \in Sizes : (\A w \in info.width : 4 * w <= c) <=> d.bits <= c

\* The type of one interaction.
LEMMA TypeOfSlot ==
  ASSUME NEW a, NEW reg, ComesFrom(a, reg), IsSlot(a.info)
  PROVE  IsTypeOfSlot(getDataType(a.info), a.info)
  <1>1. /\ \A w \in a.info.width : a.info.width = {w} /\ w \in Nat \ {0}
        /\ a.info.isSigned \in BOOLEAN
    BY TypedMembers
  <1>2. PICK w \in a.info.width : TRUE
    BY DEF IsSlot
  <1>3. ~throwIfBadFixedWidth(a.info) /\ isActive(a.info)
    BY ActiveIsAccepted DEF ComesFrom
  <1>4. a.info.width = {w} /\ w \in 1..16
    <2>1. w <= 16
      BY <1>1, <1>2, <1>3 DEF throwIfBadFixedWidth, IsSlot
    <2> QED
      BY <1>1, <1>2, <2>1
  <1>5. getDataType(a.info) = Integer(getMinBitCountForADataType(4 * w), a.info.isSigned)
    <2>1. a.info.type # "decInt" /\ getDataType(a.info) = IntegerType(a.info)
      BY DEF IsSlot, getDataType
    <2>2. (CHOOSE v \in a.info.width : TRUE) = w /\ a.info.width # {}
      BY <1>4
    <2> QED
      BY <2>1, <2>2 DEF IntegerType
  <1>6. /\ getMinBitCountForADataType(4 * w) \in Sizes
        /\ \A c \in Sizes : 4 * w <= c <=> getMinBitCountForADataType(4 * w) <= c
    BY <1>4, BitsOfWidth
  <1>7. \A c \in Sizes : (\A v \in a.info.width : 4 * v <= c) <=> getMinBitCountForADataType(4 * w) <= c
    BY <1>4, <1>6
  <1> QED
    BY <1>1, <1>5, <1>6, <1>7 DEF IsTypeOfSlot, Integer

\* What the reconciled type of two slots is.
LEMMA ReconciledSlots ==
  ASSUME NEW r, NEW w, NEW a, NEW b, IsTypeOfSlot(a, w), IsTypeOfSlot(b, r),
         NEW d \in getReconciledDataTypes(a, b)
  PROVE  /\ d.class = "integer"
         /\ d.isSigned <=> w.isSigned \/ r.isSigned
         /\ d.bits \in Sizes
         /\ \A c \in Sizes : d.bits <= c <=> a.bits <= c /\ b.bits <= c
  <1>1. /\ a.class = "integer" /\ b.class = "integer"
        /\ a.bits \in Nat /\ b.bits \in Nat /\ a.bits \in Sizes /\ b.bits \in Sizes
        /\ a.isSigned = w.isSigned /\ b.isSigned = r.isSigned
        /\ a.isSigned \in BOOLEAN /\ b.isSigned \in BOOLEAN
    BY DEF IsTypeOfSlot, Sizes
  <1>2. CASE a = b
    <2>1. d = a
      BY <1>1, <1>2 DEF getReconciledDataTypes
    <2>2. d.class = "integer" /\ d.bits \in Sizes /\ d.bits = a.bits /\ d.bits = b.bits
      BY <1>1, <1>2, <2>1
    <2>3. d.isSigned = w.isSigned /\ w.isSigned = r.isSigned
      BY <1>1, <1>2, <2>1
    <2> QED
      BY <2>2, <2>3
  <1>3. CASE a # b
    <2>1. d = Integer(Max({a.bits, b.bits}), a.isSigned \/ b.isSigned)
      BY <1>1, <1>3 DEF getReconciledDataTypes
    <2>2. /\ d.class = "integer" /\ d.bits = Max({a.bits, b.bits})
          /\ d.isSigned = (a.isSigned \/ b.isSigned)
      BY <2>1 DEF Integer
    <2>3. d.bits = IF a.bits >= b.bits THEN a.bits ELSE b.bits
      BY <1>1, <2>2, MaxOfTwo
    <2>4. d.isSigned <=> w.isSigned \/ r.isSigned
      BY <1>1, <2>2
    <2>5. d.bits \in Sizes /\ \A c \in Sizes : d.bits <= c <=> a.bits <= c /\ b.bits <= c
      BY <1>1, <2>3 DEF Sizes
    <2> QED
      BY <2>2, <2>4, <2>5
  <1> QED
    BY <1>2, <1>3

\* d holds what is in all slots, and is the narrowest type that does.
HoldsSlots(d, slots) ==
  LET Fits(bits) == \A info \in slots : \A w \in info.width : 4 * w <= bits
  IN /\ d.class = "integer"
     /\ d.isSigned <=> \E info \in slots : info.isSigned
     /\ d.bits = Min({bits \in {8, 16, 32, 64} : Fits(bits)})

\* It does, if it is as wide as exactly those sizes that hold them.
LEMMA NarrowestType ==
  ASSUME NEW d, NEW slots, d.class = "integer", d.isSigned <=> \E info \in slots : info.isSigned,
         d.bits \in Sizes,
         \A c \in Sizes : (\A info \in slots : \A w \in info.width : 4 * w <= c) <=> d.bits <= c
  PROVE  HoldsSlots(d, slots)
  <1> DEFINE fitting == {bits \in {8, 16, 32, 64} : \A info \in slots : \A w \in info.width : 4 * w <= bits}
  <1>1. fitting = {bits \in Sizes : d.bits <= bits}
    BY DEF Sizes
  <1>2. fitting \subseteq Nat /\ d.bits \in fitting /\ \A c \in fitting : d.bits <= c
    BY <1>1 DEF Sizes
  <1>3. Min(fitting) = d.bits
    <2> HIDE DEF fitting
    <2> QED
      BY <1>2, LeastIsMin
  <1> QED
    BY <1>3 DEF HoldsSlots

\* For every register of every map file the type of the catalogue holds the
\* values of both slots and is no wider than that needs.
THEOREM NarrowestDataType ==
  ASSUME \A f \in Files : WellTypedFile(f)
  PROVE  Spec => []DataTypeHoldsBoth
  <1>1. CatalogueInv /\ file \in Files => DataTypeHoldsBoth
    <2> SUFFICES ASSUME CatalogueInv, file \in Files
                 PROVE  DataTypeHoldsBoth
      OBVIOUS
    <2> DEFINE all(path) == {info \in {catalogue[path].readInfo, catalogue[path].writeInfo} : isActive(info)}
               slots(path) == {info \in {catalogue[path].readInfo, catalogue[path].writeInfo} :
                                 isActive(info) /\ info.type \in {"hexInt", "binInt"} /\ info.width # {}}
    <2>1. ASSUME NEW path \in DOMAIN catalogue, slots(path) # {}, slots(path) = all(path)
          PROVE  HoldsSlots(catalogue[path].dataType, slots(path))
      <3> DEFINE reg == Source(path)
                 r == catalogue[path].readInfo
                 w == catalogue[path].writeInfo
                 d == catalogue[path].dataType
                 S == slots(path)
      <3>1. /\ catalogue[path] = RegisterInfo(reg, serialDelimiter)
            /\ RegisterInfo(reg, serialDelimiter).verdict = "accepted"
        BY SourceIsRegister
      <3>2. /\ r = ReadInfo(reg, serialDelimiter) /\ w = WriteInfo(reg, serialDelimiter)
            /\ d = CHOOSE t \in DataTypes(r, w) : TRUE
            /\ Verdict(r, w, getValueOr(reg.top, "nElem", 1)) = "accepted"
        BY <3>1, WhatIsAccepted
      <3>3. d \in DataTypes(r, w)
        <4>1. DataTypes(r, w) # {}
          BY <3>2, WhatIsValid DEF IsBadInfo
        <4> HIDE DEF r, w, d
        <4> QED
          BY <3>2, <4>1
      <3>4. \A info \in S : IsTypeOfSlot(getDataType(info), info)
        <4>1. ASSUME NEW info \in S PROVE IsTypeOfSlot(getDataType(info), info)
          <5>1. IsSlot(info) /\ isActive(info) /\ info \in {r, w}
            BY DEF IsSlot
          <5>2. PICK a : ComesFrom(a, reg) /\ a.info = info
            BY <5>1, InfoComesFrom
          <5> QED
            BY <5>1, <5>2, TypeOfSlot
        <4> QED
          BY <4>1
      <3>5. /\ S # {}
            /\ S = {info \in {r, w} : isActive(info)}
        BY <2>1
      <3> HIDE DEF r, w, d, S, reg, slots, all
      <3>6. CASE isActive(r) /\ isActive(w)
        <4>1. S = {r, w}
          BY <3>5, <3>6
        <4>2. IsTypeOfSlot(getDataType(w), w) /\ IsTypeOfSlot(getDataType(r), r)
          BY <3>4, <4>1
        <4>3. d \in getReconciledDataTypes(getDataType(w), getDataType(r))
          BY <3>3, <3>6 DEF DataTypes
        <4>4. /\ d.class = "integer"
              /\ d.isSigned <=> w.isSigned \/ r.isSigned
              /\ d.bits \in Sizes
              /\ \A c \in Sizes : d.bits <= c <=> getDataType(w).bits <= c /\ getDataType(r).bits <= c
          BY <4>2, <4>3, ReconciledSlots
        <4>5. d.isSigned <=> \E info \in S : info.isSigned
          BY <4>1, <4>4
        <4>6. \A c \in Sizes : (\A info \in S : \A v \in info.width : 4 * v <= c) <=> d.bits <= c
          BY <4>1, <4>2, <4>4 DEF IsTypeOfSlot
        <4> QED
          BY <4>4, <4>5, <4>6, NarrowestType DEF S, d
      <3>7. CASE ~(isActive(r) /\ isActive(w))
        <4>1. PICK info \in S : S = {info}
          BY <3>5, <3>7
        <4>2. d = getDataType(info)
          BY <3>3, <3>5, <3>7, <4>1 DEF DataTypes
        <4>3. IsTypeOfSlot(d, info)
          BY <3>4, <4>2
        <4>4. d.isSigned <=> \E i \in S : i.isSigned
          BY <4>1, <4>3 DEF IsTypeOfSlot
        <4>5. \A c \in Sizes : (\A i \in S : \A v \in i.width : 4 * v <= c) <=> d.bits <= c
          BY <4>1, <4>3 DEF IsTypeOfSlot
        <4>6. d.class = "integer" /\ d.bits \in Sizes
          BY <4>3 DEF IsTypeOfSlot
        <4> QED
          BY <4>4, <4>5, <4>6, NarrowestType DEF S, d
      <3> QED
        BY <3>6, <3>7
    <2> QED
      BY <2>1 DEF DataTypeHoldsBoth, HoldsSlots
  <1> QED
    BY <1>1, CatalogueInvariant, PTL

-----------------------------------------------------------------------------
(* Types *)

\* A reading of a number of lines or bytes.
IsCount(r) == IsReading(r) /\ r.lines \in BOOLEAN /\ r.n \in Nat

\* No bytes are such a number.
LEMMA NoBytesCount ==
  ASSUME NEW r, r = [lines |-> FALSE, n |-> 0, delimiter |-> ""]
  PROVE  IsCount(r)
  BY DEF IsCount, IsReading

\* No level that is not rejected asks for a negative number.
LEMMA CountsAreNatural ==
  ASSUME NEW j, WellTyped(j), NEW absent, ~IsBadEnding(j, absent)
  PROVE  \A key \in {"nRespBytes", "nRespLines"} \cap DOMAIN j : j[key] \in Nat
  <1>1. \A key \in {"nRespBytes", "nRespLines"} \cap DOMAIN j : j[key] \in Int /\ ~(j[key] < 0)
    BY DEF WellTyped, IsBadEnding
  <1> QED
    BY <1>1

\* So a level leaves a number of lines or bytes.
LEMMA CountAfter ==
  ASSUME NEW r, IsCount(r), NEW j,
         \A key \in {"nRespBytes", "nRespLines"} \cap DOMAIN j : j[key] \in Nat
  PROVE  IsCount(ReadingAfter(r, j))
  <1> DEFINE delimited == Delimited(r, j)
             counted == Counted(delimited, j)
             limited == Limited(counted, j)
  <1>1. delimited.lines \in BOOLEAN /\ delimited.n \in Nat
    BY DEF Delimited, IsCount
  <1> HIDE DEF delimited
  <1>2. counted.lines \in BOOLEAN /\ counted.n \in Nat
    <2>1. CASE "nRespLines" \in DOMAIN j
      <3>1. counted.lines = TRUE /\ counted.n = j["nRespLines"]
        BY <2>1 DEF Counted
      <3> QED
        BY <2>1, <3>1
    <2>2. CASE "nRespLines" \notin DOMAIN j
      BY <1>1, <2>2 DEF Counted
    <2> QED
      BY <2>1, <2>2
  <1> HIDE DEF counted
  <1>3. limited.lines \in BOOLEAN /\ limited.n \in Nat
    <2>1. CASE "nRespBytes" \in DOMAIN j
      <3>1. limited.lines = FALSE /\ limited.n = j["nRespBytes"]
        BY <2>1 DEF Limited
      <3> QED
        BY <2>1, <3>1
    <2>2. CASE "nRespBytes" \notin DOMAIN j
      BY <1>2, <2>2 DEF Limited
    <2> QED
      BY <2>1, <2>2
  <1>4. ReadingAfter(r, j) = limited
    BY DEF ReadingAfter, limited, counted, delimited
  <1>5. IsReading(ReadingAfter(r, j))
    BY ReadingStays DEF IsCount
  <1> HIDE DEF limited
  <1> QED
    BY <1>3, <1>4, <1>5 DEF IsCount

\* Nor does a level begin with anything else.
LEMMA CountBefore ==
  ASSUME NEW info, IsInfo(info), IsCount(info.reading), NEW defaults
  PROVE  IsCount(BeforeEndings(info, defaults).reading)
  <1> DEFINE start == BeforeEndings(info, defaults)
  <1>0. IsReading(start.reading)
    BY EndingsBefore DEF BeginsLevel, IsInfo
  <1>1. CASE isBinary(info)
    <2>1. BeginsBinary(start, info)
      BY <1>1, BinaryBefore
    <2> HIDE DEF start
    <2>2. CASE info.reading.lines
      <3>1. start.reading = [lines |-> FALSE, n |-> 0, delimiter |-> ""]
        BY <2>1, <2>2 DEF BeginsBinary
      <3>2. IsCount(start.reading)
        BY <3>1, NoBytesCount
      <3> QED
        BY <3>2 DEF start
    <2>3. CASE ~info.reading.lines
      BY <2>1, <2>3 DEF BeginsBinary, start
    <2> QED
      BY <2>2, <2>3
  <1>2. CASE ~isBinary(info) /\ defaults = {}
    BY <1>2 DEF BeforeEndings
  <1>3. CASE ~isBinary(info) /\ defaults # {}
    <2> DEFINE d == CHOOSE d \in defaults : TRUE
               commanded == [info EXCEPT !.cmdLineDelimiter = d]
               r == [lines |-> TRUE,
                     n |-> IF commanded.reading.lines THEN commanded.reading.n ELSE 0,
                     delimiter |-> d]
    <2>1. start = setResponseDelimiter(commanded, d)
      BY <1>3 DEF BeforeEndings
    <2>2. SetsMember(commanded, info, "cmdLineDelimiter", d)
      BY MemberSetter DEF InfoFields
    <2> HIDE DEF commanded, d, start
    <2>3. commanded.reading = info.reading
      BY <2>2 DEF SetsMember, SameExcept, InfoFields
    <2>4. SetsReading(start, commanded, r)
      BY <2>1, <2>2, DelimiterSetter DEF SetsMember
    <2>5. r.lines = TRUE /\ r.n \in Nat
      BY <2>3 DEF IsCount
    <2> HIDE DEF r
    <2> QED
      BY <1>0, <2>4, <2>5 DEF SetsReading, IsCount, start
  <1> QED
    BY <1>1, <1>2, <1>3

\* The types of an interaction's members.
IsTypedInfo(info) ==
  /\ info.type \in TransportLayerType
  /\ info.reading.lines \in BOOLEAN /\ info.reading.n \in Nat
  /\ {info.command, info.response} \subseteq Seq(Token)
  /\ ToSet(info.commandChecksums) \cup ToSet(info.responseChecksums) \subseteq Checksum

\* The types of what the register level leaves, which has nothing of a section.
IsTypedLevel(level, t) ==
  /\ IsBlank(level) /\ IsCount(level.reading) /\ level.type = t
  /\ level.commandChecksums = <<>> /\ level.responseChecksums = <<>>

\* The register level leaves it.
LEMMA LevelIsTyped ==
  ASSUME NEW typed, NEW t, NEW nLines \in Nat, IsTyped(typed, t, nLines),
         NEW top, WellTyped(top), ~IsBadEnding(top, FALSE), NEW d
  PROVE  IsTypedLevel(FromRegisterLevel(typed, top, d), t)
  <1> DEFINE level == FromRegisterLevel(typed, top, d)
             start == BeforeEndings(typed, {d})
  <1>1. IsInfo(typed) /\ IsCount(typed.reading)
    <2>1. IsInfo(typed) /\ typed.reading.lines /\ typed.reading.n \in Nat
      BY DEF IsTyped
    <2>2. IsReading(typed.reading)
      BY <2>1 DEF IsInfo
    <2>3. typed.reading.lines \in BOOLEAN
      BY DEF IsTyped
    <2> QED
      BY <2>1, <2>2, <2>3 DEF IsCount
  <1>2. LeavesRegister(level, typed, top, start)
    BY <1>1, RegisterLevel
  <1>3. IsCount(start.reading)
    BY <1>1, CountBefore
  <1> HIDE DEF level, start
  <1>4. IsCount(ReadingAfter(start.reading, top))
    BY <1>3, CountsAreNatural, CountAfter
  <1>5. IsTypedLevel(level, t)
    BY <1>2, <1>4 DEF LeavesRegister, IsTyped, IsBlank, IsTypedLevel
  <1> QED
    BY <1>5 DEF level

\* The names of the checksums are known ones.
LEMMA NamesAreKnown ==
  ASSUME NEW j, NEW key, NEW pattern, ~IsBadChecksumName(j, key, pattern)
  PROVE  ToSet(ChecksumNames(j, key, pattern)) \subseteq Checksum
  <1>1. CASE key \notin DOMAIN j
    <2>1. ChecksumNames(j, key, pattern) = <<>>
      BY <1>1 DEF ChecksumNames
    <2> QED
      BY <2>1 DEF ToSet
  <1>2. CASE key \in DOMAIN j /\ j[key].kind = "array"
    <2>1. ChecksumNames(j, key, pattern) = j[key].names
      BY <1>2 DEF ChecksumNames
    <2> QED
      BY <1>2, <2>1 DEF IsBadChecksumName
  <1>3. CASE key \in DOMAIN j /\ j[key].kind # "array"
    <2>1. ChecksumNames(j, key, pattern) = [i \in 1..getNChecksums(pattern) |-> j[key].name]
      BY <1>3 DEF ChecksumNames
    <2>2. j[key].name \in Checksum
      BY <1>3 DEF IsBadChecksumName
    <2> QED
      BY <2>1, <2>2 DEF ToSet
  <1> QED
    BY <1>1, <1>2, <1>3

\* The empty pattern, and the empty list.
LEMMA NothingIsTyped == <<>> \in Seq(Token) /\ ToSet(<<>>) \subseteq Checksum
  BY DEF ToSet

\* What a section that is not rejected leaves is typed.
LEMMA SectionIsTyped ==
  ASSUME NEW level, IsBlank(level), IsCount(level.reading), level.type \in TransportLayerType,
         ToSet(level.commandChecksums) \cup ToSet(level.responseChecksums) \subseteq Checksum,
         NEW j, WellTyped(j), NEW i, ~IsBadSection(i, j)
  PROVE  IsTypedInfo(populateFromJson(level, j))
  <1> DEFINE new == populateFromJson(level, j)
             start == BeforeEndings(level, {})
  <1>1. CASE ~isActive(new)
    <2> DEFINE command == getValueOr(j, "cmd", level.command)
               active == [level EXCEPT !.command = getValueOr(j, "cmd", @)]
    <2>1. SetsMember(active, level, "command", command)
      BY MemberSetter DEF InfoFields, IsBlank
    <2>2. new = active
      <3>1. CASE ~isActive(active)
        BY <3>1 DEF populateFromJson
      <3>2. CASE isActive(active)
        <4> DEFINE responding == [active EXCEPT !.response = getValueOr(j, "resp", @)]
                   ended == setEndingsFromJson(responding, j, {}, "resp" \notin DOMAIN j)
                   formatted == Formatted(ended, j)
        <4>1. new = setChecksumsFromJson(formatted, j)
          BY <3>2 DEF populateFromJson, Formatted
        <4>2. IsInfo(active) /\ active.command # <<>>
          BY <2>1, <3>2 DEF SetsMember, isActive
        <4> HIDE DEF active
        <4>3. IsInfo(responding) /\ responding.command = active.command
          <5> DEFINE response == getValueOr(j, "resp", active.response)
          <5>1. SetsMember(responding, active, "response", response)
            BY <4>2, MemberSetter DEF InfoFields
          <5> HIDE DEF responding
          <5> QED
            BY <5>1 DEF SetsMember, SameExcept, InfoFields
        <4> HIDE DEF responding
        <4>4. IsInfo(ended) /\ ended.command = responding.command
          <5> DEFINE absent == "resp" \notin DOMAIN j
          <5>1. absent \in BOOLEAN
            OBVIOUS
          <5>2. ended = setEndingsFromJson(responding, j, {}, absent)
            OBVIOUS
          <5> HIDE DEF absent, ended
          <5>3. EndsLevel(ended, responding, j, BeforeEndings(responding, {}), absent)
            BY <4>3, <5>1, <5>2, EndingsAfter
          <5> QED
            BY <5>3 DEF EndsLevel, BeginsLevel, SameExcept, InfoFields
        <4> HIDE DEF ended
        <4>5. IsInfo(formatted) /\ formatted.command = ended.command
          <5>1. FormatsLevel(formatted, ended, j)
            BY <4>4, FormatAfter
          <5> HIDE DEF formatted
          <5> QED
            BY <5>1 DEF FormatsLevel, SameExcept, InfoFields
        <4> HIDE DEF formatted
        <4>6. setChecksumsFromJson(formatted, j).command = formatted.command
          BY <4>5 DEF setChecksumsFromJson, IsInfo, InfoFields
        <4> QED
          BY <1>1, <4>1, <4>2, <4>3, <4>4, <4>5, <4>6 DEF isActive
      <3> QED
        BY <3>1, <3>2
    <2> HIDE DEF new, active
    <2>3. new.command = <<>>
      BY <1>1 DEF isActive
    <2>4. /\ new.type = level.type /\ new.reading = level.reading
          /\ new.response = <<>>
          /\ new.commandChecksums = level.commandChecksums
          /\ new.responseChecksums = level.responseChecksums
      BY <2>1, <2>2 DEF SetsMember, SameExcept, InfoFields, IsBlank
    <2>5. IsTypedInfo(new)
      BY <2>3, <2>4, NothingIsTyped DEF IsTypedInfo, IsCount
    <2> QED
      BY <2>5 DEF new
  <1>2. CASE isActive(new)
    <2>1. LeavesLevels(new, level, j, start)
      BY <1>2, SectionLevel
    <2>2. IsCount(start.reading)
      BY CountBefore DEF IsBlank
    <2> HIDE DEF new, start
    <2>3. LeavesSection(new, j) /\ LeavesReading(new.reading, start.reading, j) /\ new.type = level.type
      BY <2>1 DEF LeavesLevels
    <2>4. "cmd" \in DOMAIN j /\ j["cmd"] # <<>> /\ new.command = j["cmd"]
      BY <2>3 DEF LeavesSection
    <2>5. /\ ~IsBadEnding(j, "resp" \notin DOMAIN j)
          /\ ~IsBadChecksumName(j, "cmdChecksum", new.command)
          /\ ~IsBadChecksumName(j, "respChecksum", getValueOr(j, "resp", <<>>))
      BY <2>4 DEF IsBadSection, getValueOr
    <2>6. IsCount(ReadingAfter(start.reading, j))
      <3>1. \A key \in {"nRespBytes", "nRespLines"} \cap DOMAIN j : j[key] \in Nat
        BY <2>5, CountsAreNatural
      <3> QED
        BY <2>2, <3>1, CountAfter
    <2>7. new.reading.lines \in BOOLEAN /\ new.reading.n \in Nat
      BY <2>3, <2>6 DEF LeavesReading, IsCount
    <2>8. {new.command, new.response} \subseteq Seq(Token)
      <3>1. new.response = getValueOr(j, "resp", <<>>)
        BY <2>3 DEF LeavesSection
      <3>2. new.response \in Seq(Token)
        BY <3>1, PatternOf
      <3>3. new.command \in Seq(Token)
        BY <2>4 DEF WellTyped
      <3> QED
        BY <3>2, <3>3
    <2>9. ToSet(new.commandChecksums) \cup ToSet(new.responseChecksums) \subseteq Checksum
      <3>1. /\ new.commandChecksums = ChecksumNames(j, "cmdChecksum", new.command)
            /\ new.responseChecksums = ChecksumNames(j, "respChecksum", getValueOr(j, "resp", <<>>))
        BY <2>3 DEF LeavesSection
      <3>2. ToSet(new.commandChecksums) \subseteq Checksum
        BY <2>5, <3>1, NamesAreKnown
      <3>3. ToSet(new.responseChecksums) \subseteq Checksum
        BY <2>5, <3>1, NamesAreKnown
      <3> QED
        BY <3>2, <3>3
    <2>10. IsTypedInfo(new)
      BY <2>3, <2>7, <2>8, <2>9 DEF IsTypedInfo
    <2> QED
      BY <2>10 DEF new
  <1> QED
    BY <1>1, <1>2

\* The constructor goes on from the JSON of a register to the interaction of own.
MayBeMade(own, other, top) ==
  /\ \A i, j \in own : i = j
  /\ \A j \in {top} \cup own : WellTyped(j)
  /\ ~IsBadEnding(top, FALSE)
  /\ TypeOf(own, other, top) # {}
  /\ \A t \in TypeOf(own, other, top) :
       /\ t \in TransportLayerType
       /\ \A j \in own : ~IsBadSection([InteractionInfo EXCEPT !.type = t], j)

\* Then it is typed, with a section or without.
LEMMA InteractionIsTyped ==
  ASSUME NEW own, NEW other, NEW top, MayBeMade(own, other, top), NEW nLines \in Nat, NEW d
  PROVE  IsTypedInfo(Interaction(own, other, top, nLines, d))
  <1> DEFINE t == CHOOSE t \in TypeOf(own, other, top) : TRUE
             typed == [setResponseNLines(InteractionInfo, nLines) EXCEPT !.type = t]
             level == FromRegisterLevel(typed, top, d)
             i == [InteractionInfo EXCEPT !.type = t]
             s == CHOOSE j \in own : TRUE
  <1>1. t \in TypeOf(own, other, top)
    BY DEF MayBeMade
  <1>2. t \in TransportLayerType /\ \A j \in own : ~IsBadSection(i, j)
    BY <1>1 DEF MayBeMade
  <1>3. /\ Interaction(own, other, top, nLines, d) = IF own = {} THEN level ELSE populateFromJson(level, s)
        /\ own # {} => s \in own
    BY DEF Interaction
  <1> HIDE DEF t, i, s
  <1>4. IsTyped(typed, t, nLines)
    BY TypedInteraction
  <1> HIDE DEF typed
  <1>a. WellTyped(top) /\ ~IsBadEnding(top, FALSE)
    BY DEF MayBeMade
  <1>b. IsTypedLevel(level, t)
    BY <1>4, <1>a, LevelIsTyped
  <1> HIDE DEF level
  <1>5. /\ IsBlank(level) /\ IsCount(level.reading) /\ level.type = t
        /\ level.commandChecksums = <<>> /\ level.responseChecksums = <<>>
    BY <1>b DEF IsTypedLevel
  <1>6. ToSet(level.commandChecksums) \cup ToSet(level.responseChecksums) \subseteq Checksum
    BY <1>5, NothingIsTyped
  <1>7. CASE own = {}
    <2>1. IsTypedInfo(level)
      BY <1>2, <1>5, <1>6, NothingIsTyped DEF IsTypedInfo, IsBlank, IsCount
    <2> QED
      BY <1>3, <1>7, <2>1
  <1>8. CASE own # {}
    <2>1. s \in own /\ WellTyped(s) /\ ~IsBadSection(i, s)
      BY <1>2, <1>3, <1>8 DEF MayBeMade
    <2>2. IsTypedInfo(populateFromJson(level, s))
      BY <1>2, <1>5, <1>6, <2>1, SectionIsTyped
    <2> QED
      BY <1>3, <1>8, <2>2
  <1> QED
    BY <1>7, <1>8

\* Both interactions of an accepted register are.
LEMMA AcceptedIsTyped ==
  ASSUME NEW reg, WellTypedRegister(reg), ~IsBadJson(reg), NEW d
  PROVE  IsTypedInfo(ReadInfo(reg, d)) /\ IsTypedInfo(WriteInfo(reg, d))
  <1>1. /\ \A i, j \in reg.read : i = j
        /\ \A i, j \in reg.write : i = j
        /\ \A j \in {reg.top} \cup reg.read \cup reg.write : WellTyped(j)
    BY DEF WellTypedRegister
  <1>2. /\ ~IsBadEnding(reg.top, FALSE)
        /\ TypeOf(reg.read, reg.write, reg.top) \cup TypeOf(reg.write, reg.read, reg.top) # {}
        /\ \A j \in reg.read : \A t \in TypeOf(reg.read, reg.write, reg.top) :
             ~IsBadSection([InteractionInfo EXCEPT !.type = t], j)
        /\ \A j \in reg.write : \A t \in TypeOf(reg.write, reg.read, reg.top) :
             ~IsBadSection([InteractionInfo EXCEPT !.type = t], j)
    BY DEF IsBadJson
  <1>3. TypeOf(reg.read, reg.write, reg.top) # {} /\ TypeOf(reg.write, reg.read, reg.top) # {}
    BY <1>2 DEF TypeOf
  <1>4. \A j \in {reg.top} \cup reg.read \cup reg.write :
          "type" \in DOMAIN j => j["type"] \in TransportLayerType
    BY DEF IsBadJson
  <1>5. /\ \A t \in TypeOf(reg.read, reg.write, reg.top) : t \in TransportLayerType
        /\ \A t \in TypeOf(reg.write, reg.read, reg.top) : t \in TransportLayerType
    BY <1>1, <1>4, TypesAreKnown
  <1>6. MayBeMade(reg.read, reg.write, reg.top) /\ MayBeMade(reg.write, reg.read, reg.top)
    BY <1>1, <1>2, <1>3, <1>5 DEF MayBeMade
  <1> QED
    BY <1>6, InteractionIsTyped DEF ReadInfo, WriteInfo

\* Types of integers on the wire.
IntegerTypes == {"decInt", "hexInt", "binInt"}

\* d is an integer type exactly if the interaction transports integers, and
\* else one of those with a size or none.
IsKindOf(d, info) ==
  /\ d.class = "integer" <=> info.type \in IntegerTypes
  /\ d.class # "integer" => d \in {Float(32), Float(64), NotNumeric("string"), NotNumeric("void")}

\* The data type of one interaction.
LEMMA KindOfOne ==
  ASSUME NEW info, info.type \in TransportLayerType
  PROVE  IsKindOf(getDataType(info), info)
  <1>1. CASE info.type \in {"string", "void"}
    <2>1. getDataType(info) = NotNumeric(info.type)
      BY <1>1 DEF getDataType
    <2>2. NotNumeric(info.type).class = info.type
      BY DEF NotNumeric
    <2>3. NotNumeric(info.type) \in {NotNumeric("string"), NotNumeric("void")}
      BY <1>1
    <2> QED
      BY <1>1, <2>1, <2>2, <2>3 DEF IsKindOf, IntegerTypes
  <1>2. CASE info.type \in {"binFloat", "decFloat"}
    <2>1. getDataType(info) = FloatType(info)
      BY <1>2 DEF getDataType
    <2>2. FloatType(info) \in {Float(32), Float(64)}
      BY DEF FloatType
    <2>3. Float(32).class = "float" /\ Float(64).class = "float"
      BY DEF Float
    <2> QED
      BY <1>2, <2>1, <2>2, <2>3 DEF IsKindOf, IntegerTypes
  <1>3. CASE info.type \in IntegerTypes
    <2>1. getDataType(info) = IntegerType(info)
      BY <1>3 DEF getDataType, IntegerTypes
    <2>2. IntegerType(info).class = "integer"
      BY DEF IntegerType, Integer
    <2> QED
      BY <1>3, <2>1, <2>2 DEF IsKindOf
  <1> QED
    BY <1>1, <1>2, <1>3 DEF TransportLayerType, IntegerTypes

\* The data type of both.
LEMMA KindOfBoth ==
  ASSUME NEW r, NEW w, NEW a, NEW b, IsKindOf(a, w), IsKindOf(b, r),
         NEW d \in getReconciledDataTypes(a, b)
  PROVE  IsKindOf(d, r) /\ IsKindOf(d, w)
  <1>1. a.class = b.class
    BY DEF getReconciledDataTypes
  <1>2. CASE a = b
    <2>1. d = a
      BY <1>1, <1>2 DEF getReconciledDataTypes
    <2> QED
      BY <1>2, <2>1 DEF IsKindOf
  <1>3. CASE a # b /\ a.class = "integer"
    <2>1. d = Integer(Max({a.bits, b.bits}), a.isSigned \/ b.isSigned)
      BY <1>1, <1>3 DEF getReconciledDataTypes
    <2>2. d.class = "integer"
      BY <2>1 DEF Integer
    <2> QED
      BY <1>1, <1>3, <2>2 DEF IsKindOf
  <1>4. CASE a # b /\ a.class # "integer"
    <2>1. d = Float(64)
      BY <1>1, <1>4 DEF getReconciledDataTypes
    <2>2. Float(64).class = "float"
      BY DEF Float
    <2> QED
      BY <1>1, <1>4, <2>1, <2>2 DEF IsKindOf
  <1> QED
    BY <1>2, <1>3, <1>4

\* The width of an integer that is transferred has at most so many characters.
LEMMA WidthOfIntegers ==
  ASSUME NEW a, NEW reg, ComesFrom(a, reg), a.info.type \in IntegerTypes
  PROVE  a.info.width \subseteq 1..(IF a.info.type = "decInt" THEN 20 ELSE 16)
  <1>1. \A w \in a.info.width : w \in Nat \ {0}
    BY TypedMembers
  <1>2. ~throwIfBadFixedWidth(a.info) /\ isActive(a.info)
    BY ActiveIsAccepted DEF ComesFrom
  <1>3. ASSUME NEW w \in a.info.width
        PROVE  w \in 1..(IF a.info.type = "decInt" THEN 20 ELSE 16)
    <2>1. CASE a.info.type = "decInt"
      <3>1. ~(w > (IF a.info.isSigned THEN 19 ELSE 20))
        BY <1>2, <2>1 DEF throwIfBadFixedWidth
      <3>2. w <= 20
        BY <1>1, <3>1
      <3> QED
        BY <1>1, <2>1, <3>2
    <2>2. CASE a.info.type \in {"hexInt", "binInt"}
      <3>1. ~(w > 16)
        BY <1>2, <2>2 DEF throwIfBadFixedWidth
      <3> QED
        BY <1>1, <2>2, <3>1
    <2> QED
      BY <2>1, <2>2 DEF IntegerTypes
  <1> QED
    BY <1>3

\* The data type of an accepted register is one of those for both its active
\* interactions, and has a size if it is an integer type.
LEMMA KindOfAccepted ==
  ASSUME NEW reg, NEW d, RegisterInfo(reg, d).verdict = "accepted",
         IsTypedInfo(ReadInfo(reg, d)), IsTypedInfo(WriteInfo(reg, d))
  PROVE  /\ RegisterInfo(reg, d).dataType \in DataType
         /\ \A info \in {ReadInfo(reg, d), WriteInfo(reg, d)} :
              isActive(info) => IsKindOf(RegisterInfo(reg, d).dataType, info)
  <1> DEFINE r == ReadInfo(reg, d)
             w == WriteInfo(reg, d)
             type == RegisterInfo(reg, d).dataType
  <1>1. /\ type = CHOOSE t \in DataTypes(r, w) : TRUE
        /\ Verdict(r, w, getValueOr(reg.top, "nElem", 1)) = "accepted"
    BY WhatIsAccepted
  <1>2. ~throwIfBadActivation(r, w) /\ ~IsBadInfo(r, w, getValueOr(reg.top, "nElem", 1))
    BY <1>1, WhatIsValid
  <1>3. IsKindOf(getDataType(r), r) /\ IsKindOf(getDataType(w), w)
    BY KindOfOne DEF IsTypedInfo
  <1> HIDE DEF r, w, type
  <1>4. /\ type \in DataTypes(r, w)
        /\ type.class = "integer" => type \in SizedDataTypes
    BY <1>1, <1>2 DEF IsBadInfo
  <1>5. isActive(r) \/ isActive(w)
    BY <1>2 DEF throwIfBadActivation
  <1>6. \A info \in {r, w} : isActive(info) => IsKindOf(type, info)
    <2>1. CASE isActive(r) /\ isActive(w)
      <3>1. type \in getReconciledDataTypes(getDataType(w), getDataType(r))
        BY <1>4, <2>1 DEF DataTypes
      <3> QED
        BY <1>3, <3>1, KindOfBoth
    <2>2. CASE isActive(r) /\ ~isActive(w)
      <3>1. type = getDataType(r)
        BY <1>4, <2>2 DEF DataTypes
      <3> QED
        BY <1>3, <2>2, <3>1
    <2>3. CASE ~isActive(r) /\ isActive(w)
      <3>1. type = getDataType(w)
        BY <1>4, <2>3 DEF DataTypes
      <3> QED
        BY <1>3, <2>3, <3>1
    <2> QED
      BY <1>5, <2>1, <2>2, <2>3
  <1>7. type \in DataType
    <2>1. CASE type.class = "integer"
      BY <1>4, <2>1 DEF DataType
    <2>2. CASE type.class # "integer"
      BY <1>5, <1>6, <2>2 DEF DataType, IsKindOf
    <2> QED
      BY <2>1, <2>2
  <1> QED
    BY <1>6, <1>7 DEF r, w, type

\* Whatever the file says of it, an accepted register has settings of the types
\* that the accessor relies on, and a width that its integers fit in.
THEOREM TypeCorrect ==
  ASSUME \A f \in Files : WellTypedFile(f)
  PROVE  Spec => []TypeOK
  <1>1. CatalogueInv /\ file \in Files => TypeOK
    <2> SUFFICES ASSUME CatalogueInv, file \in Files
                 PROVE  TypeOK
      OBVIOUS
    <2> DEFINE Infos(path) == {catalogue[path].readInfo, catalogue[path].writeInfo}
    <2>1. /\ pc \in {"frame", "registers", "constructed", "logic_error", "runtime_error"}
          /\ todo \in Nat
      BY DEF CatalogueInv
    <2>2. ASSUME NEW path \in DOMAIN catalogue
          PROVE  /\ catalogue[path].dataType \in DataType
                 /\ \A info \in Infos(path) :
                      /\ IsTypedInfo(info)
                      /\ isActive(info) => IsKindOf(catalogue[path].dataType, info)
      <3> DEFINE reg == Source(path)
      <3>1. /\ WellTypedRegister(reg)
            /\ catalogue[path] = RegisterInfo(reg, serialDelimiter)
            /\ RegisterInfo(reg, serialDelimiter).verdict = "accepted"
        BY SourceIsRegister
      <3> HIDE DEF reg
      <3>2. /\ ~IsBadJson(reg)
            /\ catalogue[path].readInfo = ReadInfo(reg, serialDelimiter)
            /\ catalogue[path].writeInfo = WriteInfo(reg, serialDelimiter)
        BY <3>1, WhatIsAccepted
      <3>3. IsTypedInfo(ReadInfo(reg, serialDelimiter)) /\ IsTypedInfo(WriteInfo(reg, serialDelimiter))
        BY <3>1, <3>2, AcceptedIsTyped
      <3>4. /\ RegisterInfo(reg, serialDelimiter).dataType \in DataType
            /\ \A info \in {ReadInfo(reg, serialDelimiter), WriteInfo(reg, serialDelimiter)} :
                 isActive(info) => IsKindOf(RegisterInfo(reg, serialDelimiter).dataType, info)
        BY <3>1, <3>3, KindOfAccepted
      <3> QED
        BY <3>1, <3>2, <3>3, <3>4
    <2>3. ASSUME NEW path \in DOMAIN catalogue, NEW info \in Infos(path), isActive(info),
                 catalogue[path].dataType.class = "integer"
          PROVE  info.width \subseteq 1..(IF info.type = "decInt" THEN 20 ELSE 16)
      <3>1. PICK a : ComesFrom(a, Source(path)) /\ a.info = info
        BY <2>3, InfoComesFrom
      <3>2. a.info.type \in IntegerTypes
        BY <2>2, <2>3, <3>1 DEF IsKindOf
      <3> QED
        BY <3>1, <3>2, WidthOfIntegers
    <2> QED
      BY <2>1, <2>2, <2>3 DEF TypeOK, IsTypedInfo
  <1> QED
    BY <1>1, CatalogueInvariant, PTL

=============================================================================
