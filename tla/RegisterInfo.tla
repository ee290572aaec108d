----------------------------- MODULE RegisterInfo -----------------------------
(***************************************************************************)
(* From the JSON of a register in the map file to its two InteractionInfos  *)
(* and its DataType: what each level sets, what it overrides, and which     *)
(* registers are accepted.                                                  *)
(*                                                                          *)
(* A JSON object is a function from its keys to their values; two spellings *)
(* of one key count as an unknown key.  An optional value is a set of at    *)
(* most one element.  A register is [top, read, write], the last two        *)
(* optional.  Delimiters and names are model values or strings.             *)
(***************************************************************************)
EXTENDS Integers, ChecksumTags

\* The greatest unsigned int.
CONSTANT MaxNElements

ASSUME MaxNElementsAssumption == MaxNElements \in Nat \ {0}

TransportLayerType ==
  {"decInt", "hexInt", "binInt", "binFloat", "decFloat", "string", "void"}
Checksum == {"cs8", "cs32", "sha256", "crcccit16"}

CommonKeys == {"type", "nRespBytes", "nRespLines", "delimiter", "cmdDelim", "respDelim",
               "characterWidth", "bitWidth", "fractionalBits", "signed"}
mapFileRegisterKeys == CommonKeys \cup {"nElem"}
mapFileInteractionInfoKeys == CommonKeys \cup {"cmd", "resp", "cmdChecksum", "respChecksum"}

throwIfHasInvalidJsonKey(j, keys) == ~(DOMAIN j \subseteq keys)

getValueOption(j, key) == IF key \in DOMAIN j THEN {j[key]} ELSE {}
getValueOr(j, key, default) == IF key \in DOMAIN j THEN j[key] ELSE default

-----------------------------------------------------------------------------
(* InteractionInfo *)

\* reading is the variant _responseInfo: lines and their delimiter, or bytes.
InteractionInfo ==
  [type |-> "unset", command |-> <<>>, response |-> <<>>, cmdLineDelimiter |-> "",
   reading |-> [lines |-> TRUE, n |-> 0, delimiter |-> ""],
   width |-> {}, fractionalBits |-> {}, isSigned |-> FALSE,
   commandChecksums |-> <<>>, responseChecksums |-> <<>>, payloads |-> <<>>]

isActive(info) == info.command # <<>>
isBinary(info) == info.type \in {"binInt", "binFloat"}
usesReadLines(info) == info.reading.lines
usesReadBytes(info) == ~usesReadLines(info)

\* Mutant: a new delimiter forgets the number of lines.
setResponseDelimiter_Resets(info, delimiter) ==
  [info EXCEPT !.reading = [lines |-> TRUE, n |-> 0, delimiter |-> delimiter]]

\* The setters of one kind of reading destroy what is set of the other.
setResponseDelimiter(info, delimiter) ==
  [info EXCEPT !.reading = [lines |-> TRUE, n |-> IF @.lines THEN @.n ELSE 0,
                            delimiter |-> delimiter]]
setResponseNLines(info, n) ==
  [info EXCEPT !.reading = [lines |-> TRUE, n |-> n,
                            delimiter |-> IF @.lines THEN @.delimiter ELSE ""]]
setResponseBytes(info, n) ==
  [info EXCEPT !.reading = [lines |-> FALSE, n |-> n, delimiter |-> ""]]

-----------------------------------------------------------------------------
(* Settings from one JSON level *)

setTypeFromJson(info, j) == [info EXCEPT !.type = getValueOr(j, "type", @)]

IsBadEnding(j, responseIsAbsent) ==
  \/ "nRespBytes" \in DOMAIN j /\ {"respDelim", "nRespLines"} \cap DOMAIN j # {}
  \/ \E key \in {"nRespBytes", "nRespLines"} \cap DOMAIN j :
       j[key] < 0 \/ (responseIsAbsent /\ j[key] # 0)

\* Before anything of this level is read: binary interactions start without
\* delimiters, others with the map file's (at the register level only).
BeforeEndings(info, defaultDelimiter) ==
  CASE isBinary(info) /\ usesReadBytes(info) -> [info EXCEPT !.cmdLineDelimiter = ""]
    [] isBinary(info) /\ usesReadLines(info) -> setResponseBytes(info, 0)
    [] ~isBinary(info) /\ defaultDelimiter = {} -> info
    [] OTHER -> LET delimiter == CHOOSE d \in defaultDelimiter : TRUE
                IN setResponseDelimiter([info EXCEPT !.cmdLineDelimiter = delimiter], delimiter)

\* Mutant: delimiter overrides the delimiter of the command.
CommandDelimiter_Overridden(j, inherited) ==
  getValueOr(j, "delimiter", getValueOr(j, "cmdDelim", inherited))

CommandDelimiter(j, inherited) ==
  getValueOr(j, "cmdDelim", getValueOr(j, "delimiter", inherited))

\* cmdDelim and respDelim override delimiter; delimiter does not ask for lines
\* where nRespBytes is set.
setEndingsFromJson(info, j, defaultDelimiter, responseIsAbsent) ==
  LET start == BeforeEndings(info, defaultDelimiter)
      commanded == [start EXCEPT !.cmdLineDelimiter = CommandDelimiter(j, @)]
      delimited ==
        IF {"respDelim", "delimiter"} \cap DOMAIN j = {} THEN commanded
        ELSE setResponseDelimiter(commanded, getValueOr(j, "respDelim", getValueOr(j, "delimiter", "")))
      counted == IF "nRespLines" \in DOMAIN j THEN setResponseNLines(delimited, j["nRespLines"])
                 ELSE delimited
      complete == IF "nRespBytes" \in DOMAIN j THEN setResponseBytes(counted, j["nRespBytes"])
                  ELSE counted
  IN IF responseIsAbsent THEN [complete EXCEPT !.reading.n = 0] ELSE complete

IsBadWidth(info, j) ==
  \/ {"bitWidth", "characterWidth"} \subseteq DOMAIN j
  \/ /\ "bitWidth" \in DOMAIN j
     /\ \/ j["bitWidth"] <= 0
        \/ j["bitWidth"] % 4 # 0
        \/ info.type \in {"void", "decInt", "string"}
  \/ /\ "characterWidth" \in DOMAIN j
     /\ \/ j["characterWidth"] <= 0
        \/ info.type \in {"void", "binInt", "binFloat", "decFloat"}

\* The width in characters: a nibble of four bits is one.
setFixedWidthFromJson(info, j) ==
  [info EXCEPT !.width =
     CASE "bitWidth" \in DOMAIN j -> {j["bitWidth"] \div 4}
       [] "characterWidth" \in DOMAIN j -> {j["characterWidth"]}
       [] OTHER -> @]

\* Without a key of this level it is 0 for an integer slot of fixed width,
\* whatever an outer level has set.
setFractionalBitsFromJson(info, j) ==
  [info EXCEPT !.fractionalBits =
     IF "fractionalBits" \in DOMAIN j THEN {j["fractionalBits"]}
     ELSE IF info.type \in {"binInt", "hexInt"} /\ info.width # {} THEN {0} ELSE @]

\* Without a key of this level it follows from the type, whatever an outer
\* level has set.
setSignedFromJson(info, j) ==
  [info EXCEPT !.isSigned = getValueOr(j, "signed", info.type \in {"decInt", "decFloat", "binFloat"})]

\* One name stands for every checksum of the pattern, a list names each.
ChecksumNames(j, key, pattern) ==
  CASE key \notin DOMAIN j -> <<>>
    [] key \in DOMAIN j /\ j[key].kind = "array" -> j[key].names
    [] OTHER -> [i \in 1..getNChecksums(pattern) |-> j[key].name]

IsBadChecksumName(j, key, pattern) ==
  /\ key \in DOMAIN j
  /\ \/ j[key].kind = "array" /\ ~(ToSet(j[key].names) \subseteq Checksum)
     \/ j[key].kind = "string" /\ (j[key].name \notin Checksum \/ ~IsValidChecksumPattern(pattern))
     \/ j[key].kind \notin {"array", "string"}

setChecksumsFromJson(info, j) ==
  [info EXCEPT !.commandChecksums = ChecksumNames(j, "cmdChecksum", info.command),
               !.responseChecksums = ChecksumNames(j, "respChecksum", info.response),
               !.payloads = getChecksumPayloadSnippets(info.command)]

-----------------------------------------------------------------------------
(* The constructor from JSON *)

\* Everything but the type, from the register level.
FromRegisterLevel(info, j, defaultDelimiter) ==
  setSignedFromJson(setFractionalBitsFromJson(setFixedWidthFromJson(
    setEndingsFromJson(info, j, {defaultDelimiter}, FALSE), j), j), j)

\* The section sets a command, a response and overrides; a section without a
\* command leaves the rest alone.
populateFromJson(info, j) ==
  LET active == [info EXCEPT !.command = getValueOr(j, "cmd", @)]
      responding == [active EXCEPT !.response = getValueOr(j, "resp", @)]
  IN IF ~isActive(active) THEN active
     ELSE setChecksumsFromJson(setSignedFromJson(setFractionalBitsFromJson(setFixedWidthFromJson(
            setEndingsFromJson(responding, j, {}, "resp" \notin DOMAIN j), j), j), j), j)

IsBadSection(info, j) ==
  \/ throwIfHasInvalidJsonKey(j, mapFileInteractionInfoKeys)
  \/ /\ getValueOr(j, "cmd", <<>>) # <<>>
     /\ \/ IsBadEnding(j, "resp" \notin DOMAIN j)
        \/ IsBadWidth(info, j)
        \/ IsBadChecksumName(j, "cmdChecksum", getValueOr(j, "cmd", <<>>))
        \/ IsBadChecksumName(j, "respChecksum", getValueOr(j, "resp", <<>>))
        \/ ~IsValidChecksumPattern(j["cmd"])

\* The type a section has: its own, or the register's, or the other section's.
TypeOf(own, other, top) ==
  LET Declared(section) ==
        IF \E j \in section : "type" \in DOMAIN j
        THEN {j["type"] : j \in section} ELSE getValueOption(top, "type")
  IN IF Declared(own) # {} THEN Declared(own) ELSE Declared(other)

IsBadNElements(top) ==
  "nElem" \in DOMAIN top /\ (top["nElem"] < 1 \/ top["nElem"] > MaxNElements)

\* What makes the constructor throw before anything is validated: a logic_error.
IsBadJson(reg) ==
  LET types == TypeOf(reg.read, reg.write, reg.top) \cup TypeOf(reg.write, reg.read, reg.top)
      Typed(t) == [InteractionInfo EXCEPT !.type = t]
  IN \/ throwIfHasInvalidJsonKey(reg.top, mapFileRegisterKeys)
     \/ IsBadNElements(reg.top)
     \/ \E j \in {reg.top} \cup reg.read \cup reg.write :
          "type" \in DOMAIN j /\ j["type"] \notin TransportLayerType
     \/ types = {}
     \/ IsBadEnding(reg.top, FALSE)
     \/ \E t \in types : IsBadWidth(Typed(t), reg.top)
     \/ \E j \in reg.read : \E t \in TypeOf(reg.read, reg.write, reg.top) : IsBadSection(Typed(t), j)
     \/ \E j \in reg.write : \E t \in TypeOf(reg.write, reg.read, reg.top) : IsBadSection(Typed(t), j)

\* A response to a read is one line, to a write none, unless a level says otherwise.
Interaction(own, other, top, nLines, defaultDelimiter) ==
  LET typed == [setResponseNLines(InteractionInfo, nLines)
                  EXCEPT !.type = CHOOSE t \in TypeOf(own, other, top) : TRUE]
      info == FromRegisterLevel(typed, top, defaultDelimiter)
  IN IF own = {} THEN info ELSE populateFromJson(info, CHOOSE j \in own : TRUE)

ReadInfo(reg, defaultDelimiter) == Interaction(reg.read, reg.write, reg.top, 1, defaultDelimiter)
WriteInfo(reg, defaultDelimiter) == Interaction(reg.write, reg.read, reg.top, 0, defaultDelimiter)

-----------------------------------------------------------------------------
(* Regular expressions for responses: the number of their capture groups *)

\* getRegexString: the pattern of a value is one capture group, of void nothing.
ValueMarks(info) == IF info.type = "void" THEN 0 ELSE 1

\* All three are filled with the checksums of the command.
IsResponseRenderable(info, nElements) ==
  IsRenderable(info.response, nElements, Len(info.commandChecksums))

ResponseDataMarks(info) ==
  TagCount(info.response, "x") * ValueMarks(info) + TagCount(info.response, "group")

ResponseChecksumMarks(info) ==
  TagCount(info.response, "point") + TagCount(info.response, "group")

ResponseChecksumPayloadMarks(info) ==
  TagCount(info.response, "start") + TagCount(info.response, "group")

-----------------------------------------------------------------------------
(* Validation *)

throwIfBadActivation(readInfo, writeInfo) ==
  \/ ~isActive(readInfo) /\ ~isActive(writeInfo)
  \/ writeInfo.type = "void" /\ (isActive(readInfo) \/ ~isActive(writeInfo))

\* The part before the responses are rendered.
throwIfBadCommands(readInfo, writeInfo) ==
  \/ \E info \in {readInfo, writeInfo} : info.response # <<>> /\ info.command = <<>>
  \/ writeInfo.type = "void" /\ TagCount(writeInfo.command, "x") > 0

throwIfBadReadMarks(readInfo, nElements) ==
  ResponseDataMarks(readInfo) #
    (IF isActive(readInfo) /\ readInfo.type # "void" THEN nElements ELSE 0)

throwIfBadWriteMarks(writeInfo) == ResponseDataMarks(writeInfo) # 0

throwIfBadEndings(info) == usesReadLines(info) /\ info.reading.delimiter = ""

throwIfBadNElements(writeInfo, nElements) ==
  nElements = 0 \/ (writeInfo.type = "void" /\ nElements # 1)

\* Mutant: the limit of decimal integers for all integers.
throwIfBadFixedWidth_OneLimit(info) ==
  /\ isActive(info)
  /\ \/ info.width = {} /\ isBinary(info)
     \/ \E w \in info.width :
          \/ info.type = "void" \/ w = 0
          \/ info.type \in {"binFloat", "decFloat"} /\ w \notin {4, 8, 16}
          \/ w > (IF info.isSigned THEN 19 ELSE 20)

throwIfBadFixedWidth(info) ==
  /\ isActive(info)
  /\ \/ info.width = {} /\ isBinary(info)
     \/ \E w \in info.width :
          \/ info.type = "void" \/ w = 0
          \/ info.type \in {"binFloat", "decFloat"} /\ w \notin {4, 8, 16}
          \/ info.type = "decInt" /\ w > (IF info.isSigned THEN 19 ELSE 20)
          \/ info.type \in {"hexInt", "binInt"} /\ w > 16

throwIfBadFractionalBits(info) ==
  /\ isActive(info)
  /\ \E bits \in info.fractionalBits :
       \/ info.width = {}
       \/ info.type \notin {"binInt", "hexInt"}
       \/ \E w \in info.width : 4 * w < bits + (IF info.isSigned THEN 1 ELSE 0)

throwIfBadSigned(info) == isActive(info) /\ info.isSigned /\ info.type \in {"void", "string"}

\* Mutant: the list of the response's checksums is compared with the command.
throwIfBadChecksum_CommandTwice(info) ==
  \/ getNChecksums(info.response) # Len(info.commandChecksums)
  \/ getNChecksums(info.command) # Len(info.commandChecksums)

\* The tags of both patterns, the two lists of the map file and the groups of
\* the regular expressions: all compared with the number of the command's.
throwIfBadChecksum(info) ==
  LET n == Len(info.commandChecksums) IN
    \/ ~IsBalanced(info.response)
    \/ ~IsValidChecksumPattern(info.response) \/ ~IsValidChecksumPattern(info.command)
    \/ getNChecksums(info.response) # Len(info.responseChecksums)
    \/ getNChecksums(info.command) # n
    \/ ResponseChecksumMarks(info) # n
    \/ ResponseChecksumPayloadMarks(info) # n

-----------------------------------------------------------------------------
(* The data type of the catalogue *)

Integer(bits, isSigned) == [class |-> "integer", bits |-> bits, isSigned |-> isSigned]
Float(bits) == [class |-> "float", bits |-> bits, isSigned |-> TRUE]
NotNumeric(class) == [class |-> class, bits |-> 0, isSigned |-> FALSE]

\* The types with a size code; one bit is Boolean, which has no signed form.
SizedDataTypes ==
  {Integer(bits, isSigned) : bits \in {8, 16, 32, 64}, isSigned \in BOOLEAN} \cup {Integer(1, FALSE)}

getMinBitCountForADataType(minBits) ==
  IF minBits > 32 THEN 64 ELSE Min({bits \in {1, 8, 16, 32} : minBits <= bits})

\* Bits for a decimal number: the logarithm is that of the number of digits.
\* (Widths are at most 20.)
DecimalBits(width, isSigned) ==
  Min({k \in 0..5 : 2^k >= width + 1}) + (IF isSigned THEN 1 ELSE 0)

IntegerType(info) ==
  IF info.width = {} THEN Integer(64, info.isSigned)
  ELSE LET w == CHOOSE w \in info.width : TRUE
           bits == IF info.type = "decInt" THEN DecimalBits(w, info.isSigned) ELSE 4 * w
       IN Integer(getMinBitCountForADataType(bits), info.isSigned)

FloatType(info) ==
  Float(IF \E w \in info.width : w <= (IF info.type = "decFloat" THEN 7 ELSE 8) THEN 32 ELSE 64)

getDataType(info) ==
  CASE info.type \in {"string", "void"} -> NotNumeric(info.type)
    [] info.type \in {"binFloat", "decFloat"} -> FloatType(info)
    [] OTHER -> IntegerType(info)

\* Mutant: the width of the write type.
getReconciledDataTypes_First(a, b) ==
  IF a.class = b.class THEN {[a EXCEPT !.isSigned = @ \/ b.isSigned]} ELSE {}

\* One type for both, or none.
getReconciledDataTypes(a, b) ==
  IF a.class # b.class THEN {}
  ELSE CASE a = b -> {a}
         [] a # b /\ a.class = "integer" ->
              {Integer(Max({a.bits, b.bits}), a.isSigned \/ b.isSigned)}
         [] OTHER -> {Float(64)}

\* The type of the active interactions; none if there is no such type.
DataTypes(readInfo, writeInfo) ==
  IF isActive(readInfo) /\ isActive(writeInfo)
  THEN getReconciledDataTypes(getDataType(writeInfo), getDataType(readInfo))
  ELSE {getDataType(info) : info \in {i \in {readInfo, writeInfo} : isActive(i)}}

-----------------------------------------------------------------------------
(* The whole constructor *)

\* What follows the rendering of the responses in validate() and finalize().
IsBadInfo(readInfo, writeInfo, nElements) ==
  \/ throwIfBadWriteMarks(writeInfo)
  \/ throwIfBadNElements(writeInfo, nElements)
  \/ \E info \in {readInfo, writeInfo} :
       \/ throwIfBadEndings(info)
       \/ throwIfBadFixedWidth(info)
       \/ throwIfBadFractionalBits(info)
       \/ throwIfBadSigned(info)
       \/ throwIfBadChecksum(info)
  \/ ~(DataTypes(readInfo, writeInfo) # {}
       /\ \A d \in DataTypes(readInfo, writeInfo) : d.class = "integer" => d \in SizedDataTypes)

\* Rendering the responses and counting their groups: errors in this order.  A
\* response that cannot be rendered is reported as a runtime_error:
\* injaRenderRegex calls injaRender outside of its try block.
Verdict(readInfo, writeInfo, nElements) ==
  CASE throwIfBadActivation(readInfo, writeInfo) \/ throwIfBadCommands(readInfo, writeInfo) ->
         "logic_error"
    [] OTHER ->
         IF ~IsResponseRenderable(readInfo, nElements) THEN "runtime_error"
         ELSE IF throwIfBadReadMarks(readInfo, nElements) THEN "logic_error"
         ELSE IF ~IsResponseRenderable(writeInfo, nElements) THEN "runtime_error"
         ELSE IF IsBadInfo(readInfo, writeInfo, nElements) THEN "logic_error" ELSE "accepted"

\* A rejected register, or an accepted one with its DataDescriptor.
RegisterInfo(reg, defaultDelimiter) ==
  IF IsBadJson(reg) THEN [verdict |-> "logic_error"]
  ELSE LET readInfo == ReadInfo(reg, defaultDelimiter)
           writeInfo == WriteInfo(reg, defaultDelimiter)
           nElements == getValueOr(reg.top, "nElem", 1)
           verdict == Verdict(readInfo, writeInfo, nElements)
       IN IF verdict # "accepted" THEN [verdict |-> verdict]
          ELSE [verdict |-> "accepted", readInfo |-> readInfo, writeInfo |-> writeInfo,
                nElements |-> nElements,
                dataType |-> CHOOSE d \in DataTypes(readInfo, writeInfo) : TRUE]

=============================================================================
