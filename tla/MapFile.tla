------------------------------- MODULE MapFile -------------------------------
(***************************************************************************)
(* The backend's constructor reads a map file: the checks of its frame, and *)
(* register after register into the catalogue, until the first that is      *)
(* rejected.  What is in the catalogue is what every transfer relies on     *)
(* later without looking again: the properties here are about that.         *)
(*                                                                          *)
(* nlohmann's JSON, and the catalogue's addRegister, are external.          *)
(***************************************************************************)
EXTENDS RegisterInfo

CONSTANTS
  Files,            \* the map files
  StandardDelimiter \* the delimiter of a map file without one

ASSUME DelimiterAssumption == StandardDelimiter # ""

VARIABLES
  file,                    \* the map file; registers is a sequence of [path, json]
  pc,
  todo,                    \* history: how many registers are still to be read
  serialDelimiter,         \* _serialDelimiter
  defaultRecoveryRegister, \* _defaultRecoveryRegister; {} for none
  catalogue                \* _backendCatalogue

vars == <<file, pc, todo, serialDelimiter, defaultRecoveryRegister, catalogue>>

mapFileTopLevelKeys == {"mapFileFormatVersion", "metadata", "registers"}
mapFileMetadataKeys == {"defaultRecoveryRegister", "delimiter"}
requiredMapFileFormatVersion == 2

IsBadFrame(j) ==
  \/ throwIfHasInvalidJsonKey(j, mapFileTopLevelKeys)
  \/ DOMAIN j # mapFileTopLevelKeys
  \/ j["mapFileFormatVersion"] # requiredMapFileFormatVersion
  \/ throwIfHasInvalidJsonKey(j["metadata"], mapFileMetadataKeys)

Init ==
  /\ file \in Files
  /\ pc = "frame"
  /\ todo = 0
  /\ serialDelimiter = ""
  /\ defaultRecoveryRegister = {}
  /\ catalogue = <<>>

\* The constructor throws: there is no backend.
Fail(error) ==
  /\ pc' = error
  /\ UNCHANGED <<file, todo, serialDelimiter, defaultRecoveryRegister, catalogue>>

\* A null character in the file cannot be loaded completely.
ParseFrame ==
  /\ pc = "frame"
  /\ IF file.hasNull \/ IsBadFrame(file.json) THEN Fail("logic_error")
     ELSE LET metadata == file.json["metadata"] IN
            /\ serialDelimiter' = getValueOr(metadata, "delimiter", StandardDelimiter)
            /\ defaultRecoveryRegister' = getValueOption(metadata, "defaultRecoveryRegister")
            /\ todo' = Len(file.json["registers"])
            /\ pc' = "registers"
            /\ UNCHANGED <<file, catalogue>>

AddRegister ==
  /\ pc = "registers"
  /\ todo > 0
  /\ LET registers == file.json["registers"]
         next == registers[Len(registers) - todo + 1]
         info == RegisterInfo(next.json, serialDelimiter)
     IN IF info.verdict # "accepted" THEN Fail(info.verdict)
        ELSE /\ catalogue' = [path \in DOMAIN catalogue \cup {next.path} |->
                              IF path = next.path THEN info ELSE catalogue[path]]
             /\ todo' = todo - 1
             /\ UNCHANGED <<file, pc, serialDelimiter, defaultRecoveryRegister>>

Finish ==
  /\ pc = "registers"
  /\ todo = 0
  /\ pc' = "constructed"
  /\ UNCHANGED <<file, todo, serialDelimiter, defaultRecoveryRegister, catalogue>>

Next == ParseFrame \/ AddRegister \/ Finish

Spec == Init /\ [][Next]_vars

-----------------------------------------------------------------------------
(* Properties of the catalogue *)

DataType == SizedDataTypes \cup {Float(32), Float(64), NotNumeric("string"), NotNumeric("void")}

TypeOK ==
  /\ pc \in {"frame", "registers", "constructed", "logic_error", "runtime_error"}
  /\ todo \in Nat
  /\ \A path \in DOMAIN catalogue :
       /\ catalogue[path].dataType \in DataType
       /\ \A info \in {catalogue[path].readInfo, catalogue[path].writeInfo} :
            /\ info.type \in TransportLayerType
            /\ info.reading.lines \in BOOLEAN /\ info.reading.n \in Nat
            /\ isActive(info) /\ catalogue[path].dataType.class = "integer"
                 => info.width \subseteq 1..(IF info.type = "decInt" THEN 20 ELSE 16)
            /\ {info.command, info.response} \subseteq Seq(Token)
            /\ ToSet(info.commandChecksums) \cup ToSet(info.responseChecksums) \subseteq Checksum

\* What the map file says about an accepted register.
Source(path) ==
  (CHOOSE r \in ToSet(file.json["registers"]) : r.path = path).json

\* The active interactions of the catalogue, each with its section.
ActiveInteractions ==
  UNION {LET reg == Source(path) IN
           {[info |-> catalogue[path].readInfo, section |-> j, top |-> reg.top, lines |-> 1,
             path |-> path] : j \in reg.read}
           \cup
           {[info |-> catalogue[path].writeInfo, section |-> j, top |-> reg.top, lines |-> 0,
             path |-> path] : j \in reg.write}
         : path \in DOMAIN catalogue}

Active == {a \in ActiveInteractions : isActive(a.info)}

\* The value of the first of several [level, key] that is there.
Innermost(candidates, default) ==
  LET found == {i \in DOMAIN candidates : candidates[i].key \in DOMAIN candidates[i].level}
  IN IF found = {} THEN default
     ELSE LET c == candidates[Min(found)] IN c.level[c.key]

At(level, key) == [level |-> level, key |-> key]

\* Does the section itself say how a command ends?
SetsCommandDelimiter(a) == {"delimiter", "cmdDelim"} \cap DOMAIN a.section # {}

\* Of the delimiters that the section, the register and the map file set for
\* a text interaction the innermost one holds, that for the direction before
\* that for both, whatever was set and destroyed in between; a binary
\* interaction never has the map file's.  (How the command ends where a number
\* of bytes is asked for, but no delimiter with it: see BytesNeedNoDelimiter.)
DelimitersAreInnermost ==
  \A a \in Active :
    LET Expected(key) ==
          Innermost(<<At(a.section, key), At(a.section, "delimiter"),
                      At(a.top, key), At(a.top, "delimiter")>>, serialDelimiter)
    IN IF ~isBinary(a.info)
       THEN /\ SetsCommandDelimiter(a) \/ "nRespBytes" \notin DOMAIN a.section \cup DOMAIN a.top
                 => a.info.cmdLineDelimiter = Expected("cmdDelim")
            /\ usesReadLines(a.info) => a.info.reading.delimiter = Expected("respDelim")
       ELSE {"delimiter", "cmdDelim", "respDelim"} \cap (DOMAIN a.section \cup DOMAIN a.top) = {}
              => a.info.cmdLineDelimiter = "" /\ usesReadBytes(a.info)

\* "Setting N_RESPONSE_BYTES turns the interaction to binary mode, there is no
\* response delimiter, and the interaction's COMMAND_DELIMITER defaults to "",
\* overriding the metadata and register delimiter, unless DELIMITER or
\* COMMAND_DELIMITER is explicitly set."
BytesNeedNoDelimiter ==
  \A a \in Active :
    "nRespBytes" \in DOMAIN a.section /\ ~SetsCommandDelimiter(a)
      => a.info.cmdLineDelimiter = ""

\* How much of a response is waited for: nothing without a response pattern;
\* else what the innermost level says, and one line for a read where nothing is
\* said.  (A level that sets a delimiter after an outer one has set nRespBytes
\* is left out: nothing is read then.)
ReadsWhatIsDeclared ==
  \A a \in {b \in Active : ~isBinary(b.info)} :
    LET lines == Innermost(<<At(a.section, "nRespLines"), At(a.top, "nRespLines")>>, a.lines)
        endings == {"delimiter", "respDelim", "nRespLines", "nRespBytes"}
    IN CASE "resp" \notin DOMAIN a.section -> a.info.reading.n = 0
         [] "resp" \in DOMAIN a.section /\ "nRespBytes" \notin DOMAIN a.section \cup DOMAIN a.top ->
              usesReadLines(a.info) /\ a.info.reading.n = lines
         [] "resp" \in DOMAIN a.section /\ "nRespBytes" \in DOMAIN a.section ->
              usesReadBytes(a.info) /\ a.info.reading.n = a.section["nRespBytes"]
         [] OTHER -> DOMAIN a.section \cap endings = {}
                       => usesReadBytes(a.info) /\ a.info.reading.n = a.top["nRespBytes"]

\* doPreWrite finds a value for every tag of a payload when it renders it: no
\* payload has a tag of a checksum that is computed later.  (For patterns in
\* which no tag is repeated: of repeated ones only the last is validated.)
PayloadsComeInOrder ==
  \A a \in Active :
    ~HasRepeatedTags(a.info.command)
    /\ IsRenderable(a.info.command, catalogue[a.path].nElements, Len(a.info.commandChecksums))
      => ArePayloadsRenderable(a.info.payloads, catalogue[a.path].nElements)

\* The lists that the accessor walks through in parallel are long enough:
\* payloads for all checksums of a command, capture groups for all checksums of
\* a response and for all elements, though the expressions are made from the
\* command's list.
ChecksumListsAgree ==
  \A a \in Active :
    /\ Len(a.info.payloads) >= Len(a.info.commandChecksums)
    /\ ResponseChecksumMarks(a.info) >= Len(a.info.responseChecksums)
    /\ ResponseChecksumPayloadMarks(a.info) >= Len(a.info.responseChecksums)

\* The catalogue's integer type is the narrowest that is as wide as both
\* slots of fixed width, and signed if one of them is.
DataTypeHoldsBoth ==
  \A path \in DOMAIN catalogue :
    LET d == catalogue[path].dataType
        slots == {info \in {catalogue[path].readInfo, catalogue[path].writeInfo} :
                    isActive(info) /\ info.type \in {"hexInt", "binInt"} /\ info.width # {}}
        all == {info \in {catalogue[path].readInfo, catalogue[path].writeInfo} : isActive(info)}
        Fits(bits) == \A info \in slots : \A w \in info.width : 4 * w <= bits
    IN slots # {} /\ slots = all =>
         /\ d.class = "integer"
         /\ d.isSigned <=> \E info \in slots : info.isSigned
         /\ d.bits = Min({bits \in {8, 16, 32, 64} : Fits(bits)})

\* "Unless specified, items set at the Register level automatically set values at
\* the InteractionInfo level": the sign and the fractional bits.
RegisterLevelIsInherited ==
  \A a \in Active :
    /\ "signed" \in DOMAIN a.top /\ "signed" \notin DOMAIN a.section
         => a.info.isSigned = a.top["signed"]
    /\ "fractionalBits" \in DOMAIN a.top /\ "fractionalBits" \notin DOMAIN a.section
         => a.info.fractionalBits = {a.top["fractionalBits"]}

=============================================================================
