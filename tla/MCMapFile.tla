------------------------------ MODULE MCMapFile ------------------------------
(***************************************************************************)
(* Map files for TLC: one family for each question, every combination of    *)
(* the keys that the question is about.                                     *)
(***************************************************************************)
EXTENDS MapFile

\* All parts of a JSON object.
Parts(j) == {[key \in keys |-> j[key]] : keys \in SUBSET DOMAIN j}
Optional(keys, j) == {j} \cup {[key \in DOMAIN j \ keys |-> j[key]]}

Reg(top, read, write) == [top |-> top, read |-> read, write |-> write]
File(metadata, registers) ==
  [hasNull |-> FALSE, json |-> [mapFileFormatVersion |-> 2, metadata |-> metadata,
                                registers |-> registers]]
OneRegister(metadata, reg) == File(metadata, <<[path |-> "r", json |-> reg]>>)
NoMetadata == <<>>

T(tag, n) == [tag |-> tag, n |-> n]
Text == T("text", 0)
X(i) == T("x", i)

\* Endings: every combination of keys of a register and of a section, for text
\* and binary interactions.
EndingsOf(suffix, lines, bytes) ==
  [delimiter |-> "d" \o suffix, cmdDelim |-> "c" \o suffix, respDelim |-> "r" \o suffix,
   nRespLines |-> lines, nRespBytes |-> bytes]
ReadBase == [cmd |-> <<Text>>, resp |-> <<X(0)>>]
WriteBase == [cmd |-> <<X(0)>>, resp |-> <<Text>>]

MCEndings ==
  {OneRegister([delimiter |-> "m"], reg) : reg \in
     {Reg(type @@ top, {section @@ ReadBase}, {}) :
        type \in {[type |-> "decInt"], [type |-> "binInt", bitWidth |-> 8]},
        top \in Parts(EndingsOf("1", 2, 3)), section \in Parts(EndingsOf("2", 3, 4))}
     \cup
     {Reg(type @@ top, {}, {section @@ base}) :
        type \in {[type |-> "decInt"], [type |-> "binInt", bitWidth |-> 8]},
        base \in Optional({"resp"}, WriteBase),
        top \in Parts(EndingsOf("1", 2, 3)),
        section \in Parts(EndingsOf("2", 0, 0)) \cup {[nRespLines |-> 1], [nRespBytes |-> -1]}}}

\* Types and widths: read and write with settings of their own.
MCTypeSettings ==
  {[type |-> t] @@ width @@ sign @@ bits :
     t \in TransportLayerType,
     width \in {<<>>, [bitWidth |-> 8], [bitWidth |-> 68], [bitWidth |-> 6],
                [characterWidth |-> 3], [characterWidth |-> 20]},
     sign \in {<<>>, [signed |-> TRUE]},
     bits \in {<<>>, [fractionalBits |-> 8]}}
MCOwnWidths == {<<>>, [bitWidth |-> 4], [bitWidth |-> 16, signed |-> TRUE], [bitWidth |-> 64],
                [characterWidth |-> 8]}

MCTypes ==
  {OneRegister(NoMetadata, Reg(top, {read @@ ReadBase}, {write @@ WriteBase})) :
     top \in MCTypeSettings, read \in MCOwnWidths, write \in MCOwnWidths}
  \cup
  {OneRegister(NoMetadata, Reg(top, {read @@ ReadBase}, {write @@ WriteBase})) :
     top \in {<<>>, [nElem |-> 0], [nElem |-> 2], [nElem |-> 6], [characterWidth |-> 8], [signed |-> TRUE]},
     read \in {<<>>} \cup {[type |-> t] : t \in TransportLayerType \cup {"octal"}},
     write \in {<<>>} \cup {[type |-> t] : t \in TransportLayerType}}
  \cup
  {OneRegister(NoMetadata, Reg([type |-> "void"] @@ top, read, {[cmd |-> cmd]})) :
     top \in {<<>>, [nElem |-> 2], [color |-> 1]},
     cmd \in {<<>>, <<Text>>, <<X(0)>>}, read \in {{}, {<<>>}, {ReadBase}, {[resp |-> <<X(0)>>]}}}

\* Checksums: orders of tags, lists of names, and responses.
MCTagsOf(k) == {T("start", k), T("end", k), T("point", k)}
MCOrders == SetToSeqs(MCTagsOf(0) \cup MCTagsOf(1))
MCTwo == <<T("start", 0), X(0), T("end", 0), T("point", 0), T("start", 1), Text, T("end", 1), T("point", 1)>>
MCOne == SubSeq(MCTwo, 1, 4)
MCNames == {[kind |-> "array", names |-> names] :
              names \in {<<>>, <<"cs8">>, <<"cs8", "cs32">>, <<"md5">>}}
           \cup {[kind |-> "string", name |-> "cs8"], [kind |-> "string", name |-> "md5"], [kind |-> "other"]}
MCEvery == [cmdChecksum |-> [kind |-> "string", name |-> "cs8"],
            respChecksum |-> [kind |-> "string", name |-> "crcccit16"]]

MCChecksums ==
  {OneRegister(NoMetadata, Reg([type |-> "hexInt"], {}, {[cmd |-> cmd, resp |-> resp] @@ MCEvery})) :
     cmd \in MCOrders \cup {InsertAt(order, i, T("point", 1)) :
                              order \in {MCTwo, Tail(MCTwo)} \cup MCOrders, i \in {1, 3, 5}},
     resp \in {Remove(MCTwo, X(0))}}
  \cup
  {OneRegister(NoMetadata, Reg([type |-> "hexInt"], {[cmd |-> cmd, resp |-> resp] @@ names}, {})) :
     cmd \in {<<Text>>, <<T("end", 0)>>, <<T("point", 0), T("start", 0), Text, T("end", 0)>>, MCTwo,
              <<T("start", 0), T("point", 0), T("end", 0)>>, Tail(Tail(MCOne)),
              <<T("start", 1), T("end", 1), T("point", 1)>>},
     resp \in {<<X(0)>>, <<X(1)>>, <<T("group", 0)>>, MCOne, MCTwo, Append(MCOne, T("point", 0)),
               <<X(0), T("end", 0), T("start", 0), T("point", 0)>>},
     names \in {[cmdChecksum |-> c, respChecksum |-> r] : c \in MCNames, r \in MCNames}
               \cup {<<>>, [cmdChecksum |-> [kind |-> "array", names |-> <<"cs8">>]]}}

\* Frames, and files of two registers.
MCGood == Reg([type |-> "decInt"], {ReadBase}, {})
MCBad == Reg([type |-> "decInt"], {[cmd |-> <<Text>>, resp |-> <<X(3)>>]}, {})
MCFrame == File([defaultRecoveryRegister |-> "a"],
                <<[path |-> "a", json |-> MCGood], [path |-> "b", json |-> MCGood]>>)
MCFrames ==
  {[hasNull |-> hasNull, json |-> json] :
     hasNull \in BOOLEAN,
     json \in Parts(MCFrame.json) \cup {MCFrame.json @@ [comment |-> 1],
                                         [MCFrame.json EXCEPT !["mapFileFormatVersion"] = 1],
                                         [MCFrame.json EXCEPT !["metadata"] = [delimiter |-> ""]],
                                         [MCFrame.json EXCEPT !["metadata"] = [baudrate |-> 1]]}}
  \cup {File(NoMetadata, <<[path |-> "a", json |-> first], [path |-> "b", json |-> second]>>) :
          first \in {MCGood, MCBad}, second \in {MCGood, MCBad}}

MCFiles == MCEndings \cup MCTypes \cup MCChecksums \cup MCFrames

\* For responses of a number of bytes, with no delimiter in register or section.
MCByteResponses ==
  {OneRegister(metadata, Reg([type |-> t], read, write)) :
     metadata \in {NoMetadata, [delimiter |-> "m"]}, t \in {"decInt", "hexInt"},
     read \in {{[nRespBytes |-> 4] @@ ReadBase}}, write \in {{}, {[nRespBytes |-> 2] @@ WriteBase}}}

\* For the inheritance from the register to its sections.
MCInheritance ==
  {OneRegister(NoMetadata, Reg([type |-> "hexInt", bitWidth |-> 16] @@ top, {section @@ ReadBase}, {})) :
     top \in Parts([signed |-> TRUE, fractionalBits |-> 4]),
     section \in Parts([signed |-> TRUE, fractionalBits |-> 4])}

=============================================================================
