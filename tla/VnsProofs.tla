------------------------------ MODULE VnsProofs ------------------------------
(* Proofs about VnsSession, for every set of interfaces, table and server.  *)
EXTENDS VnsSession, Sha1Proofs, SequenceTheorems, TLAPS

\* The inductive invariant.  The hardware information is handled and counts only in the
\* loop, where the routing table is not loaded again and the interface list only grows.
VInv ==
    /\ TypeOK
    /\ OpenedAuthenticated
    /\ hw # NoHw => phase = "loop" /\ ~body
    /\ ready =>
          /\ phase \in {"loop", "ended", "aborted"}
          /\ routing_table # {} /\ routing_table \subseteq Names(if_list)

-----------------------------------------------------------------------------
(* The interface list.                                                     *)

\* The least of a set of places is one of them: the loop of sr_get_interface stops
\* at the first interface of the name if the list has one.
IsFirst(list, n, i) ==
    /\ i \in 1 .. Len(list) /\ list[i].name = n
    /\ \A k \in 1 .. Len(list) : list[k].name = n => i =< k

LEMMA FirstFound ==
    ASSUME NEW list \in Seq(Interface), NEW n \in Names(list)
    PROVE  \E i : IsFirst(list, n, i) /\ First(list, n) = list[i]
<1> DEFINE Places == {i \in DOMAIN list : list[i].name = n}
<1>1. Places \subseteq Nat /\ Places \subseteq DOMAIN list
  BY LenProperties
<1>2. Places # {}
  BY DEF Names
<1>3. PICK x \in Places : \A y \in Places : x =< y
  <2> HIDE DEF Places
  <2> QED BY <1>1, <1>2, LeastOne
<1>4. Min(Places) \in Places /\ \A y \in Places : Min(Places) =< y
  <2> HIDE DEF Places
  <2> QED BY <1>3 DEF Min
<1>5. IsFirst(list, n, Min(Places))
  BY <1>4, LenProperties DEF IsFirst
<1> QED BY <1>5 DEF First

LEMMA FirstIsInterface ==
    ASSUME NEW list \in Seq(Interface), NEW n \in Names(list)
    PROVE  First(list, n) \in Interface
BY FirstFound, ElementOfSeq DEF IsFirst

\* An interface that the list has stays in it when one is appended.
LEMMA NamesOfAppend ==
    ASSUME NEW list \in Seq(Interface), NEW f \in Interface
    PROVE  Names(list) \subseteq Names(Append(list, f))
<1> SUFFICES ASSUME NEW i \in 1 .. Len(list)
             PROVE  list[i].name \in Names(Append(list, f))
  BY LenProperties DEF Names
<1>1. Append(list, f)[i] = list[i] /\ i \in DOMAIN Append(list, f)
  BY AppendProperties, LenProperties
<1> QED BY <1>1 DEF Names

\* Setting an address changes neither the type of the list nor a name in it.
LEMMA SetLastKeeps ==
    ASSUME if_list \in Seq(Interface), NEW field \in {"addr", "ip"}, NEW x,
           field = "addr" => x \in Ethers, field = "ip" => x \in IPs,
           SetLast(field, x)
    PROVE  if_list' \in Seq(Interface) /\ Names(if_list) \subseteq Names(if_list')
<1> DEFINE n == Len(if_list)
           set == [if_list[n] EXCEPT ![field] = x]
<1>1. if_list' = [if_list EXCEPT ![n] = set]
  BY DEF SetLast
<1>2. n \in Nat /\ DOMAIN if_list = 1 .. n /\ if_list \in [1 .. n -> Interface]
  BY LenProperties
<1>3. CASE n = 0
  <2>1. if_list' = if_list
    BY <1>1, <1>2, <1>3
  <2> QED BY <2>1
<1>4. CASE n # 0
  <2>1. n \in 1 .. n /\ if_list[n] \in Interface
    BY <1>2, <1>4
  <2>2. set \in Interface /\ set.name = if_list[n].name
    <3>1. CASE field = "addr"
      BY <2>1, <3>1 DEF Interface
    <3>2. CASE field = "ip"
      BY <2>1, <3>2 DEF Interface
    <3> QED BY <3>1, <3>2
  <2> HIDE DEF set
  <2>3. if_list' \in Seq(Interface) /\ DOMAIN if_list' = 1 .. n
    BY <1>1, <1>2, <2>1, <2>2, ExceptSeq
  <2>4. \A i \in 1 .. n : if_list'[i].name = if_list[i].name
    BY <1>1, <1>2, <2>1, <2>2
  <2> QED BY <1>2, <2>3, <2>4 DEF Names
<1> QED BY <1>3, <1>4

-----------------------------------------------------------------------------
(* The session.                                                            *)

\* The session starts before the connection, with nothing verified.
LEMMA VInvInit == Init => VInv
<1> SUFFICES ASSUME Init PROVE VInv
  OBVIOUS
<1>1. \A S : << >> \in Seq(S)
  BY EmptySeq
<1>2. 0 \in 0 .. MaxCommands
  BY SessionAssumption
<1>3. if_list \in Seq(Interface) /\ stream \in Seq(Command \cup {LengthPart, TooLong, TooShort})
  BY <1>1 DEF Init
<1>4. files \in [TableNames -> Contents]
  <2>1. Tables \cup {Missing} \subseteq Contents
    BY SessionAssumption DEF Contents
  <2> QED BY <2>1 DEF Init
<1>5. TypeOK
  BY <1>2, <1>3, <1>4 DEF Init, TypeOK, Phases
<1> QED BY <1>5 DEF Init, VInv, OpenedAuthenticated

\* One entry of the hardware information changes the interface list only, and no name
\* that is in it.
LEMMA VInvHwEntry ==
    ASSUME VInv, HwEntry
    PROVE  VInv'
<1> USE DEF VInv
<1>1. hw \in Seq(HwKeys) /\ hw # << >>
  BY DEF HwEntry, TypeOK
<1>2. Head(hw) \in HwKeys /\ hw' \in Seq(HwKeys)
  BY <1>1, HeadTailProperties DEF HwEntry
<1>3. if_list' \in Seq(Interface) /\ Names(if_list) \subseteq Names(if_list')
  <2> DEFINE key == Head(hw)[1]  value == Head(hw)[2]
  <2>1. CASE key = "interface" /\ if_list' = Append(if_list, [name |-> value, addr |-> Unset, ip |-> Unset])
    <3>1. value \in Ifaces
      BY <1>2, <2>1 DEF HwKeys
    <3>2. [name |-> value, addr |-> Unset, ip |-> Unset] \in Interface
      BY <3>1 DEF Interface
    <3> QED BY <2>1, <3>2, AppendProperties, NamesOfAppend DEF TypeOK
  <2>2. CASE key = "ether" /\ SetLast("addr", value)
    <3>1. value \in Ethers
      BY <1>2, <2>2 DEF HwKeys
    <3> QED BY <2>2, <3>1, SetLastKeeps DEF TypeOK
  <2>3. CASE key = "ip" /\ SetLast("ip", value)
    <3>1. value \in IPs
      BY <1>2, <2>3 DEF HwKeys
    <3> QED BY <2>3, <3>1, SetLastKeeps DEF TypeOK
  <2> QED BY <2>1, <2>2, <2>3 DEF HwEntry
<1>4. UNCHANGED <<options, tables, phase, body, ready, answered, accepted, stream, server>>
  BY DEF HwEntry
<1>5. TypeOK'
  BY <1>2, <1>3, <1>4 DEF TypeOK, options, tables, server
<1> QED BY <1>3, <1>4, <1>5 DEF OpenedAuthenticated, HwEntry, tables

\* At the end of the hardware information the program is ready or ends.
LEMMA VInvHwDone ==
    ASSUME VInv, HwDone
    PROVE  VInv'
<1>1. phase = "loop" /\ NoHw # << >>
  BY HwAssumption, EmptySeq DEF HwDone, VInv
<1>2. UNCHANGED <<options, tables, body, if_list, answered, accepted, stream, server>> /\ hw' = NoHw
  BY DEF HwDone
<1>3. \/ TableVerified(Names(if_list)) /\ ready' = TRUE /\ phase' = "loop"
      \/ phase' = "ended" /\ ready' = ready
  BY <1>1 DEF HwDone, Proceed, Leave, Goto, Opened
<1>4. TypeOK'
  BY <1>2, <1>3 DEF VInv, TypeOK, options, tables, server, Phases
<1> QED BY <1>1, <1>2, <1>3, <1>4 DEF VInv, OpenedAuthenticated, TableVerified, tables

\* What a handler that goes on does to the phase.
LEMMA Proceeding ==
    ASSUME VInv, phase \in Reading, Proceed
    PROVE  /\ phase' \in Phases
           /\ phase = "auth_request" => phase' = "auth_status"
           /\ phase = "rtable" => phase' = "load"
           /\ phase = "loop" => phase' = "loop"
BY DEF Proceed, Opened, Goto, Phases, Reading

\* A file that a table was written to can be read, though perhaps not as a table.
LEMMA WrittenContents ==
    ASSUME NEW table \in Tables
    PROVE  Written(table) \subseteq Contents
BY SessionAssumption DEF Written, Contents

\* What is read as a routing table is a command with one.
LEMMA ReadIsCommand ==
    ASSUME TypeOK, stream # << >>, Head(stream).type = "rtable"
    PROVE  Head(stream).file \in Served /\ Head(stream).table \in Tables
<1>1. Head(stream) \in Command \cup {LengthPart, TooLong, TooShort}
  BY HeadTailProperties DEF TypeOK
<1> QED BY <1>1 DEF Command, LengthPart, TooLong, TooShort

\* A command that is handled is one that was waited for.
LEMMA VInvReadBody ==
    ASSUME VInv, ReadBody
    PROVE  VInv'
<1> DEFINE c == Head(stream)
<1>1. phase \in Reading /\ body /\ stream # << >>
  BY DEF ReadBody
<1>2. c \in Command \cup {LengthPart, TooLong, TooShort} /\ stream' \in Seq(Command \cup {LengthPart, TooLong, TooShort})
  BY <1>1, HeadTailProperties DEF ReadBody, VInv, TypeOK
<1>3. body' \in BOOLEAN /\ UNCHANGED <<options, server>>
  BY DEF ReadBody
<1>4. hw = NoHw
  BY <1>1 DEF VInv
<1>5. ASSUME UNCHANGED <<routing_table, if_list, ready>>,
             hw' \in Seq(HwKeys) \cup {NoHw},
             files' \in [TableNames -> Contents],
             received' \in (Served \X Tables) \cup {<< >>},
             answered' \subseteq Ifaces \X IPs \X (Ethers \cup {Unset}),
             accepted' \in BOOLEAN, accepted => accepted',
             phase' \in Phases,
             hw' # NoHw \/ phase = "loop" => phase' \in {"loop", "ended", "aborted"},
             hw' # NoHw => phase' = "loop",
             phase' \in {"rtable", "load", "loop"} =>
                accepted' \/ phase \in {"rtable", "load", "loop"}
      PROVE  VInv'
  <2>1. TypeOK'
    BY <1>2, <1>3, <1>5 DEF VInv, TypeOK, options, server
  <2>2. OpenedAuthenticated'
    BY <1>5 DEF VInv, OpenedAuthenticated
  <2>3. hw' # NoHw => phase' = "loop" /\ ~body'
    BY <1>5 DEF ReadBody
  <2>4. ready' => /\ phase' \in {"loop", "ended", "aborted"}
                  /\ routing_table' # {} /\ routing_table' \subseteq Names(if_list')
    BY <1>1, <1>5 DEF VInv, Reading
  <2> QED BY <2>1, <2>2, <2>3, <2>4 DEF VInv
<1> USE DEF tables, interfaces
<1>6. CASE Leave /\ UNCHANGED <<routing_table, interfaces, answered, accepted>>
           /\ files' \in [TableNames -> Contents] /\ received' \in (Served \X Tables) \cup {<< >>}
  <2>1. phase' = "ended"
    BY <1>6 DEF Leave, Goto
  <2> QED BY <1>4, <1>5, <1>6, <2>1 DEF VInv, TypeOK, Phases
<1>7. CASE Expected(c) /\ c.type = "hwinfo" /\ HandleHwinfo(c)
  <2>1. phase = "loop" /\ phase' = "loop"
    BY <1>1, <1>7 DEF Expected, Reading, HandleHwinfo
  <2>2. c.entries \in Seq(HwKeys)
    BY <1>2, <1>7, HwAssumption DEF Command, LengthPart, TooLong, TooShort
  <2> QED BY <1>5, <1>7, <2>1, <2>2 DEF HandleHwinfo, VInv, TypeOK, Phases
<1>8. CASE Expected(c) /\ c.type = "rtable" /\ HandleRtable(c)
  <2>1. c.file \in Served /\ c.table \in Tables
    BY <1>1, <1>8, ReadIsCommand DEF VInv
  <2>2. /\ files' \in [TableNames -> Contents] /\ received' \in (Served \X Tables) \cup {<< >>}
        /\ UNCHANGED <<routing_table, interfaces, answered, accepted>>
    <3>1. /\ received' = <<c.file, c.table>> /\ UNCHANGED <<routing_table, interfaces, answered, accepted>>
          /\ (\E t \in Written(c.table) : files' = WithFile(c.file, t)) \/ UNCHANGED files
      BY <1>8 DEF HandleRtable
    <3>2. \A t \in Written(c.table) : WithFile(c.file, t) \in [TableNames -> Contents]
      <4> SUFFICES ASSUME NEW t \in Written(c.table)
                   PROVE  WithFile(c.file, t) \in [TableNames -> Contents]
        OBVIOUS
      <4>1. t \in Contents
        BY <2>1, WrittenContents
      <4> QED BY <4>1 DEF WithFile, VInv, TypeOK
    <3> QED BY <2>1, <3>1, <3>2 DEF VInv, TypeOK
  <2>3. CASE Leave
    BY <1>6, <2>2, <2>3
  <2>4. CASE Proceed
    <3>1. phase \in {"rtable", "loop"}
      BY <1>1, <1>8 DEF Expected, Reading
    <3>2. phase' \in Phases /\ phase' = (IF phase = "loop" THEN "loop" ELSE "load")
      BY <1>1, <2>4, <3>1, Proceeding
    <3> QED BY <1>4, <1>5, <2>2, <3>1, <3>2 DEF VInv, TypeOK
  <2> QED BY <1>8, <2>3, <2>4 DEF HandleRtable
<1>9. CASE Expected(c) /\ c.type \in {"auth_request", "auth_ok", "auth_failed"} /\ HandleAuth(c)
  <2>1. UNCHANGED <<tables, interfaces, answered>>
    BY <1>9 DEF HandleAuth
  <2>2. CASE Leave /\ UNCHANGED accepted
    BY <1>6, <2>1, <2>2 DEF VInv, TypeOK
  <2>3. CASE Proceed /\ c.type = "auth_request" /\ UNCHANGED accepted
    <3>1. phase \in {"auth_request", "loop"}
      BY <1>1, <1>9, <2>3 DEF Expected, Reading
    <3>2. phase' \in Phases /\ phase' = (IF phase = "loop" THEN "loop" ELSE "auth_status")
      BY <1>1, <2>3, <3>1, Proceeding
    <3> QED BY <1>4, <1>5, <2>1, <2>3, <3>1, <3>2 DEF VInv, TypeOK
  <2>4. CASE Proceed /\ accepted' = TRUE
    <3>1. phase' \in Phases /\ (phase = "loop" => phase' = "loop")
      BY <1>1, <2>4, Proceeding
    <3> QED BY <1>4, <1>5, <2>1, <2>4, <3>1 DEF VInv, TypeOK
  <2> QED BY <1>9, <2>2, <2>3, <2>4 DEF HandleAuth
<1>10. CASE Expected(c) /\ c.type = "packet" /\ HandlePacket(c)
  <2>1. phase = "loop"
    BY <1>1, <1>10 DEF Expected, Reading
  <2>2. phase' \in {"loop", "aborted"}
    BY <1>1, <1>10, <2>1, Proceeding DEF HandlePacket, Goto
  <2>3. answered' \subseteq Ifaces \X IPs \X (Ethers \cup {Unset})
    <3>1. CASE c.iface \in Names(if_list)
      <4> DEFINE f == First(if_list, c.iface)
      <4>1. f \in Interface
        BY <3>1, FirstIsInterface DEF VInv, TypeOK
      <4>2. c.tip \in IPs \cup {NoIp}
        BY <1>2, <1>10 DEF Command, LengthPart, TooLong, TooShort
      <4>3. c.tip = f.ip => <<f.name, f.ip, f.addr>> \in Ifaces \X IPs \X (Ethers \cup {Unset})
        <5> HIDE DEF f
        <5> QED BY <4>1, <4>2, HwAssumption DEF Interface
      <4>4. answered' = IF c.tip = f.ip THEN answered \cup {<<f.name, f.ip, f.addr>>} ELSE answered
        BY <1>10, <3>1 DEF HandlePacket
      <4> HIDE DEF f
      <4> QED BY <4>3, <4>4 DEF VInv, TypeOK
    <3>2. CASE c.iface \notin Names(if_list)
      BY <1>10, <3>2 DEF HandlePacket, VInv, TypeOK
    <3> QED BY <3>1, <3>2
  <2> QED BY <1>4, <1>5, <1>10, <2>1, <2>2, <2>3 DEF HandlePacket, VInv, TypeOK, Phases
<1>11. CASE Expected(c) /\ c.type = "other" /\ HandleOther
  <2>1. phase = "loop" /\ phase' = "loop"
    BY <1>1, <1>11, Proceeding DEF Expected, Reading, HandleOther
  <2> QED BY <1>4, <1>5, <1>11, <2>1 DEF HandleOther, VInv, TypeOK, Phases
<1>12. CASE Reject \/ HandleClose
  BY <1>6, <1>12 DEF Reject, HandleClose, VInv, TypeOK
<1>13. CASE Expected(c) /\ Dispatch(c)
  BY <1>7, <1>8, <1>9, <1>10, <1>11, <1>12, <1>13 DEF Dispatch
<1> QED BY <1>12, <1>13 DEF ReadBody

\* The table is loaded before the hardware information is known.
LEMMA VInvLoad ==
    ASSUME VInv, Start \/ Load
    PROVE  VInv'
<1>1. hw' = NoHw /\ ready' = FALSE
  BY DEF VInv, TypeOK, Start, Load, interfaces
<1>2. /\ phase' \in {"ended", "auth_request", "loop"}
      /\ phase' = "loop" => phase = "load"
  BY DEF Start, Load, LoadTable
<1>3. routing_table' \subseteq Ifaces
  <2>1. files[rtable] \in (SUBSET Ifaces) \cup {Bad, Missing}
    BY DEF VInv, TypeOK, Contents
  <2> QED BY <2>1 DEF Start, Load, LoadTable, VInv, TypeOK
<1>4. UNCHANGED <<options, files, received, body, interfaces, answered, accepted, stream, server>>
  BY DEF Start, Load
<1>5. TypeOK'
  BY <1>2, <1>3, <1>4 DEF VInv, TypeOK, interfaces, options, server, Phases
<1> QED BY <1>1, <1>2, <1>4, <1>5 DEF VInv, OpenedAuthenticated

\* Every step keeps the invariant.
LEMMA VInvStep == VInv /\ [Next]_vars => VInv'
<1> SUFFICES ASSUME VInv, [Next]_vars PROVE VInv'
  OBVIOUS
<1> USE DEF options, server, tables, interfaces
<1>1. CASE ReadLength
  <2>1. stream' \in Seq(Command \cup {LengthPart, TooLong, TooShort})
    BY <1>1, HeadTailProperties DEF ReadLength, VInv, TypeOK
  <2>2. hw' = NoHw /\ phase' \in {phase, "ended", "aborted"} /\ body' \in BOOLEAN
    BY <1>1 DEF ReadLength, Unknown, Leave, Goto, VInv, TypeOK
  <2>3. UNCHANGED <<options, tables, interfaces, answered, accepted, server>>
    BY <1>1 DEF ReadLength
  <2>4. TypeOK'
    BY <2>1, <2>2, <2>3 DEF VInv, TypeOK, Phases
  <2> QED BY <2>2, <2>3, <2>4 DEF VInv, OpenedAuthenticated
<1>2. CASE ReadFails
  <2>1. hw' = NoHw /\ phase' = "ended"
    BY <1>2 DEF ReadFails, Leave, Goto
  <2>2. UNCHANGED <<options, tables, body, interfaces, answered, accepted, stream, server>>
    BY <1>2 DEF ReadFails
  <2>3. TypeOK'
    BY <2>1, <2>2 DEF VInv, TypeOK, Phases
  <2> QED BY <2>1, <2>2, <2>3 DEF VInv, OpenedAuthenticated
<1>3. CASE UNCHANGED vars
  BY <1>3 DEF vars, VInv, TypeOK, OpenedAuthenticated
<1>4. CASE Disconnect
  BY <1>4 DEF Disconnect, VInv, TypeOK, OpenedAuthenticated
<1>5. ASSUME NEW c \in Command, Send(c) PROVE VInv'
  <2> DEFINE Part == Command \cup {LengthPart, TooLong, TooShort}
  <2>1. stream' \in Seq(Part)
    <3>1. stream \in Seq(Part) /\ <<LengthPart, c>> \in Seq(Part) /\ LengthPart \in Part
          /\ TooLong \in Part /\ TooShort \in Part
      BY <1>5 DEF VInv, TypeOK
    <3>2. \/ stream' = stream \o <<LengthPart, c>>
          \/ \E part \in {LengthPart, TooLong, TooShort} : stream' = Append(stream, part)
      BY <1>5 DEF Send
    <3> HIDE DEF Part
    <3>3. stream \o <<LengthPart, c>> \in Seq(Part)
      BY <3>1, ConcatProperties
    <3>4. \A part \in {LengthPart, TooLong, TooShort} : Append(stream, part) \in Seq(Part)
      BY <3>1, AppendProperties
    <3> QED BY <3>2, <3>3, <3>4
  <2>2. sent' \in 0 .. MaxCommands /\ conn' \in {"open", "closed", "reset"}
    BY <1>5, SessionAssumption DEF Send, VInv, TypeOK
  <2>3. UNCHANGED <<options, tables, phase, body, interfaces, answered, accepted>>
    BY <1>5 DEF Send
  <2>4. TypeOK'
    BY <2>1, <2>2, <2>3 DEF VInv, TypeOK
  <2> QED BY <2>3, <2>4 DEF VInv, OpenedAuthenticated
<1> QED
  BY <1>1, <1>2, <1>3, <1>4, <1>5, VInvReadBody, VInvLoad, VInvHwEntry, VInvHwDone
  DEF Next, Router, ReadNothing, Over

\* What holds of the session whatever the server sends.
LEMMA SessionInvariance == Spec => []VInv
BY VInvInit, VInvStep, PTL DEF Spec

\* Every variable of the session keeps its type, whatever the server sends.
THEOREM SessionTypes == Spec => []TypeOK
<1>1. VInv => TypeOK
  BY DEF VInv
<1> QED BY <1>1, SessionInvariance, PTL

\* No topology is opened before the server accepted the router's credentials.
THEOREM OpenedOnlyAuthenticated == Spec => []OpenedAuthenticated
<1>1. VInv => OpenedAuthenticated
  BY DEF VInv
<1> QED BY <1>1, SessionInvariance, PTL

\* Once the router is ready, every route leads out of an interface it has.
THEOREM TableStaysConsistent == Spec => []TableConsistent
<1>1. VInv => TableConsistent
  BY DEF VInv, TableConsistent
<1> QED BY <1>1, SessionInvariance, PTL

-----------------------------------------------------------------------------
(* The routing table of a session with -T.                                 *)

\* The file the server named has what was written of the last table from the server.
ServedWritten ==
    /\ received \in Served \X Tables
    /\ received[1] \in TableNames => files[received[1]] \in Written(received[2])

\* Up to the loop the table in use is empty; once the server's table was handled, it is
\* in its file, as far as the write went.
Opening == {"start", "auth_request", "auth_status", "rtable", "load"}
ServedInv ==
    /\ VInv
    /\ template /\ phase \in Opening => routing_table = {}
    /\ template /\ phase = "load" => ServedWritten

\* What a handler of the session's opening does, where the loop is not reached.
LEMMA OpeningStep ==
    ASSUME VInv, ReadBody, template, phase' \in Opening
    PROVE  /\ phase \in Opening
           /\ UNCHANGED routing_table
           /\ phase' = "load" => ServedWritten'
<1> DEFINE c == Head(stream)
<1>1. phase \in Reading /\ body /\ hw = NoHw
  BY DEF ReadBody, VInv
<1>2. phase # "loop" => phase \in Opening
  BY <1>1 DEF Reading, Opening
<1>3. CASE Reject \/ HandleClose
  BY <1>3 DEF Reject, HandleClose, Leave, Goto, Opening
<1> USE DEF tables
<1>4. CASE Expected(c) /\ c.type = "hwinfo" /\ HandleHwinfo(c)
  BY <1>1, <1>4 DEF Expected, Reading, HandleHwinfo, Opening
<1>5. CASE Expected(c) /\ c.type = "rtable" /\ HandleRtable(c)
  <2>1. /\ Proceed /\ received' = <<c.file, c.table>>
        /\ \E t \in Written(c.table) : files' = WithFile(c.file, t)
    BY <1>5 DEF HandleRtable, Leave, Goto, Opening
  <2>2. phase # "loop"
    BY <1>1, <2>1, Proceeding DEF Opening
  <2>3. ServedWritten'
    <3>1. c.file \in Served /\ c.table \in Tables
      BY <1>5, ReadIsCommand DEF VInv, ReadBody
    <3>2. PICK t \in Written(c.table) : files' = WithFile(c.file, t)
      BY <2>1
    <3>3. c.file \in TableNames => files'[c.file] = t
      BY <3>2 DEF WithFile
    <3> QED BY <2>1, <3>1, <3>3 DEF ServedWritten
  <2> QED BY <1>2, <1>5, <2>2, <2>3 DEF HandleRtable
<1>6. CASE Expected(c) /\ c.type \in {"auth_request", "auth_ok", "auth_failed"} /\ HandleAuth(c)
  <2>1. Proceed
    BY <1>6 DEF HandleAuth, Leave, Goto, Opening
  <2>2. phase # "loop"
    BY <1>1, <2>1, Proceeding DEF Opening
  <2>3. phase \in {"auth_request", "auth_status"}
    BY <1>1, <1>6, <2>2 DEF Expected, Reading
  <2>4. phase' # "load"
    BY <2>1, <2>3 DEF Proceed, Opened, Goto
  <2> QED BY <1>2, <1>6, <2>2, <2>4 DEF HandleAuth
<1>7. CASE Expected(c) /\ c.type = "packet" /\ HandlePacket(c)
  <2>1. phase = "loop"
    BY <1>1, <1>7 DEF Expected, Reading
  <2> QED BY <1>1, <1>7, <2>1, Proceeding DEF HandlePacket, Goto, Opening
<1>8. CASE Expected(c) /\ c.type = "other" /\ HandleOther
  <2>1. phase = "loop"
    BY <1>1, <1>8 DEF Expected, Reading
  <2> QED BY <1>1, <1>8, <2>1, Proceeding DEF HandleOther, Opening
<1>9. CASE Expected(c) /\ Dispatch(c)
  BY <1>3, <1>4, <1>5, <1>6, <1>7, <1>8, <1>9 DEF Dispatch
<1> QED BY <1>3, <1>9 DEF ReadBody

LEMMA ServedInvStep == ServedInv /\ [Next]_vars => ServedInv'
<1> SUFFICES ASSUME ServedInv, [Next]_vars PROVE ServedInv'
  OBVIOUS
<1>1. VInv /\ VInv'
  BY VInvStep DEF ServedInv
<1> USE DEF options, tables, server
<1>2. CASE ReadBody
  <2>1. UNCHANGED template
    BY <1>2 DEF ReadBody
  <2> QED BY <1>1, <1>2, <2>1, OpeningStep DEF ServedInv, Opening
<1>3. CASE Start
  BY <1>1, <1>3 DEF ServedInv, Start, LoadTable, Opening
<1>4. CASE Load
  BY <1>1, <1>4 DEF ServedInv, Load, LoadTable, Opening
<1>5. CASE HwEntry
  BY <1>1, <1>5 DEF ServedInv, ServedWritten, HwEntry
<1>6. CASE HwDone
  <2>1. phase = "loop"
    BY <1>1, <1>6, HwAssumption, EmptySeq DEF HwDone, VInv
  <2>2. phase' \in {"loop", "ended"}
    BY <1>6, <2>1 DEF HwDone, Proceed, Leave, Goto, Opened
  <2> QED BY <1>1, <2>2 DEF ServedInv, Opening
<1>7. CASE ReadLength
  <2>1. phase' \in {phase, "ended", "aborted"}
    BY <1>7 DEF ReadLength, Unknown, Leave, Goto
  <2> QED BY <1>1, <1>7, <2>1 DEF ServedInv, ServedWritten, ReadLength, Opening
<1>8. CASE ReadFails
  <2>1. phase' = "ended"
    BY <1>8 DEF ReadFails, Leave, Goto
  <2> QED BY <1>1, <2>1 DEF ServedInv, Opening
<1>9. ASSUME NEW c \in Command, Send(c) PROVE ServedInv'
  BY <1>1, <1>9 DEF ServedInv, ServedWritten, Send
<1>10. CASE Disconnect
  BY <1>1, <1>10 DEF ServedInv, ServedWritten, Disconnect
<1>11. CASE UNCHANGED vars
  BY <1>1, <1>11 DEF ServedInv, ServedWritten, vars
<1> QED
  BY <1>2, <1>3, <1>4, <1>5, <1>6, <1>7, <1>8, <1>9, <1>10, <1>11
  DEF Next, Router, ReadNothing, Over

\* With -T, and -r naming the file of the server's table, the loop starts with the table
\* that came from the server in this session, or what its writing left of it.
THEOREM ServedTableLoaded == Spec => TableServed
<1>1. Init => ServedInv
  BY VInvInit DEF Init, ServedInv
<1>2. ServedInv /\ [Next]_vars
        => [phase = "load" /\ phase' = "loop" /\ template /\ rtable = received[1]
              => routing_table' \in Written(received[2])]_vars
  <2> SUFFICES ASSUME ServedInv, Next, phase = "load", phase' = "loop", template, rtable = received[1]
               PROVE  routing_table' \in Written(received[2])
    BY DEF vars, options, tables
  <2>1. VInv
    BY DEF ServedInv
  <2>2. LoadTable("loop")
    <3>1. hw = NoHw /\ NoHw # << >>
      BY <2>1, HwAssumption, EmptySeq DEF VInv
    <3>2. ~(Start \/ ReadLength \/ ReadBody \/ HwEntry \/ HwDone \/ ReadFails \/ ReadNothing \/ Over)
      BY DEF Start, ReadLength, ReadBody, HwEntry, HwDone, ReadFails, ReadNothing, Over, Reading
    <3>3. ~Disconnect /\ \A c \in Command : ~Send(c)
      BY DEF Disconnect, Send
    <3> QED BY <3>2, <3>3 DEF Next, Router, Load
  <2>3. routing_table = {} /\ files[rtable] \in Written(received[2])
    BY <2>1 DEF ServedInv, ServedWritten, Opening, VInv, TypeOK
  <2> QED BY <2>2, <2>3 DEF LoadTable
<1> QED BY <1>1, <1>2, ServedInvStep, PTL DEF Spec, TableServed

-----------------------------------------------------------------------------
(* The interface list and the hardware information it comes from.          *)

\* A field that no entry of h after place j, up to m, set, or the value one of them has.
Filled(key, x, h, j, m) ==
    IF x = Unset THEN \A k \in j + 1 .. m : h[k][1] # key
                 ELSE \E k \in j + 1 .. m : h[k] = <<key, x>>

\* Interface f comes from place j of h, and m is as far as h was handled for it.
Given(f, h, j, m) ==
    /\ j \in 1 .. m /\ m \in 1 .. Len(h)
    /\ h[j] = <<"interface", f.name>>
    /\ \A k \in j + 1 .. m : h[k][1] # "interface"
    /\ Filled("ip", f.ip, h, j, m) /\ Filled("ether", f.addr, h, j, m)

\* What the server gives for f has been handled.
Complete(f) ==
    \E h \in HwInfos, j, m \in Nat :
        Given(f, h, j, m) /\ (m = Len(h) \/ h[m + 1][1] = "interface")

\* The last interface of the list is the one the entries handled last are for.
Newest == if_list[Len(if_list)]
Underway(h, j, m) == hw = SubSeq(h, m + 1, Len(h)) /\ if_list # << >> /\ Given(Newest, h, j, m)

ListInv ==
    /\ VInv
    /\ \A i \in 1 .. Len(if_list) : i < Len(if_list) => Complete(if_list[i])
    /\ \/ hw \in HwInfos \cup {NoHw} /\ (if_list # << >> => Complete(Newest))
       \/ hw # NoHw /\ \E h \in HwInfos, j, m \in Nat : Underway(h, j, m)

\* A new interface is the last one.
LEMMA AppendLast ==
    ASSUME if_list \in Seq(Interface), NEW f \in Interface, if_list' = Append(if_list, f)
    PROVE  /\ if_list' \in Seq(Interface) /\ if_list' # << >>
           /\ Len(if_list') = Len(if_list) + 1 /\ if_list'[Len(if_list')] = f
           /\ \A i \in 1 .. Len(if_list) : if_list'[i] = if_list[i]
BY AppendProperties

\* Setting an address leaves the other interfaces alone.
LEMMA SetLastOnly ==
    ASSUME if_list \in Seq(Interface), if_list # << >>, NEW field \in {"addr", "ip"}, NEW x,
           SetLast(field, x)
    PROVE  /\ Len(if_list') = Len(if_list) /\ if_list' # << >>
           /\ if_list'[Len(if_list')] = [Newest EXCEPT ![field] = x]
           /\ \A i \in 1 .. Len(if_list) : i < Len(if_list) => if_list'[i] = if_list[i]
<1> DEFINE n == Len(if_list)
           set == [if_list[n] EXCEPT ![field] = x]
<1>1. if_list' = [if_list EXCEPT ![n] = set]
  BY DEF SetLast
<1>2. n \in Nat /\ n # 0 /\ if_list \in [1 .. n -> Interface] /\ n \in 1 .. n
  BY LenProperties, EmptySeq
<1> HIDE DEF set, n
<1>3. if_list' \in [1 .. n -> Interface \cup {set}] /\ if_list'[n] = set
  BY <1>1, <1>2
<1>4. Len(if_list') = n /\ if_list' # << >>
  <2>1. if_list' \in Seq(Interface \cup {set}) /\ Len(if_list') = n
    BY <1>2, <1>3, IsASeq, LenProperties
  <2> QED BY <1>2, <2>1, EmptySeq
<1>5. \A i \in 1 .. n : i < n => if_list'[i] = if_list[i]
  <2> SUFFICES ASSUME NEW i \in 1 .. n, i < n PROVE if_list'[i] = if_list[i]
    OBVIOUS
  <2>1. i # n
    BY <1>2
  <2> QED BY <1>1, <1>2, <2>1
<1> QED BY <1>3, <1>4, <1>5 DEF set, n, Newest

\* The steps of the list: a new interface, or an address of the last.
LEMMA NewInterface ==
    ASSUME ListInv, VInv', NEW h \in HwInfos, NEW m \in Nat, m < Len(h), NEW name \in Ifaces,
           h[m + 1] = <<"interface", name>>, hw' = SubSeq(h, m + 2, Len(h)),
           if_list' = Append(if_list, [name |-> name, addr |-> Unset, ip |-> Unset]),
           if_list # << >> => Complete(Newest)
    PROVE  ListInv'
<1> DEFINE f == [name |-> name, addr |-> Unset, ip |-> Unset]
<1>1. f \in Interface /\ if_list \in Seq(Interface)
  BY DEF Interface, ListInv, VInv, TypeOK
<1> HIDE DEF f
<1>2. if_list' = Append(if_list, f)
  BY DEF f
<1>3. /\ if_list' # << >> /\ Len(if_list') = Len(if_list) + 1 /\ Newest' = f
      /\ \A i \in 1 .. Len(if_list) : if_list'[i] = if_list[i]
  BY <1>1, <1>2, AppendLast DEF Newest
<1>4. Len(h) \in Nat /\ Len(if_list) \in Nat
  BY <1>1, HwAssumption, LenProperties
<1>5. Given(f, h, m + 1, m + 1)
  <2>1. f.name = name /\ f.addr = Unset /\ f.ip = Unset
    BY DEF f
  <2> QED BY <1>4, <2>1 DEF Given, Filled
<1>6. \A i \in 1 .. Len(if_list') : i < Len(if_list') => Complete(if_list'[i])
  <2> SUFFICES ASSUME NEW i \in 1 .. Len(if_list'), i < Len(if_list') PROVE Complete(if_list'[i])
    OBVIOUS
  <2>1. i \in 1 .. Len(if_list) /\ if_list'[i] = if_list[i]
    BY <1>3, <1>4
  <2>2. CASE i < Len(if_list)
    BY <2>1, <2>2 DEF ListInv
  <2>3. CASE i = Len(if_list)
    <3>1. if_list # << >>
      BY <1>1, <2>1, EmptySeq, <2>3
    <3> QED BY <2>1, <2>3, <3>1 DEF Newest
  <2> QED BY <1>4, <2>1, <2>2, <2>3
<1>7. Underway(h, m + 1, m + 1)'
  <2>1. (m + 1) + 1 = m + 2
    OBVIOUS
  <2> QED BY <1>3, <1>5, <2>1 DEF Underway
<1>8. hw' # NoHw
  <2>1. hw' \in Seq(HwKeys)
    BY HwAssumption, SubSeqProperties, <1>4
  <2> QED BY <2>1, HwAssumption
<1>9. m + 1 \in Nat
  OBVIOUS
<1> QED BY <1>6, <1>7, <1>8, <1>9 DEF ListInv

LEMMA NewAddress ==
    ASSUME ListInv, VInv', NEW h \in HwInfos, NEW j \in Nat, NEW m \in Nat, m < Len(h), Underway(h, j, m),
           NEW key, NEW field, NEW x, x # Unset,
           <<key, field>> \in {<<"ip", "ip">>, <<"ether", "addr">>}, field = "ip" => x \in IPs,
           field = "addr" => x \in Ethers,
           h[m + 1] = <<key, x>>, hw' = SubSeq(h, m + 2, Len(h)), SetLast(field, x)
    PROVE  ListInv'
<1>1. if_list \in Seq(Interface) /\ if_list # << >> /\ field \in {"addr", "ip"}
  BY DEF ListInv, VInv, TypeOK, Underway
<1>2. /\ Len(if_list') = Len(if_list) /\ if_list' # << >>
      /\ Newest' = [Newest EXCEPT ![field] = x]
      /\ \A i \in 1 .. Len(if_list) : i < Len(if_list) => if_list'[i] = if_list[i]
  BY <1>1, SetLastOnly DEF Newest
<1>3. Len(h) \in Nat /\ Len(if_list) \in Nat
  BY <1>1, HwAssumption, LenProperties
<1>4. Newest \in Interface
  BY <1>1, <1>3, EmptySeq, ElementOfSeq DEF Newest
<1> DEFINE f == Newest  g == [Newest EXCEPT ![field] = x]
<1>5. /\ g.name = f.name
      /\ \/ key = "ip" /\ g.ip = x /\ g.addr = f.addr
         \/ key = "ether" /\ g.addr = x /\ g.ip = f.ip
  BY <1>1, <1>4 DEF Interface
<1>6. Given(f, h, j, m)
  BY DEF Underway
<1> HIDE DEF f, g
<1>7. Given(g, h, j, m + 1)
  <2>1. j \in 1 .. m + 1 /\ m + 1 \in 1 .. Len(h) /\ h[j] = <<"interface", g.name>>
    BY <1>3, <1>5, <1>6 DEF Given
  <2>2. h[m + 1][1] = key /\ key # "interface" /\ m + 1 \in j + 1 .. m + 1
    BY <1>6 DEF Given
  <2>3. \A k \in j + 1 .. m + 1 : k \in j + 1 .. m \/ k = m + 1
    BY <1>6 DEF Given
  <2>4. \A k \in j + 1 .. m : k \in j + 1 .. m + 1
    BY <1>6 DEF Given
  <2>5. \A k \in j + 1 .. m + 1 : h[k][1] # "interface"
    BY <1>6, <2>2, <2>3 DEF Given
  <2>6. Filled(key, x, h, j, m + 1)
    BY <2>2 DEF Filled
  <2>7. ASSUME NEW other, NEW y, other # key, Filled(other, y, h, j, m)
        PROVE  Filled(other, y, h, j, m + 1)
    BY <2>2, <2>3, <2>4, <2>7 DEF Filled
  <2>8. Filled("ip", g.ip, h, j, m + 1) /\ Filled("ether", g.addr, h, j, m + 1)
    BY <1>5, <1>6, <2>6, <2>7 DEF Given
  <2> QED BY <2>1, <2>5, <2>8 DEF Given
<1>8. Underway(h, j, m + 1)'
  <2>1. (m + 1) + 1 = m + 2 /\ Newest' = g
    BY <1>2 DEF g
  <2> QED BY <1>2, <1>7, <2>1 DEF Underway
<1>9. \A i \in 1 .. Len(if_list') : i < Len(if_list') => Complete(if_list'[i])
  BY <1>2 DEF ListInv
<1>10. hw' # NoHw
  <2>1. hw' \in Seq(HwKeys)
    BY HwAssumption, SubSeqProperties, <1>3
  <2> QED BY <2>1, HwAssumption
<1>11. m + 1 \in Nat
  OBVIOUS
<1> QED BY <1>8, <1>9, <1>10, <1>11 DEF ListInv

\* The list is empty and nothing handled at the start; every step keeps the invariant.
LEMMA ListInvInit == Init => ListInv
<1> SUFFICES ASSUME Init PROVE ListInv
  OBVIOUS
<1>1. VInv /\ if_list = << >> /\ hw = NoHw
  BY VInvInit DEF Init
<1> QED BY <1>1 DEF ListInv

LEMMA ListInvHwEntry ==
    ASSUME ListInv, HwEntry
    PROVE  ListInv'
<1>1. VInv'
  BY VInvHwEntry DEF ListInv
<1>2. hw # NoHw /\ hw # << >> /\ hw' = Tail(hw)
  BY DEF HwEntry
<1> DEFINE key == Head(hw)[1]  value == Head(hw)[2]
<1>3. \/ /\ key = "interface"
         /\ if_list' = Append(if_list, [name |-> value, addr |-> Unset, ip |-> Unset])
      \/ key = "ether" /\ SetLast("addr", value)
      \/ key = "ip" /\ SetLast("ip", value)
  BY DEF HwEntry
<1>4. \A h \in HwInfos : h \in Seq(HwKeys) /\ Len(h) \in Nat
  BY HwAssumption, LenProperties
<1>5. ASSUME NEW h \in HwInfos, NEW m \in Nat, hw = SubSeq(h, m + 1, Len(h))
      PROVE  m < Len(h) /\ hw' = SubSeq(h, m + 2, Len(h)) /\ h[m + 1] = Head(hw) /\ h[m + 1] \in HwKeys
  <2>1. h \in Seq(HwKeys) /\ Len(h) \in Nat
    BY <1>4
  <2>2. m < Len(h)
    <3> SUFFICES ASSUME ~(m < Len(h)) PROVE FALSE
      OBVIOUS
    <3>1. m + 1 > Len(h)
      BY <2>1
    <3>2. hw = << >>
      BY <1>5, <2>1, <3>1, SubSeqEmpty
    <3> QED BY <1>2, <3>2
  <2>3. m + 1 \in 1 .. Len(h) /\ Len(h) \in m + 1 .. Len(h) /\ (m + 1) + 1 = m + 2
    BY <2>1, <2>2
  <2>4. Head(hw) = h[m + 1] /\ Tail(hw) = SubSeq(h, m + 2, Len(h))
    BY <1>5, <2>1, <2>3, HeadTailOfSubSeq
  <2> QED BY <1>2, <2>1, <2>2, <2>3, <2>4, ElementOfSeq
<1>6. ASSUME NEW e \in HwKeys
      PROVE  /\ e[1] \in {"interface", "ether", "ip"}
             /\ e[1] = "interface" => e = <<"interface", e[2]>> /\ e[2] \in Ifaces
             /\ e[1] = "ether" => e = <<"ether", e[2]>> /\ e[2] \in Ethers /\ e[2] # Unset
             /\ e[1] = "ip" => e = <<"ip", e[2]>> /\ e[2] \in IPs /\ e[2] # Unset
  BY HwAssumption DEF HwKeys
<1>7. CASE hw \in HwInfos /\ (if_list # << >> => Complete(Newest))
  <2> DEFINE h == hw
  <2>1. h \in HwInfos /\ hw = SubSeq(h, 0 + 1, Len(h)) /\ 0 \in Nat /\ 0 + 1 = 1 /\ 0 + 2 = 2
    BY <1>4, <1>7, SubSeqFull
  <2>2. 0 < Len(h) /\ hw' = SubSeq(h, 0 + 2, Len(h)) /\ h[0 + 1] = Head(hw) /\ h[0 + 1] \in HwKeys
    BY <1>5, <2>1
  <2>3. key = "interface"
    BY <1>2, <1>7, <2>1, <2>2, HwAssumption
  <2>4. h[0 + 1] = <<"interface", value>> /\ value \in Ifaces
    BY <1>6, <2>2, <2>3
  <2>5. if_list' = Append(if_list, [name |-> value, addr |-> Unset, ip |-> Unset])
    BY <1>3, <2>3
  <2> HIDE DEF key, value
  <2> QED BY <1>1, <1>7, <2>1, <2>2, <2>4, <2>5, NewInterface
<1>8. ASSUME NEW h \in HwInfos, NEW j \in Nat, NEW m \in Nat, Underway(h, j, m)
      PROVE  ListInv'
  <2>1. hw = SubSeq(h, m + 1, Len(h)) /\ Given(Newest, h, j, m) /\ if_list # << >>
    BY <1>8 DEF Underway
  <2>2. m < Len(h) /\ hw' = SubSeq(h, m + 2, Len(h)) /\ h[m + 1] = Head(hw) /\ h[m + 1] \in HwKeys
    BY <1>5, <2>1
  <2>3. CASE /\ key = "interface"
             /\ if_list' = Append(if_list, [name |-> value, addr |-> Unset, ip |-> Unset])
    <3>1. h[m + 1] = <<"interface", value>> /\ value \in Ifaces
      BY <1>6, <2>2, <2>3
    <3>2. Complete(Newest)
      BY <2>1, <3>1 DEF Complete
    <3> QED BY <1>1, <2>2, <2>3, <3>1, <3>2, NewInterface
  <2>4. CASE key = "ether" /\ SetLast("addr", value)
    <3>1. h[m + 1] = <<"ether", value>> /\ value \in Ethers /\ value # Unset
      BY <1>6, <2>2, <2>4
    <3> QED BY <1>1, <1>8, <2>2, <2>4, <3>1, NewAddress
  <2>5. CASE key = "ip" /\ SetLast("ip", value)
    <3>1. h[m + 1] = <<"ip", value>> /\ value \in IPs /\ value # Unset
      BY <1>6, <2>2, <2>5
    <3> QED BY <1>1, <1>8, <2>2, <2>5, <3>1, NewAddress
  <2> QED BY <1>3, <2>3, <2>4, <2>5
<1> QED BY <1>2, <1>7, <1>8 DEF ListInv

\* At the end of the hardware information the last interface has all it was given.
LEMMA ListInvHwDone ==
    ASSUME ListInv, HwDone
    PROVE  ListInv'
<1>1. VInv' /\ UNCHANGED if_list /\ hw = << >> /\ hw' = NoHw
  BY VInvHwDone DEF ListInv, HwDone
<1>2. if_list # << >> => Complete(Newest)
  <2> SUFFICES ASSUME NEW h \in HwInfos, NEW j \in Nat, NEW m \in Nat, Underway(h, j, m)
               PROVE  Complete(Newest)
    BY <1>1 DEF ListInv
  <2>1. << >> = SubSeq(h, m + 1, Len(h)) /\ Given(Newest, h, j, m)
    BY <1>1 DEF Underway
  <2>2. h \in Seq(HwKeys) /\ Len(h) \in Nat
    BY HwAssumption, LenProperties
  <2>3. m = Len(h)
    <3> SUFFICES ASSUME m # Len(h) PROVE FALSE
      OBVIOUS
    <3>1. m + 1 \in 1 .. Len(h) /\ Len(h) \in m + 1 .. Len(h)
      BY <2>1, <2>2 DEF Given
    <3>2. Len(SubSeq(h, m + 1, Len(h))) = Len(h) - (m + 1) + 1
      BY <2>2, <3>1, SubSeqProperties, ElementOfSeq
    <3>3. Len(h) - (m + 1) + 1 # 0
      BY <2>2, <3>1
    <3>4. Len(<< >>) = 0
      OBVIOUS
    <3> QED BY <2>1, <3>2, <3>3, <3>4
  <2> QED BY <2>1, <2>3 DEF Complete
<1> QED BY <1>1, <1>2 DEF ListInv, Newest

\* Elsewhere the list stays; new hardware information is one the server may send.
LEMMA ListInvReadBody ==
    ASSUME ListInv, ReadBody
    PROVE  ListInv' /\ UNCHANGED if_list
<1> DEFINE c == Head(stream)
<1>1. VInv /\ VInv' /\ hw = NoHw /\ (if_list # << >> => Complete(Newest))
  BY VInvReadBody DEF ListInv, ReadBody, VInv
<1>2. c \in Command \cup {LengthPart, TooLong, TooShort}
  BY <1>1, HeadTailProperties DEF ReadBody, VInv, TypeOK
<1>3. UNCHANGED if_list /\ hw' \in HwInfos \cup {NoHw}
  <2>1. CASE c.type = "hwinfo" /\ HandleHwinfo(c)
    <3>1. c.entries \in HwInfos
      BY <1>2, <2>1 DEF Command, LengthPart, TooLong, TooShort
    <3> QED BY <2>1, <3>1 DEF HandleHwinfo
  <2>2. CASE UNCHANGED interfaces
    BY <1>1, <2>2 DEF interfaces
  <2> QED BY <2>1, <2>2
    DEF ReadBody, Dispatch, Reject, HandleRtable, HandleAuth, HandlePacket, HandleClose, HandleOther
<1> QED BY <1>1, <1>3 DEF ListInv, Newest

LEMMA ListInvStep == ListInv /\ [Next]_vars => ListInv'
<1> SUFFICES ASSUME ListInv, [Next]_vars PROVE ListInv'
  OBVIOUS
<1>1. VInv'
  BY VInvStep DEF ListInv
<1>2. CASE UNCHANGED <<if_list, hw>>
  BY <1>1, <1>2 DEF ListInv, Newest, Underway
<1>3. CASE Start \/ Load \/ ReadLength \/ ReadFails \/ ReadNothing \/ Over \/ Disconnect \/ UNCHANGED vars
  BY <1>2, <1>3
  DEF Start, Load, ReadLength, ReadFails, ReadNothing, Over, Disconnect, vars, interfaces
<1>4. ASSUME NEW c \in Command, Send(c) PROVE ListInv'
  BY <1>2, <1>4 DEF Send, interfaces
<1> QED BY <1>3, <1>4, ListInvReadBody, ListInvHwEntry, ListInvHwDone DEF Next, Router

LEMMA ListInvariance == Spec => []ListInv
BY ListInvInit, ListInvStep, PTL DEF Spec

\* An interface of the list is complete while no hardware information is handled.
LEMMA ListComplete ==
    ASSUME ListInv, hw = NoHw, NEW i \in 1 .. Len(if_list)
    PROVE  Complete(if_list[i])
<1>1. if_list \in Seq(Interface) /\ Len(if_list) \in Nat
  BY LenProperties DEF ListInv, VInv, TypeOK
<1>2. CASE i < Len(if_list)
  BY <1>2 DEF ListInv
<1>3. CASE i = Len(if_list)
  <2>1. if_list # << >>
    BY <1>1, <1>3, EmptySeq
  <2>2. Complete(Newest)
    BY <2>1, HwAssumption DEF ListInv
  <2> QED BY <1>3, <2>2 DEF Newest
<1> QED BY <1>1, <1>2, <1>3

\* The server that gives an interface an IP address gives it a hardware address too.
EtherWithIp ==
    \A h \in HwInfos : \A j, k \in DOMAIN h :
        h[j][1] = "interface" /\ h[k][1] = "ip" /\ Follows(h, j, k)
            => \E l \in DOMAIN h : h[l][1] = "ether" /\ Follows(h, j, l)

\* The addresses of a complete interface are announced, both or neither.
LEMMA CompleteAnnounced ==
    ASSUME EtherWithIp, NEW f \in Interface, Complete(f), f.ip # Unset
    PROVE  Announced(f.name, f.ip, f.addr)
<1>1. PICK h \in HwInfos, j \in Nat, m \in Nat :
         Given(f, h, j, m) /\ (m = Len(h) \/ h[m + 1][1] = "interface")
  BY DEF Complete
<1>2. h \in Seq(HwKeys) /\ Len(h) \in Nat /\ DOMAIN h = 1 .. Len(h)
  BY HwAssumption, LenProperties
<1>3. /\ j \in DOMAIN h /\ j <= m /\ m <= Len(h) /\ h[j] = <<"interface", f.name>>
      /\ \A k \in j + 1 .. m : k \in DOMAIN h /\ h[k][1] # "interface" /\ Follows(h, j, k)
  <2>1. j \in 1 .. m /\ m \in 1 .. Len(h) /\ h[j] = <<"interface", f.name>>
    BY <1>1 DEF Given
  <2>2. j \in DOMAIN h /\ j <= m /\ m <= Len(h)
    BY <1>2, <2>1
  <2>3. \A k \in j + 1 .. m : h[k][1] # "interface"
    BY <1>1 DEF Given
  <2>4. ASSUME NEW k \in j + 1 .. m
        PROVE  k \in DOMAIN h /\ j < k /\ j + 1 .. k \subseteq j + 1 .. m
    BY <1>2, <2>2
  <2>5. ASSUME NEW k \in j + 1 .. m PROVE Follows(h, j, k)
    BY <2>3, <2>4, <2>5 DEF Follows
  <2> QED BY <2>1, <2>2, <2>3, <2>4, <2>5
<1>4. PICK k \in j + 1 .. m : h[k] = <<"ip", f.ip>>
  BY <1>1 DEF Given, Filled
<1>5. PICK l \in DOMAIN h : h[l][1] = "ether" /\ Follows(h, j, l)
  BY <1>3, <1>4 DEF EtherWithIp
<1>6. l \in j + 1 .. m
  <2>1. l \in Nat /\ j < l /\ l <= Len(h)
    BY <1>2, <1>5 DEF Follows
  <2>2. CASE l > m
    <3>1. m + 1 \in j + 1 .. l /\ m # Len(h)
      BY <1>3, <2>1, <2>2
    <3> QED BY <1>1, <1>5, <3>1 DEF Follows
  <2> QED BY <2>1, <2>2
<1>7. PICK o \in j + 1 .. m : h[o] = <<"ether", f.addr>>
  BY <1>1, <1>5, <1>6 DEF Given, Filled
<1> QED BY <1>3, <1>4, <1>7 DEF Announced

\* Where each interface with an IP address is given a hardware address, requests are
\* answered with the pair the server announced: the last interface of the list is the
\* right one for each address, whatever is announced again and in whatever order.
THEOREM AnswersAsTold ==
    ASSUME EtherWithIp
    PROVE  Spec => []AnswersTold
<1> DEFINE Inv == ListInv /\ AnswersTold
<1>1. Init => Inv
  BY ListInvInit DEF Init, AnswersTold
<1>2. Inv /\ [Next]_vars => Inv'
  <2> SUFFICES ASSUME Inv, [Next]_vars PROVE AnswersTold'
    BY ListInvStep
  <2>1. CASE ReadBody
    <3> DEFINE c == Head(stream)
    <3>1. VInv /\ hw = NoHw /\ if_list \in Seq(Interface)
      BY <2>1 DEF ReadBody, ListInv, VInv, TypeOK
    <3>2. CASE UNCHANGED answered
      BY <3>2 DEF AnswersTold
    <3>3. ASSUME NEW n \in Names(if_list), c.tip = First(if_list, n).ip, c.tip \in IPs,
                 answered' = answered \cup
                    {<<First(if_list, n).name, First(if_list, n).ip, First(if_list, n).addr>>}
          PROVE  AnswersTold'
      <4> DEFINE f == First(if_list, n)
      <4>1. f \in Interface
        BY <3>1, FirstIsInterface
      <4>2. Complete(f)
        BY <3>1, FirstFound, ListComplete DEF IsFirst
      <4>3. f.ip # Unset
        BY <3>3, HwAssumption
      <4>4. Announced(f.name, f.ip, f.addr)
        BY <4>1, <4>2, <4>3, CompleteAnnounced
      <4> HIDE DEF f
      <4>5. \A a \in answered' : a \in answered \/ a = <<f.name, f.ip, f.addr>>
        BY <3>3 DEF f
      <4> QED BY <4>4, <4>5 DEF AnswersTold, Announced, Follows
    <3>4. CASE c.type = "packet" /\ HandlePacket(c)
      <4>1. c.tip \in IPs \cup {NoIp}
        <5>1. c \in Command \cup {LengthPart, TooLong, TooShort}
          BY <2>1, <3>1, HeadTailProperties DEF ReadBody, VInv, TypeOK
        <5> QED BY <3>4, <5>1 DEF Command, LengthPart, TooLong, TooShort
      <4>2. CASE c.iface \in Names(if_list) /\ c.tip = First(if_list, c.iface).ip
        <5>1. First(if_list, c.iface) \in Interface
          BY <3>1, <4>2, FirstIsInterface
        <5>2. c.tip \in IPs
          BY <4>1, <4>2, <5>1, HwAssumption DEF Interface
        <5> QED BY <3>3, <3>4, <4>2, <5>2 DEF HandlePacket
      <4> QED BY <3>2, <3>4, <4>2 DEF HandlePacket
    <3> QED BY <2>1, <3>2, <3>4
      DEF ReadBody, Dispatch, Reject, HandleHwinfo, HandleRtable, HandleAuth, HandleClose, HandleOther
  <2>2. CASE UNCHANGED answered
    BY <2>2 DEF AnswersTold
  <2>3. CASE Start \/ Load \/ ReadLength \/ HwEntry \/ HwDone \/ ReadFails \/ ReadNothing
             \/ Over \/ Disconnect \/ UNCHANGED vars
    BY <2>2, <2>3
    DEF Start, Load, ReadLength, HwEntry, HwDone, ReadFails, ReadNothing, Over, Disconnect, vars
  <2>4. ASSUME NEW c \in Command, Send(c) PROVE AnswersTold'
    BY <2>2, <2>4 DEF Send
  <2> QED BY <2>1, <2>3, <2>4 DEF Next, Router
<1> QED BY <1>1, <1>2, PTL DEF Spec

\* The server gives an interface at most one address of each kind each time it is named.
OneOfEach ==
    \A h \in HwInfos : \A j, k, l \in DOMAIN h :
        h[j][1] = "interface" /\ Follows(h, j, k) /\ Follows(h, j, l) /\ h[k][1] = h[l][1] => k = l

\* An address of the last interface is set only where it has none.
LEMMA SetOnce ==
    ASSUME OneOfEach, ListInv, HwEntry,
           NEW key, NEW field, <<key, field>> \in {<<"ip", "ip">>, <<"ether", "addr">>},
           Head(hw)[1] = key
    PROVE  if_list # << >> /\ Newest[field] = Unset
<1>1. hw # NoHw /\ hw # << >>
  BY DEF HwEntry
<1>2. \A h \in HwInfos : h \in Seq(HwKeys) /\ Len(h) \in Nat /\ DOMAIN h = 1 .. Len(h)
  BY HwAssumption, LenProperties
<1>3. hw \notin HwInfos
  <2> SUFFICES ASSUME hw \in HwInfos PROVE FALSE
    OBVIOUS
  <2>1. hw[1][1] = "interface" /\ hw \in Seq(HwKeys)
    BY <1>1, <1>2, HwAssumption
  <2>2. Head(hw) = hw[1]
    BY <2>1
  <2> QED BY <2>1, <2>2
<1>4. PICK h \in HwInfos, j \in Nat, m \in Nat : Underway(h, j, m)
  BY <1>1, <1>3 DEF ListInv
<1>5. hw = SubSeq(h, m + 1, Len(h)) /\ if_list # << >> /\ Given(Newest, h, j, m)
  BY <1>4 DEF Underway
<1>6. h \in Seq(HwKeys) /\ Len(h) \in Nat /\ DOMAIN h = 1 .. Len(h)
  BY <1>2
<1>7. m < Len(h)
  <2> SUFFICES ASSUME ~(m < Len(h)) PROVE FALSE
    OBVIOUS
  <2>1. m + 1 > Len(h)
    BY <1>6
  <2> QED BY <1>1, <1>5, <1>6, <2>1, SubSeqEmpty
<1>8. m + 1 \in 1 .. Len(h) /\ Len(h) \in m + 1 .. Len(h)
  BY <1>6, <1>7
<1>9. Head(hw) = h[m + 1]
  BY <1>5, <1>6, <1>8, HeadTailOfSubSeq
<1>10. /\ j \in DOMAIN h /\ h[j][1] = "interface"
       /\ \A k \in j + 1 .. m : k \in DOMAIN h /\ Follows(h, j, k) /\ h[k][1] # "interface" /\ k # m + 1
  BY <1>5, <1>6, <1>7 DEF Given, Follows
<1>11. Follows(h, j, m + 1)
  <2>1. j < m + 1 /\ \A k \in j + 1 .. m + 1 : k \in j + 1 .. m \/ k = m + 1
    BY <1>5 DEF Given
  <2>2. h[m + 1][1] # "interface"
    BY <1>9
  <2> QED BY <1>10, <2>1, <2>2 DEF Follows
<1>12. \A k \in j + 1 .. m : h[k][1] # key
  BY <1>6, <1>8, <1>9, <1>10, <1>11 DEF OneOfEach
<1>13. Filled(key, Newest[field], h, j, m)
  BY <1>5 DEF Given
<1>14. Newest[field] = Unset
  <2> SUFFICES ASSUME Newest[field] # Unset PROVE FALSE
    OBVIOUS
  <2>1. PICK k \in j + 1 .. m : h[k] = <<key, Newest[field]>>
    BY <1>13 DEF Filled
  <2> QED BY <1>12, <2>1
<1> QED BY <1>5, <1>14

\* An interface of a name stays the first when the others change or more come.
LEMMA FirstStays ==
    ASSUME NEW list \in Seq(Interface), NEW longer \in Seq(Interface), NEW n \in Names(list),
           Len(list) <= Len(longer),
           \A i \in 1 .. Len(list) : longer[i].name = list[i].name,
           \A i : IsFirst(list, n, i) => longer[i] = list[i]
    PROVE  First(longer, n) = First(list, n)
<1>1. Len(list) \in Nat /\ Len(longer) \in Nat /\ DOMAIN list = 1 .. Len(list) /\ DOMAIN longer = 1 .. Len(longer)
  BY LenProperties
<1>2. n \in Names(longer)
  BY <1>1 DEF Names
<1>3. PICK i : IsFirst(list, n, i) /\ First(list, n) = list[i]
  BY FirstFound
<1>4. PICK k : IsFirst(longer, n, k) /\ First(longer, n) = longer[k]
  BY <1>2, FirstFound
<1>5. i \in 1 .. Len(list) /\ i \in 1 .. Len(longer) /\ longer[i].name = n /\ k \in 1 .. Len(longer)
  BY <1>1, <1>3 , <1>4 DEF IsFirst
<1>6. k =< i
  BY <1>4, <1>5 DEF IsFirst
<1>7. k \in 1 .. Len(list) /\ list[k].name = n
  BY <1>1, <1>4, <1>5, <1>6 DEF IsFirst
<1>8. i =< k
  BY <1>3, <1>7 DEF IsFirst
<1>9. i = k
  BY <1>1, <1>5, <1>6, <1>8
<1> QED BY <1>3, <1>4, <1>9

\* Where the server gives each interface at most one address of a kind each time it
\* names it, an interface that has its addresses keeps them, for as long as the session
\* lasts, whatever is announced again.
THEOREM AddressesStay ==
    ASSUME OneOfEach
    PROVE  Spec => AddressStable
<1> DEFINE Stays == \A n \in Names(if_list) :
              LET f == First(if_list, n) IN
              Unset \notin {f.addr, f.ip} => First(if_list', n) = f
<1>1. ListInv /\ ListInv' /\ [Next]_vars => [Stays]_vars
  <2> SUFFICES ASSUME ListInv, ListInv', Next PROVE Stays
    OBVIOUS
  <2>1. if_list \in Seq(Interface) /\ if_list' \in Seq(Interface)
    BY DEF ListInv, VInv, TypeOK
  <2>2. CASE UNCHANGED if_list
    BY <2>2
  <2>3. CASE HwEntry
    <3> SUFFICES ASSUME NEW n \in Names(if_list),
                        Unset \notin {First(if_list, n).addr, First(if_list, n).ip}
                 PROVE  First(if_list', n) = First(if_list, n)
      OBVIOUS
    <3> DEFINE key == Head(hw)[1]  value == Head(hw)[2]
    <3>1. CASE if_list' = Append(if_list, [name |-> value, addr |-> Unset, ip |-> Unset])
      <4>1. \A i \in 1 .. Len(if_list) : if_list'[i] = if_list[i]
        BY <2>1, <3>1, AppendProperties
      <4>2. Len(if_list) <= Len(if_list')
        <5>1. Len(if_list) \in Nat /\ Len(if_list') = Len(if_list) + 1
          BY <2>1, <3>1, LenProperties, AppendProperties
        <5> QED BY <5>1
      <4> QED BY <2>1, <4>1, <4>2, FirstStays DEF IsFirst
    <3>2. ASSUME NEW field, <<key, field>> \in {<<"ip", "ip">>, <<"ether", "addr">>}, SetLast(field, value)
          PROVE  First(if_list', n) = First(if_list, n)
      <4>1. if_list # << >> /\ Newest[field] = Unset
        BY <2>3, <3>2, SetOnce
      <4>2. field \in {"addr", "ip"}
        BY <3>2
      <4>3. Newest[field] = IF field = "ip" THEN Newest.ip ELSE Newest.addr
        BY <4>2
      <4> HIDE DEF key, value
      <4>4. /\ Len(if_list') = Len(if_list)
            /\ if_list'[Len(if_list')] = [Newest EXCEPT ![field] = value]
            /\ \A i \in 1 .. Len(if_list) : i < Len(if_list) => if_list'[i] = if_list[i]
        BY <2>1, <3>2, <4>1, <4>2, SetLastOnly
      <4>5. Len(if_list) \in Nat /\ Newest \in Interface
        BY <2>1, <4>1, LenProperties, EmptySeq, ElementOfSeq DEF Newest
      <4>6. if_list'[Len(if_list)].name = Newest.name
        BY <4>2, <4>4, <4>5 DEF Interface
      <4>7. ASSUME NEW i \in 1 .. Len(if_list) PROVE if_list'[i].name = if_list[i].name
        <5>1. CASE i < Len(if_list)
          BY <4>4, <5>1
        <5>2. CASE i = Len(if_list)
          BY <4>4, <4>6, <5>2 DEF Newest
        <5> QED BY <4>5, <5>1, <5>2
      <4>8. ASSUME NEW i, IsFirst(if_list, n, i) PROVE if_list'[i] = if_list[i]
        <5>1. PICK k : IsFirst(if_list, n, k) /\ First(if_list, n) = if_list[k]
          BY <2>1, FirstFound
        <5>2. i = k
          BY <4>5, <4>8, <5>1 DEF IsFirst
        <5>3. i # Len(if_list)
          BY <4>1, <4>2, <4>3, <5>1, <5>2 DEF Newest
        <5> QED BY <4>4, <4>5, <4>8, <5>3 DEF IsFirst
      <4> QED BY <2>1, <4>4, <4>5, <4>7, <4>8, FirstStays
    <3> QED BY <2>3, <3>1, <3>2 DEF HwEntry
  <2>4. CASE ReadBody
    BY <2>2, <2>4, ListInvReadBody
  <2>5. CASE Start \/ Load \/ ReadLength \/ HwDone \/ ReadFails \/ ReadNothing \/ Over \/ Disconnect
    BY <2>2, <2>5
    DEF Start, Load, ReadLength, HwDone, ReadFails, ReadNothing, Over, Disconnect, vars, interfaces
  <2>6. ASSUME NEW c \in Command, Send(c) PROVE Stays
    BY <2>2, <2>6 DEF Send, interfaces
  <2> QED BY <2>3, <2>4, <2>5, <2>6 DEF Next, Router
<1> QED BY <1>1, ListInvariance, PTL DEF Spec, AddressStable

-----------------------------------------------------------------------------
(* The digest.                                                             *)

\* The reply to a request for authentication has the digest of the salt and the key
\* padded as FIPS 180 has it, and is given for every salt but one that makes too many
\* bits: sr_handle_auth_request feeds the two to a context that is reset, and asks for
\* the digest once.
THEOREM DigestsStandard == Spec => DigestStandard
<1>1. Key \in Seq(Nat) /\ \A salt \in Salts : salt \in Seq(Nat)
  BY SessionAssumption
<1>2. ASSUME NEW salt \in Salts
      PROVE  /\ Returns(Salted(salt)) <=> ~OverLong(salt \o Key)
             /\ Returns(Salted(salt)) => Salted(salt).hashed = Standard(salt \o Key)
  <2> DEFINE c == Input(Input(Reset, salt), Key)  m == salt \o Key
  <2>1. m \in Seq(Nat)
    BY <1>1, ConcatProperties
  <2>2. Fed(c, m)
    <3>1. << >> \in Seq(Nat) /\ << >> \o salt = salt
      BY <1>1, EmptySeq, ConcatEmptySeq
    <3>2. Fed(Input(Reset, salt), << >> \o salt)
      BY <1>1, <3>1, ResetFed, InputTaken
    <3>3. Fed(Input(Reset, salt), salt)
      BY <3>1, <3>2
    <3> QED BY <1>1, <3>3, InputTaken
  <2> HIDE DEF c, m
  <2>3. /\ Returns(c) <=> ~OverLong(m)
        /\ Returns(c) => Result(c).hashed = Standard(m)
        /\ Returns(Result(c)) <=> Returns(c)
    BY <2>1, <2>2, DigestOfStandard
  <2>4. Salted(salt) = Result(c)
    BY DEF Salted, c
  <2> QED BY <2>3, <2>4 DEF m
<1>3. Digestible = {salt \in Salts : ~OverLong(salt \o Key)}
  BY <1>2 DEF Digestible
<1>4. \A salt \in Digestible : Salted(salt).hashed = Standard(salt \o Key)
  BY <1>2 DEF Digestible
<1>5. [Next]_vars => [phase = "auth_request" /\ phase' = "auth_status" =>
          /\ Digestible = {salt \in Salts : ~OverLong(salt \o Key)}
          /\ \A salt \in Digestible : Salted(salt).hashed = Standard(salt \o Key)]_vars
  BY <1>3, <1>4
<1> QED BY <1>5, PTL DEF Spec, DigestStandard
=============================================================================
