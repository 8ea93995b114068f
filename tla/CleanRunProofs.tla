--------------------------- MODULE CleanRunProofs ---------------------------
(***************************************************************************)
(* What a run proves of the boards it found idle, for every program,       *)
(* configuration, bound and order of wire and board events: a success is   *)
(* theirs, it carries all their results, and a device exception pairs the  *)
(* flags and the address of one fault.  The argument follows the packets   *)
(* of one board through the socket: CleanInv says how those still queued   *)
(* relate to what the board sent and to what apply_frame has kept.         *)
(***************************************************************************)
EXTENDS EvidenceProofs

\* Boards that run no program of an earlier run when this one begins.
CleanBoards == Boards \ PriorBoards

\* The packets of board b that apply_frame tells apart.
IsAddress(p, b) == IsDownload(p) /\ p.node = b /\ Info(p) = 1
IsFlags(p, b) == IsDownload(p) /\ p.node = b /\ Info(p) = 0
IsResult(p, b) == /\ p.node = b
                  /\ \/ IsDownload(p) /\ Info(p) \notin {0, 1}
                     \/ IsOperation(p) /\ p.word # 0
                     \/ IsData(p)
IsCompletionOf(p, b) == IsCompletion(p) /\ p.node = b
IsException(p, b) == IsAddress(p, b) \/ IsFlags(p, b)

\* Dispatch puts no more frames on the wire than the loader has, so a board
\* that was launched has taken them all and is left alone.
LaunchedInv(b) ==
    /\ board[b] \in {"idle", "halted", "running", "fault", "stopped"}
    /\ Len(accepted[b]) <= FrameCount(IchLen[b])
    /\ board[b] \in {"running", "fault", "stopped"} =>
          taken[b] = FrameCount(IchLen[b])
    /\ b \in completed => board[b] \in {"fault", "stopped"}

\* A completion, queued or applied, is of this run.
CompletionInv(b) ==
    /\ \A i \in DOMAIN rx : IsCompletionOf(rx[i], b) => b \in completed
    /\ evidence[b] = "succeeded" => b \in completed

\* The results of b: those applied are the first words sent, the queue holds
\* the others in order, and none comes after a completion.
ResultInv(b) ==
    /\ Len(results[b]) <= sent[b].results
    /\ \A i \in DOMAIN results[b] : results[b][i].word = i
    /\ \A i \in DOMAIN rx : IsResult(rx[i], b) =>
          rx[i].word > Len(results[b]) /\ rx[i].word <= sent[b].results
    /\ \A i, j \in DOMAIN rx :
          IsResult(rx[i], b) /\ IsResult(rx[j], b) /\ i < j => rx[i].word < rx[j].word
    /\ \A k \in 1 .. sent[b].results : k > Len(results[b]) =>
          \E i \in DOMAIN rx : IsResult(rx[i], b) /\ rx[i].word = k
    /\ \A i, j \in DOMAIN rx :
          IsCompletionOf(rx[i], b) /\ IsResult(rx[j], b) => j < i
    /\ evidence[b] = "succeeded" => \A i \in DOMAIN rx : ~IsResult(rx[i], b)

\* Only address k, if any, may still wait for its flags: every other address,
\* queued or pending, is followed by another exception packet of b.
OnlyWaits(b, k) ==
    /\ \A j \in DOMAIN rx : IsAddress(rx[j], b) /\ rx[j].word # k =>
          \E m \in DOMAIN rx : m > j /\ IsException(rx[m], b)
    /\ b \in DOMAIN exceptionAddresses /\ exceptionAddresses[b] # k =>
          \E m \in DOMAIN rx : IsException(rx[m], b)

NoWord == -1

\* An address and flags of different faults are separated by another
\* exception packet of b, in the queue or after the address was applied.
SeparatedInv(b) ==
    /\ \A j, i \in DOMAIN rx :
          /\ j < i /\ IsAddress(rx[j], b) /\ IsFlags(rx[i], b)
          /\ rx[j].word # rx[i].word
          => \E m \in DOMAIN rx : j < m /\ m < i /\ IsException(rx[m], b)
    /\ \A i \in DOMAIN rx :
          /\ IsFlags(rx[i], b) /\ b \in DOMAIN exceptionAddresses
          /\ exceptionAddresses[b] # rx[i].word
          => \E m \in DOMAIN rx : m < i /\ IsException(rx[m], b)

WaitingInv(b) ==
    /\ board[b] = "fault" => OnlyWaits(b, sent[b].faults)
    /\ board[b] # "fault" /\ missed[b] = 0 => OnlyWaits(b, NoWord)

QueueInv(b) ==
    /\ CompletionInv(b)
    /\ missed[b] = 0 => ResultInv(b)
    /\ missed[b] <= 1 => SeparatedInv(b) /\ WaitingInv(b)

\* What is claimed of b at the end.
ReportInv(b) ==
    /\ b \in DOMAIN exceptions /\ missed[b] <= 1 =>
          exceptions[b].address \in {None, exceptions[b].flags}
    /\ outcome = "success" => b \in completed
    /\ outcome = "success" /\ missed[b] = 0 =>
          /\ Len(results[b]) = sent[b].results
          /\ \A i \in DOMAIN results[b] : results[b][i].word = i

CleanInv ==
    /\ pc \notin {"prepare", "done"} => config.boards = Boards
    /\ \A b \in CleanBoards :
          LaunchedInv(b) /\ ReportInv(b) /\ (pc # "done" => QueueInv(b))

-----------------------------------------------------------------------------
(* Positions in the socket queue. *)

\* A packet joins at the end.
LEMMA AppendPositions ==
    ASSUME NEW S, NEW s \in Seq(S), NEW q \in S, NEW t, t = Append(s, q)
    PROVE  /\ Len(s) \in Nat /\ DOMAIN s = 1 .. Len(s)
           /\ DOMAIN t = 1 .. Len(s) + 1
           /\ \A i \in DOMAIN s : i \in DOMAIN t /\ t[i] = s[i] /\ i < Len(s) + 1
           /\ \A i \in DOMAIN t : i \in DOMAIN s \/ i = Len(s) + 1
           /\ Len(s) + 1 \in DOMAIN t /\ t[Len(s) + 1] = q
OBVIOUS

\* A packet leaves at the head.
LEMMA TailPositions ==
    ASSUME NEW S, NEW s \in Seq(S), s # <<>>, NEW t, t = Tail(s)
    PROVE  /\ Len(s) \in Nat /\ DOMAIN s = 1 .. Len(s)
           /\ 1 \in DOMAIN s /\ s[1] = Head(s)
           /\ DOMAIN t = 1 .. Len(s) - 1
           /\ \A i \in DOMAIN t : i + 1 \in DOMAIN s /\ t[i] = s[i + 1]
           /\ \A i \in DOMAIN s : i = 1 \/ (i - 1 \in DOMAIN t /\ t[i - 1] = s[i])
OBVIOUS

\* The word of a queued packet.
LEMMA QueuedWord ==
    ASSUME NEW s \in Seq(PacketType), NEW i \in DOMAIN s
    PROVE  s[i] \in PacketType /\ s[i].word \in Nat
<1>1. s[i] \in PacketType
  OBVIOUS
<1>2. QED
  BY <1>1 DEF PacketType, Words

\* Which packets are what, for the board that sent them and for every other.
LEMMA PacketKinds ==
    ASSUME NEW b, NEW x, NEW k \in Nat, NEW gen
    PROVE  /\ LET q == CompletionPacket(b, gen)
              IN  /\ IsCompletionOf(q, x) <=> x = b
                  /\ ~IsAddress(q, x) /\ ~IsFlags(q, x) /\ ~IsResult(q, x)
           /\ LET q == ExceptionAddressPacket(b, k, gen)
              IN  /\ IsAddress(q, x) <=> x = b
                  /\ q.word = k
                  /\ ~IsCompletionOf(q, x) /\ ~IsFlags(q, x) /\ ~IsResult(q, x)
           /\ LET q == ExceptionPacket(b, k, gen)
              IN  /\ IsFlags(q, x) <=> x = b
                  /\ q.word = k
                  /\ ~IsCompletionOf(q, x) /\ ~IsAddress(q, x) /\ ~IsResult(q, x)
           /\ k # 0 => \A q \in ResultPackets(b, k, gen) :
                  /\ IsResult(q, x) <=> x = b
                  /\ q.word = k
                  /\ ~IsCompletionOf(q, x) /\ ~IsAddress(q, x) /\ ~IsFlags(q, x)
<1>1. 16 \div 16 = 1 /\ 0 \div 16 = 0 /\ 32 \div 16 = 2 /\ 1 \div 16 = 0
  BY SMT
<1>2. QED
  BY <1>1 DEF CompletionPacket, ExceptionAddressPacket, ExceptionPacket,
         ResultPackets, Packet, IsCompletionOf, IsCompletion, IsAddress, IsFlags,
         IsResult, IsDownload, IsOperation, IsData, Info

\* Unrelated and malformed traffic is none of these for any board.
LEMMA NoiseKinds ==
    ASSUME NEW q \in NoisePackets \cup {MalformedPacket}, NEW x \in Boards
    PROVE  ~IsCompletionOf(q, x) /\ ~IsAddress(q, x) /\ ~IsFlags(q, x) /\ ~IsResult(q, x)
BY ProgramAssumption
   DEF NoisePackets, MalformedPacket, CompletionPacket, Packet, IsCompletionOf,
       IsCompletion, IsAddress, IsFlags, IsResult, IsDownload, IsOperation, IsData, Info

\* A packet is of at most one kind.
LEMMA OneKind ==
    ASSUME NEW p, NEW x, NEW y
    PROVE  /\ IsAddress(p, x) => ~IsFlags(p, y) /\ ~IsResult(p, y) /\ ~IsCompletionOf(p, y)
           /\ IsFlags(p, x) => ~IsResult(p, y) /\ ~IsCompletionOf(p, y)
           /\ IsResult(p, x) => ~IsCompletionOf(p, y)
BY DEF IsAddress, IsFlags, IsResult, IsCompletionOf, IsCompletion, IsDownload,
       IsOperation, IsData

-----------------------------------------------------------------------------
(* A packet q joins the queue, or is dropped. *)

Joins(q) == rx' = rx \/ rx' = Append(rx, q)

\* A completion that joins the queue was recorded when the board sent it.
LEMMA CompletionJoins ==
    ASSUME TypeOK, NEW x \in Boards, CompletionInv(x), NEW q \in PacketType, Joins(q),
           UNCHANGED evidence, completed \subseteq completed',
           IsCompletionOf(q, x) => x \in completed'
    PROVE  CompletionInv(x)'
<1>1. rx \in Seq(PacketType)
  BY DEF TypeOK, EnvTypeOK
<1>2. CASE rx' = rx
  BY <1>2 DEF CompletionInv
<1>3. CASE rx' = Append(rx, q)
  <2>1. ASSUME NEW i \in DOMAIN rx', IsCompletionOf(rx'[i], x) PROVE x \in completed'
    <3>1. (i \in DOMAIN rx /\ rx'[i] = rx[i]) \/ rx'[i] = q
      BY <1>1, <1>3, <2>1, AppendPositions
    <3>2. QED
      BY <2>1, <3>1 DEF CompletionInv
  <2>2. QED
    BY <2>1 DEF CompletionInv
<1>4. QED
  BY <1>2, <1>3 DEF Joins

\* A packet that is no result of x changes nothing about its results.
LEMMA ResultJoins ==
    ASSUME TypeOK, NEW x \in Boards, ResultInv(x), NEW q \in PacketType, Joins(q),
           UNCHANGED <<evidence, results>>, sent'[x].results = sent[x].results,
           ~IsResult(q, x)
    PROVE  ResultInv(x)'
<1>1. rx \in Seq(PacketType)
  BY DEF TypeOK, EnvTypeOK
<1>2. CASE rx' = rx
  BY <1>2 DEF ResultInv
<1>3. CASE rx' = Append(rx, q)
  <2> DEFINE n == Len(rx) + 1
  <2>1. /\ Len(rx) \in Nat /\ DOMAIN rx = 1 .. Len(rx) /\ DOMAIN rx' = 1 .. n
        /\ \A i \in DOMAIN rx : i \in DOMAIN rx' /\ rx'[i] = rx[i] /\ i < n
        /\ \A i \in DOMAIN rx' : i \in DOMAIN rx \/ i = n
        /\ n \in DOMAIN rx' /\ rx'[n] = q
    BY <1>1, <1>3, AppendPositions
  <2>2. \A i \in DOMAIN rx' : IsResult(rx'[i], x) => i \in DOMAIN rx /\ rx'[i] = rx[i]
    BY <2>1
  <2> HIDE DEF n
  <2>3. \A i \in DOMAIN rx' : IsResult(rx'[i], x) =>
           rx'[i].word > Len(results[x]) /\ rx'[i].word <= sent[x].results
    BY <2>2 DEF ResultInv
  <2>4. \A i, j \in DOMAIN rx' : IsResult(rx'[i], x) /\ IsResult(rx'[j], x) /\ i < j
           => rx'[i].word < rx'[j].word
    BY <2>2 DEF ResultInv
  <2>5. \A k \in 1 .. sent[x].results : k > Len(results[x]) =>
           \E i \in DOMAIN rx' : IsResult(rx'[i], x) /\ rx'[i].word = k
    BY <2>1 DEF ResultInv
  <2>6. ASSUME NEW i \in DOMAIN rx', NEW j \in DOMAIN rx',
               IsCompletionOf(rx'[i], x), IsResult(rx'[j], x)
        PROVE  j < i
    <3>1. j \in DOMAIN rx /\ rx'[j] = rx[j] /\ j < n
      BY <2>1, <2>2, <2>6
    <3>2. CASE i = n
      BY <3>1, <3>2
    <3>3. CASE i \in DOMAIN rx
      BY <2>1, <2>6, <3>1, <3>3 DEF ResultInv
    <3>4. QED
      BY <2>1, <3>2, <3>3
  <2>7. evidence[x] = "succeeded" => \A i \in DOMAIN rx' : ~IsResult(rx'[i], x)
    BY <2>2 DEF ResultInv
  <2>8. QED
    BY <2>3, <2>4, <2>5, <2>6, <2>7 DEF ResultInv
<1>4. QED
  BY <1>2, <1>3 DEF Joins

\* The next result of a board that has not completed goes to the end.
LEMMA ResultSent ==
    ASSUME TypeOK, NEW x \in Boards, ResultInv(x), NEW q \in PacketType,
           rx' = Append(rx, q), UNCHANGED <<evidence, results>>,
           sent'[x].results = sent[x].results + 1,
           IsResult(q, x), ~IsCompletionOf(q, x), q.word = sent[x].results + 1,
           evidence[x] # "succeeded",
           \A i \in DOMAIN rx : ~IsCompletionOf(rx[i], x)
    PROVE  ResultInv(x)'
<1>1. rx \in Seq(PacketType) /\ sent[x].results \in Nat
  BY DEF TypeOK, EnvTypeOK
<1>2. Len(results[x]) \in Nat
  BY DEF TypeOK, HostTypeOK
<1> DEFINE n == Len(rx) + 1
<1>3. /\ Len(rx) \in Nat /\ DOMAIN rx = 1 .. Len(rx) /\ DOMAIN rx' = 1 .. n
      /\ \A i \in DOMAIN rx : i \in DOMAIN rx' /\ rx'[i] = rx[i] /\ i < n
      /\ \A i \in DOMAIN rx' : i \in DOMAIN rx \/ i = n
      /\ n \in DOMAIN rx' /\ rx'[n] = q
  BY <1>1, AppendPositions
<1> HIDE DEF n
<1> DEFINE top == sent[x].results
<1>4. \A i \in DOMAIN rx : rx[i].word \in Nat
  BY <1>1, QueuedWord
<1>5. Len(results[x]) <= top /\ \A i \in DOMAIN results[x] : results[x][i].word = i
  BY DEF ResultInv
<1>6. ASSUME NEW i \in DOMAIN rx', IsResult(rx'[i], x)
      PROVE  rx'[i].word > Len(results[x]) /\ rx'[i].word <= top + 1
  <2>1. CASE i = n
    BY <1>1, <1>2, <1>3, <1>5, <2>1
  <2>2. CASE i \in DOMAIN rx
    BY <1>1, <1>2, <1>3, <1>4, <1>6, <2>2 DEF ResultInv
  <2>3. QED
    BY <1>3, <2>1, <2>2
<1>7. ASSUME NEW i \in DOMAIN rx', NEW j \in DOMAIN rx',
             IsResult(rx'[i], x), IsResult(rx'[j], x), i < j
      PROVE  rx'[i].word < rx'[j].word
  <2>1. i \in DOMAIN rx /\ rx'[i] = rx[i]
    BY <1>3, <1>7
  <2>2. CASE j = n
    BY <1>1, <1>3, <1>4, <1>7, <2>1, <2>2 DEF ResultInv
  <2>3. CASE j \in DOMAIN rx
    BY <1>3, <1>7, <2>1, <2>3 DEF ResultInv
  <2>4. QED
    BY <1>3, <2>2, <2>3
<1>8. ASSUME NEW k \in 1 .. top + 1, k > Len(results[x])
      PROVE  \E i \in DOMAIN rx' : IsResult(rx'[i], x) /\ rx'[i].word = k
  <2>1. CASE k = top + 1
    BY <1>3, <2>1
  <2>2. CASE k \in 1 .. top
    BY <1>3, <1>8, <2>2 DEF ResultInv
  <2>3. QED
    BY <1>1, <2>1, <2>2
<1>9. \A i \in DOMAIN rx' : ~IsCompletionOf(rx'[i], x)
  BY <1>3
<1>10. Len(results[x]) <= top + 1
  BY <1>1, <1>2, <1>5
<1>11. QED
  BY <1>5, <1>6, <1>7, <1>8, <1>9, <1>10 DEF ResultInv

\* Only flags can follow the wrong address.
LEMMA SeparatedJoins ==
    ASSUME TypeOK, NEW x \in Boards, SeparatedInv(x), NEW q \in PacketType, Joins(q),
           UNCHANGED exceptionAddresses,
           IsFlags(q, x) => OnlyWaits(x, q.word)
    PROVE  SeparatedInv(x)'
<1>1. rx \in Seq(PacketType)
  BY DEF TypeOK, EnvTypeOK
<1>2. CASE rx' = rx
  BY <1>2 DEF SeparatedInv
<1>3. CASE rx' = Append(rx, q)
  <2> DEFINE n == Len(rx) + 1
  <2>1. /\ Len(rx) \in Nat /\ DOMAIN rx = 1 .. Len(rx) /\ DOMAIN rx' = 1 .. n
        /\ \A i \in DOMAIN rx : i \in DOMAIN rx' /\ rx'[i] = rx[i] /\ i < n
        /\ \A i \in DOMAIN rx' : i \in DOMAIN rx \/ i = n
        /\ n \in DOMAIN rx' /\ rx'[n] = q
    BY <1>1, <1>3, AppendPositions
  <2> HIDE DEF n
  <2>2. ASSUME NEW j \in DOMAIN rx', NEW i \in DOMAIN rx', j < i,
               IsAddress(rx'[j], x), IsFlags(rx'[i], x), rx'[j].word # rx'[i].word
        PROVE  \E m \in DOMAIN rx' : j < m /\ m < i /\ IsException(rx'[m], x)
    <3>1. j \in DOMAIN rx /\ rx'[j] = rx[j]
      BY <2>1, <2>2
    <3>2. CASE i = n
      <4>1. PICK m \in DOMAIN rx : m > j /\ IsException(rx[m], x)
        BY <2>1, <2>2, <3>1, <3>2 DEF OnlyWaits
      <4>2. QED
        BY <2>1, <3>2, <4>1
    <3>3. CASE i \in DOMAIN rx
      <4>1. PICK m \in DOMAIN rx : j < m /\ m < i /\ IsException(rx[m], x)
        BY <2>1, <2>2, <3>1, <3>3 DEF SeparatedInv
      <4>2. QED
        BY <2>1, <4>1
    <3>4. QED
      BY <2>1, <3>2, <3>3
  <2>3. ASSUME NEW i \in DOMAIN rx', IsFlags(rx'[i], x),
               x \in DOMAIN exceptionAddresses, exceptionAddresses[x] # rx'[i].word
        PROVE  \E m \in DOMAIN rx' : m < i /\ IsException(rx'[m], x)
    <3>1. CASE i = n
      <4>1. PICK m \in DOMAIN rx : IsException(rx[m], x)
        BY <2>1, <2>3, <3>1 DEF OnlyWaits
      <4>2. QED
        BY <2>1, <3>1, <4>1
    <3>2. CASE i \in DOMAIN rx
      <4>1. PICK m \in DOMAIN rx : m < i /\ IsException(rx[m], x)
        BY <2>1, <2>3, <3>2 DEF SeparatedInv
      <4>2. QED
        BY <2>1, <4>1
    <3>3. QED
      BY <2>1, <3>1, <3>2
  <2>4. QED
    BY <2>2, <2>3 DEF SeparatedInv
<1>4. QED
  BY <1>2, <1>3 DEF Joins

\* A packet that is no address leaves the same address waiting.
LEMMA WaitsJoins ==
    ASSUME TypeOK, NEW x \in Boards, NEW k, OnlyWaits(x, k), NEW q \in PacketType,
           Joins(q), UNCHANGED exceptionAddresses, ~IsAddress(q, x)
    PROVE  /\ \A j \in DOMAIN rx' : IsAddress(rx'[j], x) /\ rx'[j].word # k =>
                 \E m \in DOMAIN rx' : m > j /\ IsException(rx'[m], x)
           /\ x \in DOMAIN exceptionAddresses /\ exceptionAddresses[x] # k =>
                 \E m \in DOMAIN rx' : IsException(rx'[m], x)
<1>1. rx \in Seq(PacketType)
  BY DEF TypeOK, EnvTypeOK
<1>2. CASE rx' = rx
  BY <1>2 DEF OnlyWaits
<1>3. CASE rx' = Append(rx, q)
  <2> DEFINE n == Len(rx) + 1
  <2>1. /\ \A i \in DOMAIN rx : i \in DOMAIN rx' /\ rx'[i] = rx[i] /\ i < n
        /\ \A i \in DOMAIN rx' : i \in DOMAIN rx \/ i = n
        /\ rx'[n] = q
    BY <1>1, <1>3, AppendPositions
  <2> HIDE DEF n
  <2>2. QED
    BY <2>1 DEF OnlyWaits
<1>4. QED
  BY <1>2, <1>3 DEF Joins

\* An exception packet at the end follows everything else.
LEMMA WaitsForLast ==
    ASSUME TypeOK, NEW x \in Boards, NEW k, NEW q \in PacketType, rx' = Append(rx, q),
           IsException(q, x), IsAddress(q, x) => q.word = k
    PROVE  /\ \A j \in DOMAIN rx' : IsAddress(rx'[j], x) /\ rx'[j].word # k =>
                 \E m \in DOMAIN rx' : m > j /\ IsException(rx'[m], x)
           /\ \E m \in DOMAIN rx' : IsException(rx'[m], x)
<1>1. rx \in Seq(PacketType)
  BY DEF TypeOK, EnvTypeOK
<1> DEFINE n == Len(rx) + 1
<1>2. /\ \A i \in DOMAIN rx : i \in DOMAIN rx' /\ rx'[i] = rx[i] /\ i < n
      /\ \A i \in DOMAIN rx' : i \in DOMAIN rx \/ i = n
      /\ n \in DOMAIN rx' /\ rx'[n] = q
      /\ n \in Nat /\ DOMAIN rx' \subseteq Nat
  BY <1>1, AppendPositions
<1> HIDE DEF n
<1>3. QED
  BY <1>2

-----------------------------------------------------------------------------
(* monitor takes the head of the queue and goes on. *)

\* What applying a packet does to what is kept of board x.
LEMMA AppliedTo ==
    ASSUME TypeOK, NEW x \in Boards, Apply, pc' # "done", config.boards = Boards
    PROVE  LET p == Head(rx)
           IN  /\ evidence'[x] = "succeeded" =>
                     evidence[x] = "succeeded" \/ IsCompletionOf(p, x)
               /\ IsResult(p, x) =>
                     /\ results'[x] = Append(results[x], [word |-> p.word, gen |-> p.gen])
                     /\ evidence' = evidence
               /\ ~IsResult(p, x) => results'[x] = results[x]
               /\ IsAddress(p, x) => x \in DOMAIN exceptionAddresses'
                                     /\ exceptionAddresses'[x] = p.word
               /\ IsFlags(p, x) => x \notin DOMAIN exceptionAddresses'
               /\ ~IsException(p, x) =>
                     /\ x \in DOMAIN exceptionAddresses' => x \in DOMAIN exceptionAddresses
                     /\ x \in DOMAIN exceptionAddresses' =>
                           exceptionAddresses'[x] = exceptionAddresses[x]
<1> DEFINE p == Head(rx)
<1>1. Receive /\ p \in PacketType
  BY ApplyFrameRest, ReceiveType
<1>2. Continue
  BY DEF Apply, ApplyIgnored, ApplyMalformed, ApplyExceptionAddress,
         ApplyException, ApplyCompletion, ApplyResult, Return
<1>3. ~ApplyMalformed
  BY DEF ApplyMalformed, Return
<1>4. /\ evidence \in [Boards -> States]
      /\ results \in [Boards -> Seq([word : Words, gen : {"this", "prior", "other"}])]
  BY DEF TypeOK, HostTypeOK
<1>5. CASE ApplyIgnored
  <2>1. UNCHANGED <<evidence, exceptionAddresses, results>>
    BY <1>5 DEF ApplyIgnored
  <2>2. ~IsResult(p, x) /\ ~IsAddress(p, x) /\ ~IsFlags(p, x)
    BY <1>5 DEF ApplyIgnored, Known, IsResult, IsAddress, IsFlags, IsDownload,
                IsOperation, IsData
  <2>3. QED
    BY <2>1, <2>2
<1>6. CASE ApplyExceptionAddress
  <2>1. /\ UNCHANGED <<evidence, results>> /\ IsAddress(p, p.node)
        /\ exceptionAddresses' = Insert(exceptionAddresses, p.node, p.word)
    BY <1>6 DEF ApplyExceptionAddress, Return, IsAddress
  <2>2. ~IsResult(p, x) /\ ~IsFlags(p, x) /\ (IsAddress(p, x) <=> p.node = x)
    BY <2>1, OneKind DEF IsAddress
  <2> HIDE DEF p
  <2>3. /\ DOMAIN exceptionAddresses' = DOMAIN exceptionAddresses \cup {p.node}
        /\ exceptionAddresses'[p.node] = p.word
        /\ \A y \in DOMAIN exceptionAddresses \ {p.node} :
              exceptionAddresses'[y] = exceptionAddresses[y]
    BY <2>1 DEF Insert
  <2>4. QED
    BY <2>1, <2>2, <2>3 DEF IsException, p
<1>7. CASE ApplyException
  <2>1. /\ results' = results /\ IsFlags(p, p.node)
        /\ evidence' = [evidence EXCEPT ![p.node] = "device_failed"]
        /\ exceptionAddresses' = Remove(exceptionAddresses, p.node)
    BY <1>7 DEF ApplyException, Return, IsFlags
  <2>2. ~IsResult(p, x) /\ ~IsAddress(p, x) /\ (IsFlags(p, x) <=> p.node = x)
    BY <2>1, OneKind DEF IsFlags
  <2> HIDE DEF p
  <2>3. /\ DOMAIN exceptionAddresses' = DOMAIN exceptionAddresses \ {p.node}
        /\ \A y \in DOMAIN exceptionAddresses \ {p.node} :
              exceptionAddresses'[y] = exceptionAddresses[y]
    BY <2>1 DEF Remove
  <2>4. evidence'[x] = "succeeded" => evidence[x] = "succeeded"
    BY <1>4, <2>1
  <2>5. QED
    BY <2>1, <2>2, <2>3, <2>4 DEF IsException, p
<1>8. CASE ApplyCompletion
  <2>1. /\ UNCHANGED <<exceptionAddresses, results>> /\ IsCompletionOf(p, p.node)
        /\ evidence' = [evidence EXCEPT ![p.node] = "succeeded"]
    BY <1>8 DEF ApplyCompletion, Return, IsCompletionOf
  <2>2. ~IsResult(p, x) /\ ~IsAddress(p, x) /\ ~IsFlags(p, x)
        /\ (IsCompletionOf(p, x) <=> p.node = x)
    BY <2>1, OneKind DEF IsCompletionOf
  <2> HIDE DEF p
  <2>3. evidence'[x] = "succeeded" => evidence[x] = "succeeded" \/ p.node = x
    BY <1>4, <2>1
  <2>4. QED
    BY <2>1, <2>2, <2>3 DEF p
<1>9. CASE ApplyResult
  <2>1. /\ UNCHANGED <<evidence, exceptionAddresses>> /\ IsResult(p, p.node)
        /\ results' = [results EXCEPT ![p.node] =
                          Append(@, [word |-> p.word, gen |-> p.gen])]
    BY <1>9 DEF ApplyResult, Return, IsResult
  <2>2. ~IsAddress(p, x) /\ ~IsFlags(p, x) /\ (IsResult(p, x) <=> p.node = x)
    BY <2>1, OneKind DEF IsResult
  <2> HIDE DEF p
  <2>3. /\ p.node = x => results'[x] = Append(results[x], [word |-> p.word, gen |-> p.gen])
        /\ p.node # x => results'[x] = results[x]
    BY <1>4, <2>1
  <2>4. QED
    BY <2>1, <2>2, <2>3 DEF p
<1>10. QED
  BY <1>3, <1>5, <1>6, <1>7, <1>8, <1>9 DEF Apply

\* A report changes only when flags arrive, and then takes the pending address.
LEMMA ReportedOf ==
    ASSUME TypeOK, NEW x \in Boards, Apply, x \in DOMAIN exceptions'
    PROVE  \/ x \in DOMAIN exceptions /\ exceptions'[x] = exceptions[x]
           \/ /\ pc' # "done" /\ IsFlags(Head(rx), x)
              /\ exceptions'[x].flags = Head(rx).word
              /\ exceptions'[x].address = Removed(exceptionAddresses, x)
<1> DEFINE p == Head(rx)
<1>1. CASE exceptions' = exceptions
  BY <1>1
<1>2. CASE ApplyException /\ exceptions' # exceptions
  <2> DEFINE r == [flags |-> p.word, address |-> Removed(exceptionAddresses, p.node)]
  <2>1. /\ IsFlags(p, p.node) /\ exceptions' = Insert(exceptions, p.node, r)
        /\ Receive /\ Continue
    BY <1>2 DEF ApplyException, IsFlags
  <2>2. pc' # "done"
    BY <2>1 DEF Receive, Continue
  <2> HIDE DEF p, r
  <2>3. /\ DOMAIN exceptions' = DOMAIN exceptions \cup {p.node}
        /\ exceptions'[p.node] = r
        /\ \A y \in DOMAIN exceptions \ {p.node} : exceptions'[y] = exceptions[y]
    BY <2>1 DEF Insert
  <2>4. r.flags = p.word /\ r.address = Removed(exceptionAddresses, p.node)
    BY DEF r
  <2>5. QED
    BY <2>1, <2>2, <2>3, <2>4 DEF p
<1>3. QED
  BY <1>1, <1>2 DEF Apply, ApplyIgnored, ApplyMalformed, ApplyExceptionAddress,
                    ApplyCompletion, ApplyResult

\* A board succeeds by a completion that was queued.
LEMMA CompletionTaken ==
    ASSUME TypeOK, NEW x \in Boards, CompletionInv(x), Apply, pc' # "done",
           config.boards = Boards
    PROVE  CompletionInv(x)'
<1>1. rx \in Seq(PacketType) /\ rx # <<>> /\ rx' = Tail(rx) /\ completed' = completed
  BY ApplyFrameRest DEF TypeOK, EnvTypeOK, Receive, boardVars
<1>2. evidence'[x] = "succeeded" => evidence[x] = "succeeded" \/ IsCompletionOf(rx[1], x)
  BY <1>1, AppliedTo, TailPositions
<1>3. /\ 1 \in DOMAIN rx
      /\ \A i \in DOMAIN rx' : i + 1 \in DOMAIN rx /\ rx'[i] = rx[i + 1]
  BY <1>1, TailPositions
<1>4. QED
  BY <1>1, <1>2, <1>3 DEF CompletionInv

\* The next result is the one at the head: the queue is in order and misses none.
LEMMA ResultTaken ==
    ASSUME TypeOK, NEW x \in Boards, ResultInv(x), Apply, pc' # "done",
           config.boards = Boards
    PROVE  ResultInv(x)'
<1>1. rx \in Seq(PacketType) /\ rx # <<>> /\ rx' = Tail(rx) /\ sent' = sent
  BY ApplyFrameRest DEF TypeOK, EnvTypeOK, Receive, boardVars
<1>2. /\ Len(rx) \in Nat /\ DOMAIN rx = 1 .. Len(rx)
      /\ 1 \in DOMAIN rx /\ rx[1] = Head(rx)
      /\ DOMAIN rx' = 1 .. Len(rx) - 1
      /\ \A i \in DOMAIN rx' : i + 1 \in DOMAIN rx /\ rx'[i] = rx[i + 1]
      /\ \A i \in DOMAIN rx : i = 1 \/ (i - 1 \in DOMAIN rx' /\ rx'[i - 1] = rx[i])
  BY <1>1, TailPositions
<1> DEFINE p == rx[1]
<1>3. /\ evidence'[x] = "succeeded" => evidence[x] = "succeeded" \/ IsCompletionOf(p, x)
      /\ IsResult(p, x) =>
            /\ results'[x] = Append(results[x], [word |-> p.word, gen |-> p.gen])
            /\ evidence' = evidence
      /\ ~IsResult(p, x) => results'[x] = results[x]
  BY <1>2, AppliedTo
<1>4. \A i, j \in DOMAIN rx' : IsResult(rx'[i], x) /\ IsResult(rx'[j], x) /\ i < j
         => rx'[i].word < rx'[j].word
  <2> SUFFICES ASSUME NEW i \in DOMAIN rx', NEW j \in DOMAIN rx',
                      IsResult(rx'[i], x), IsResult(rx'[j], x), i < j
               PROVE  rx'[i].word < rx'[j].word
    OBVIOUS
  <2>1. i + 1 \in DOMAIN rx /\ j + 1 \in DOMAIN rx /\ i + 1 < j + 1
    BY <1>2
  <2>2. QED
    BY <1>2, <2>1 DEF ResultInv
<1>5. \A i, j \in DOMAIN rx' : IsCompletionOf(rx'[i], x) /\ IsResult(rx'[j], x) => j < i
  <2> SUFFICES ASSUME NEW i \in DOMAIN rx', NEW j \in DOMAIN rx',
                      IsCompletionOf(rx'[i], x), IsResult(rx'[j], x)
               PROVE  j < i
    OBVIOUS
  <2>1. i + 1 \in DOMAIN rx /\ j + 1 \in DOMAIN rx
    BY <1>2
  <2>2. j + 1 < i + 1
    BY <1>2, <2>1 DEF ResultInv
  <2>3. QED
    BY <1>2, <2>2
<1>6. evidence'[x] = "succeeded" => \A i \in DOMAIN rx' : ~IsResult(rx'[i], x)
  <2> SUFFICES ASSUME evidence'[x] = "succeeded", NEW i \in DOMAIN rx', IsResult(rx'[i], x)
               PROVE  FALSE
    OBVIOUS
  <2>1. i + 1 \in DOMAIN rx /\ IsResult(rx[i + 1], x) /\ ~(i + 1 < 1)
    BY <1>2
  <2>2. QED
    BY <1>2, <1>3, <2>1 DEF ResultInv
<1>7. results[x] \in Seq([word : Words, gen : {"this", "prior", "other"}])
      /\ sent[x].results \in Nat
  BY DEF TypeOK, HostTypeOK, EnvTypeOK
<1> DEFINE n == Len(results[x])
<1> DEFINE top == sent[x].results
<1>8. n \in Nat /\ DOMAIN results[x] = 1 .. n
  BY <1>7
<1>9. \A i \in DOMAIN rx : rx[i].word \in Nat
  BY <1>1, QueuedWord
<1>10. CASE ~IsResult(p, x)
  <2>1. results'[x] = results[x]
    BY <1>3, <1>10
  <2>2. \A i \in DOMAIN rx' : IsResult(rx'[i], x) => rx'[i].word > n /\ rx'[i].word <= top
    BY <1>2 DEF ResultInv
  <2>3. ASSUME NEW k \in 1 .. top, k > n
        PROVE  \E i \in DOMAIN rx' : IsResult(rx'[i], x) /\ rx'[i].word = k
    <3>1. PICK i \in DOMAIN rx : IsResult(rx[i], x) /\ rx[i].word = k
      BY <2>3 DEF ResultInv
    <3>2. i # 1
      BY <1>10, <3>1
    <3>3. QED
      BY <1>2, <3>1, <3>2
  <2>4. QED
    BY <1>1, <1>4, <1>5, <1>6, <2>1, <2>2, <2>3 DEF ResultInv
<1>11. CASE IsResult(p, x)
  <2> DEFINE r == [word |-> p.word, gen |-> p.gen]
  <2>1. results'[x] = Append(results[x], r) /\ evidence' = evidence
    BY <1>3, <1>11
  <2>2. p.word > n /\ p.word <= top /\ p.word \in Nat
    BY <1>2, <1>9, <1>11 DEF ResultInv
  <2>3. p.word = n + 1
    <3>1. n + 1 \in 1 .. top /\ n + 1 > n
      BY <1>7, <1>8, <2>2
    <3>2. PICK i \in DOMAIN rx : IsResult(rx[i], x) /\ rx[i].word = n + 1
      BY <3>1 DEF ResultInv
    <3>3. CASE i = 1
      BY <3>2, <3>3
    <3>4. CASE i # 1
      <4>1. 1 < i
        BY <1>2, <3>4
      <4>2. p.word < n + 1
        BY <1>2, <1>11, <3>2, <4>1 DEF ResultInv
      <4>3. QED
        BY <1>8, <2>2, <4>2
    <3>5. QED
      BY <3>3, <3>4
  <2>4. /\ Len(results'[x]) = n + 1
        /\ DOMAIN results'[x] = 1 .. n + 1
        /\ \A i \in 1 .. n : results'[x][i] = results[x][i]
        /\ results'[x][n + 1] = r
    <3> HIDE DEF r
    <3>1. QED
      BY <1>7, <2>1
  <2>5. \A i \in DOMAIN results'[x] : results'[x][i].word = i
    <3>1. r.word = n + 1
      BY <2>3
    <3> HIDE DEF r
    <3>2. \A i \in 1 .. n : results[x][i].word = i
      BY <1>8 DEF ResultInv
    <3>3. \A i \in 1 .. n + 1 : i \in 1 .. n \/ i = n + 1
      BY <1>8
    <3>4. QED
      BY <2>4, <3>1, <3>2, <3>3
  <2>6. ASSUME NEW i \in DOMAIN rx', IsResult(rx'[i], x)
        PROVE  rx'[i].word > n + 1 /\ rx'[i].word <= top
    <3>1. i + 1 \in DOMAIN rx /\ rx'[i] = rx[i + 1] /\ 1 < i + 1
      BY <1>2, <2>6
    <3>2. QED
      BY <1>2, <1>11, <2>3, <2>6, <3>1 DEF ResultInv
  <2>7. ASSUME NEW k \in 1 .. top, k > n + 1
        PROVE  \E i \in DOMAIN rx' : IsResult(rx'[i], x) /\ rx'[i].word = k
    <3>1. PICK i \in DOMAIN rx : IsResult(rx[i], x) /\ rx[i].word = k
      BY <1>8, <2>7 DEF ResultInv
    <3>2. i # 1
      BY <1>8, <2>3, <2>7, <3>1
    <3>3. QED
      BY <1>2, <3>1, <3>2
  <2>8. n + 1 <= top
    BY <2>2, <2>3
  <2>9. QED
    BY <1>1, <1>4, <1>5, <1>6, <2>4, <2>5, <2>6, <2>7, <2>8 DEF ResultInv
<1>12. QED
  BY <1>10, <1>11

\* An address that is applied waits where it waited in the queue.
LEMMA SeparatedTaken ==
    ASSUME TypeOK, NEW x \in Boards, SeparatedInv(x), Apply, pc' # "done",
           config.boards = Boards
    PROVE  SeparatedInv(x)'
<1>1. rx \in Seq(PacketType) /\ rx # <<>> /\ rx' = Tail(rx)
  BY ApplyFrameRest DEF TypeOK, EnvTypeOK, Receive
<1>2. /\ Len(rx) \in Nat /\ DOMAIN rx = 1 .. Len(rx)
      /\ 1 \in DOMAIN rx /\ rx[1] = Head(rx)
      /\ DOMAIN rx' = 1 .. Len(rx) - 1
      /\ \A i \in DOMAIN rx' : i + 1 \in DOMAIN rx /\ rx'[i] = rx[i + 1]
      /\ \A i \in DOMAIN rx : i = 1 \/ (i - 1 \in DOMAIN rx' /\ rx'[i - 1] = rx[i])
  BY <1>1, TailPositions
<1>3. ASSUME NEW j \in DOMAIN rx', NEW i \in DOMAIN rx', j < i,
             IsAddress(rx'[j], x), IsFlags(rx'[i], x), rx'[j].word # rx'[i].word
      PROVE  \E m \in DOMAIN rx' : j < m /\ m < i /\ IsException(rx'[m], x)
  <2>1. j + 1 \in DOMAIN rx /\ i + 1 \in DOMAIN rx /\ j + 1 < i + 1
    BY <1>2, <1>3
  <2>2. PICK m \in DOMAIN rx : j + 1 < m /\ m < i + 1 /\ IsException(rx[m], x)
    BY <1>2, <1>3, <2>1 DEF SeparatedInv
  <2>3. m - 1 \in DOMAIN rx' /\ rx'[m - 1] = rx[m] /\ j < m - 1 /\ m - 1 < i
    BY <1>2, <2>2
  <2>4. QED
    BY <2>2, <2>3
<1>4. ASSUME NEW i \in DOMAIN rx', IsFlags(rx'[i], x),
             x \in DOMAIN exceptionAddresses', exceptionAddresses'[x] # rx'[i].word
      PROVE  \E m \in DOMAIN rx' : m < i /\ IsException(rx'[m], x)
  <2>1. i + 1 \in DOMAIN rx /\ rx'[i] = rx[i + 1] /\ 1 < i + 1
    BY <1>2, <1>4
  <2>2. SUFFICES \E m \in DOMAIN rx : m # 1 /\ m < i + 1 /\ IsException(rx[m], x)
    <3>1. PICK m \in DOMAIN rx : m # 1 /\ m < i + 1 /\ IsException(rx[m], x)
      BY <2>2
    <3>2. m - 1 \in DOMAIN rx' /\ rx'[m - 1] = rx[m] /\ m - 1 < i
      BY <1>2, <3>1
    <3>3. QED
      BY <3>1, <3>2
  <2>3. ~IsFlags(rx[1], x)
    BY <1>2, <1>4, AppliedTo
  <2>4. CASE IsAddress(rx[1], x)
    <3>1. exceptionAddresses'[x] = rx[1].word
      BY <1>2, <2>4, AppliedTo
    <3>2. PICK m \in DOMAIN rx : 1 < m /\ m < i + 1 /\ IsException(rx[m], x)
      BY <1>2, <1>4, <2>1, <2>4, <3>1 DEF SeparatedInv
    <3>3. QED
      BY <1>2, <3>2
  <2>5. CASE ~IsException(rx[1], x)
    <3>1. x \in DOMAIN exceptionAddresses /\ exceptionAddresses'[x] = exceptionAddresses[x]
      BY <1>2, <1>4, <2>5, AppliedTo
    <3>2. PICK m \in DOMAIN rx : m < i + 1 /\ IsException(rx[m], x)
      BY <1>2, <1>4, <2>1, <3>1 DEF SeparatedInv
    <3>3. QED
      BY <2>5, <3>2
  <2>6. QED
    BY <2>3, <2>4, <2>5 DEF IsException
<1>5. QED
  BY <1>3, <1>4 DEF SeparatedInv

\* Neither does applying one make another address wait.
LEMMA WaitsTaken ==
    ASSUME TypeOK, NEW x \in Boards, NEW k, OnlyWaits(x, k), Apply, pc' # "done",
           config.boards = Boards
    PROVE  /\ \A j \in DOMAIN rx' : IsAddress(rx'[j], x) /\ rx'[j].word # k =>
                 \E m \in DOMAIN rx' : m > j /\ IsException(rx'[m], x)
           /\ x \in DOMAIN exceptionAddresses' /\ exceptionAddresses'[x] # k =>
                 \E m \in DOMAIN rx' : IsException(rx'[m], x)
<1>1. rx \in Seq(PacketType) /\ rx # <<>> /\ rx' = Tail(rx)
  BY ApplyFrameRest DEF TypeOK, EnvTypeOK, Receive
<1>2. /\ Len(rx) \in Nat /\ DOMAIN rx = 1 .. Len(rx)
      /\ 1 \in DOMAIN rx /\ rx[1] = Head(rx)
      /\ DOMAIN rx' = 1 .. Len(rx) - 1
      /\ \A i \in DOMAIN rx' : i + 1 \in DOMAIN rx /\ rx'[i] = rx[i + 1]
      /\ \A i \in DOMAIN rx : i = 1 \/ (i - 1 \in DOMAIN rx' /\ rx'[i - 1] = rx[i])
  BY <1>1, TailPositions
<1>3. ASSUME NEW j \in DOMAIN rx', IsAddress(rx'[j], x), rx'[j].word # k
      PROVE  \E m \in DOMAIN rx' : m > j /\ IsException(rx'[m], x)
  <2>1. j + 1 \in DOMAIN rx /\ rx'[j] = rx[j + 1]
    BY <1>2, <1>3
  <2>2. PICK m \in DOMAIN rx : m > j + 1 /\ IsException(rx[m], x)
    BY <1>3, <2>1 DEF OnlyWaits
  <2>3. m - 1 \in DOMAIN rx' /\ rx'[m - 1] = rx[m] /\ m - 1 > j
    BY <1>2, <2>2
  <2>4. QED
    BY <2>2, <2>3
<1>4. ASSUME x \in DOMAIN exceptionAddresses', exceptionAddresses'[x] # k
      PROVE  \E m \in DOMAIN rx' : IsException(rx'[m], x)
  <2>1. SUFFICES \E m \in DOMAIN rx : m # 1 /\ IsException(rx[m], x)
    BY <1>2, <2>1
  <2>2. ~IsFlags(rx[1], x)
    BY <1>2, <1>4, AppliedTo
  <2>3. CASE IsAddress(rx[1], x)
    <3>1. exceptionAddresses'[x] = rx[1].word
      BY <1>2, <2>3, AppliedTo
    <3>2. PICK m \in DOMAIN rx : m > 1 /\ IsException(rx[m], x)
      BY <1>2, <1>4, <2>3, <3>1 DEF OnlyWaits
    <3>3. QED
      BY <1>2, <3>2
  <2>4. CASE ~IsException(rx[1], x)
    <3>1. x \in DOMAIN exceptionAddresses /\ exceptionAddresses'[x] = exceptionAddresses[x]
      BY <1>2, <1>4, <2>4, AppliedTo
    <3>2. PICK m \in DOMAIN rx : IsException(rx[m], x)
      BY <1>4, <3>1 DEF OnlyWaits
    <3>3. QED
      BY <2>4, <3>2
  <2>5. QED
    BY <2>2, <2>3, <2>4 DEF IsException
<1>5. QED
  BY <1>3, <1>4

-----------------------------------------------------------------------------
(* Each action, for one board found idle. *)

OfBoard(x) == LaunchedInv(x) /\ ReportInv(x) /\ (pc # "done" => QueueInv(x))

\* monitor applies a packet.
LEMMA ApplyKeeps ==
    ASSUME TypeOK, EvidenceInv, Apply, config.boards = Boards,
           NEW x \in Boards, OfBoard(x)
    PROVE  OfBoard(x)'
<1>1. /\ pc = "monitor" /\ UNCHANGED <<boardVars, wireVars>>
      /\ outcome' = outcome \/ outcome' = "protocol_violation"
      /\ rx \in Seq(PacketType) /\ rx # <<>>
  BY ApplyFrameRest DEF Receive, TypeOK, EnvTypeOK
<1>2. QueueInv(x) /\ outcome' # "success"
  BY <1>1 DEF OfBoard, EvidenceInv, RunningInv
<1>3. LaunchedInv(x)'
  BY <1>1 DEF OfBoard, LaunchedInv, boardVars, wireVars
<1>4. ASSUME x \in DOMAIN exceptions', missed[x] <= 1
      PROVE  exceptions'[x].address \in {None, exceptions'[x].flags}
  <2>1. CASE x \in DOMAIN exceptions /\ exceptions'[x] = exceptions[x]
    BY <1>4, <2>1 DEF OfBoard, ReportInv
  <2>2. CASE /\ IsFlags(Head(rx), x)
             /\ exceptions'[x].flags = Head(rx).word
             /\ exceptions'[x].address = Removed(exceptionAddresses, x)
    <3>1. 1 \in DOMAIN rx /\ rx[1] = Head(rx) /\ \A m \in DOMAIN rx : ~(m < 1)
      BY <1>1, TailPositions
    <3>2. x \in DOMAIN exceptionAddresses => exceptionAddresses[x] = Head(rx).word
      BY <1>2, <1>4, <2>2, <3>1 DEF QueueInv, SeparatedInv
    <3>3. QED
      BY <2>2, <3>2 DEF Removed
  <2>3. QED
    BY <1>4, <2>1, <2>2, ReportedOf
<1>5. ReportInv(x)'
  BY <1>1, <1>2, <1>4 DEF ReportInv, boardVars
<1>6. ASSUME pc' # "done" PROVE QueueInv(x)'
  <2>1. CompletionInv(x)'
    BY <1>2, <1>6, CompletionTaken DEF QueueInv
  <2>2. missed[x] = 0 => ResultInv(x)'
    BY <1>2, <1>6, ResultTaken DEF QueueInv
  <2>3. missed[x] <= 1 => SeparatedInv(x)'
    BY <1>2, <1>6, SeparatedTaken DEF QueueInv
  <2>4. UNCHANGED <<board, sent, missed>>
    BY <1>1 DEF boardVars
  <2>5. ASSUME missed[x] <= 1 PROVE WaitingInv(x)'
    <3>1. WaitingInv(x)
      BY <1>2, <2>5 DEF QueueInv
    <3>2. ASSUME NEW k, OnlyWaits(x, k)
          PROVE  /\ \A j \in DOMAIN rx' : IsAddress(rx'[j], x) /\ rx'[j].word # k =>
                       \E m \in DOMAIN rx' : m > j /\ IsException(rx'[m], x)
                 /\ x \in DOMAIN exceptionAddresses' /\ exceptionAddresses'[x] # k =>
                       \E m \in DOMAIN rx' : IsException(rx'[m], x)
      BY <1>6, <3>2, WaitsTaken
    <3>3. board[x] = "fault" => OnlyWaits(x, sent[x].faults)'
      BY <2>4, <3>1, <3>2 DEF WaitingInv, OnlyWaits
    <3>4. board[x] # "fault" /\ missed[x] = 0 => OnlyWaits(x, NoWord)'
      BY <2>4, <3>1, <3>2 DEF WaitingInv, OnlyWaits, NoWord
    <3>5. QED
      BY <2>4, <3>3, <3>4 DEF WaitingInv
  <2>6. QED
    BY <2>1, <2>2, <2>3, <2>4, <2>5 DEF QueueInv
<1>7. QED
  BY <1>3, <1>5, <1>6 DEF OfBoard

\* A return leaves the boards and what was kept of them alone; a success is
\* claimed only when every board's completion was applied.
LEMMA ReturnKeeps ==
    ASSUME TypeOK, EvidenceInv', pc # "done", pc' = "done",
           UNCHANGED <<evidence, exceptions, results, boardVars, wireVars>>,
           NEW x \in Boards, OfBoard(x)
    PROVE  OfBoard(x)'
<1>1. QueueInv(x)
  BY DEF OfBoard
<1>2. LaunchedInv(x)'
  BY DEF OfBoard, LaunchedInv, boardVars, wireVars
<1>3. ASSUME outcome' = "success" PROVE evidence[x] = "succeeded"
  BY <1>3 DEF EvidenceInv, OutcomeAgreesWithEvidence
<1>4. outcome' = "success" => x \in completed
  BY <1>1, <1>3 DEF QueueInv, CompletionInv
<1>5. ASSUME outcome' = "success", missed[x] = 0
      PROVE  /\ Len(results[x]) = sent[x].results
             /\ \A i \in DOMAIN results[x] : results[x][i].word = i
  <2>1. ResultInv(x) /\ \A i \in DOMAIN rx : ~IsResult(rx[i], x)
    BY <1>1, <1>3, <1>5 DEF QueueInv, ResultInv
  <2>2. Len(results[x]) \in Nat /\ sent[x].results \in Nat
    BY DEF TypeOK, HostTypeOK, EnvTypeOK
  <2>3. ~(sent[x].results \in 1 .. sent[x].results /\ sent[x].results > Len(results[x]))
    BY <2>1 DEF ResultInv
  <2>4. QED
    BY <2>1, <2>2, <2>3 DEF ResultInv
<1>6. ReportInv(x)'
  BY <1>4, <1>5 DEF OfBoard, ReportInv, boardVars
<1>7. QED
  BY <1>2, <1>6 DEF OfBoard

\* A packet on its way to the host is queued, or counted as missed.
LEMMA ToHostCases ==
    ASSUME TypeOK, NEW q \in PacketType, NEW b \in Boards, q.node = b, ToHost(q)
    PROVE  /\ Joins(q)
           /\ \A x \in Boards : missed[x] \in Nat /\ missed'[x] \in Nat
                                /\ missed'[x] >= missed[x]
           /\ \/ rx' = Append(rx, q)
              \/ rx' = rx /\ missed'[b] = missed[b] + 1
<1>1. missed \in [Boards -> Nat]
  BY DEF TypeOK, EnvTypeOK
<1>2. CASE rx' = Append(rx, q) /\ missed' = missed
  BY <1>1, <1>2 DEF Joins
<1>3. CASE rx' = rx /\ missed' = [missed EXCEPT ![b] = @ + 1]
  BY <1>1, <1>3 DEF Joins
<1>4. QED
  BY <1>2, <1>3 DEF ToHost

\* While the run goes on, reports only lose claims.
LEMMA ReportStays ==
    ASSUME NEW x \in Boards, ReportInv(x), exceptions' = exceptions,
           outcome' # "success", missed[x] \in Nat, missed'[x] \in Nat,
           missed'[x] >= missed[x]
    PROVE  ReportInv(x)'
<1>1. missed'[x] <= 1 => missed[x] <= 1
  OBVIOUS
<1>2. QED
  BY <1>1 DEF ReportInv

\* A packet that is no exception of x leaves its exceptions as they were.
LEMMA ExceptionsJoin ==
    ASSUME TypeOK, NEW x \in Boards, missed[x] <= 1 => SeparatedInv(x) /\ WaitingInv(x),
           NEW q \in PacketType, Joins(q), UNCHANGED exceptionAddresses,
           ~IsAddress(q, x), ~IsFlags(q, x), sent'[x].faults = sent[x].faults,
           board'[x] = "fault" <=> board[x] = "fault",
           missed[x] \in Nat, missed'[x] \in Nat, missed'[x] >= missed[x]
    PROVE  missed'[x] <= 1 => SeparatedInv(x)' /\ WaitingInv(x)'
<1> SUFFICES ASSUME missed'[x] <= 1 PROVE SeparatedInv(x)' /\ WaitingInv(x)'
  OBVIOUS
<1>1. missed[x] <= 1 /\ (missed'[x] = 0 => missed[x] = 0)
  OBVIOUS
<1>2. SeparatedInv(x)'
  BY <1>1, SeparatedJoins
<1>3. WaitingInv(x)
  BY <1>1
<1>4. ASSUME NEW k, OnlyWaits(x, k)
      PROVE  /\ \A j \in DOMAIN rx' : IsAddress(rx'[j], x) /\ rx'[j].word # k =>
                   \E m \in DOMAIN rx' : m > j /\ IsException(rx'[m], x)
             /\ x \in DOMAIN exceptionAddresses /\ exceptionAddresses[x] # k =>
                   \E m \in DOMAIN rx' : IsException(rx'[m], x)
  BY <1>4, WaitsJoins
<1>5. board'[x] = "fault" => OnlyWaits(x, sent[x].faults)'
  BY <1>3, <1>4 DEF WaitingInv, OnlyWaits
<1>6. board'[x] # "fault" /\ missed'[x] = 0 => OnlyWaits(x, NoWord)'
  BY <1>1, <1>3, <1>4 DEF WaitingInv, OnlyWaits, NoWord
<1>7. QED
  BY <1>2, <1>5, <1>6 DEF WaitingInv

\* A packet that is nothing to x, from another board or from others.
LEMMA OthersJoin ==
    ASSUME TypeOK, EvidenceInv, pc # "done", UNCHANGED <<hostVars, accepted>>,
           NEW x \in Boards, OfBoard(x), NEW q \in PacketType, Joins(q),
           ~IsCompletionOf(q, x), ~IsAddress(q, x), ~IsFlags(q, x), ~IsResult(q, x),
           sent'[x] = sent[x], board'[x] = board[x], taken'[x] = taken[x],
           x \in completed' => x \in completed, completed \subseteq completed',
           missed[x] \in Nat, missed'[x] \in Nat, missed'[x] >= missed[x]
    PROVE  OfBoard(x)'
<1>1. QueueInv(x) /\ UNCHANGED <<evidence, results, exceptions, exceptionAddresses>>
      /\ outcome' # "success"
  BY DEF OfBoard, hostVars, EvidenceInv, RunningInv
<1>2. LaunchedInv(x)'
  BY DEF OfBoard, LaunchedInv
<1>3. ReportInv(x)'
  BY <1>1, ReportStays DEF OfBoard
<1>4. CompletionInv(x)'
  BY <1>1, CompletionJoins DEF QueueInv
<1>5. missed'[x] = 0 => missed[x] = 0
  OBVIOUS
<1>6. missed'[x] = 0 => ResultInv(x)'
  BY <1>1, <1>5, ResultJoins DEF QueueInv
<1>7. missed'[x] <= 1 => SeparatedInv(x)' /\ WaitingInv(x)'
  BY <1>1, ExceptionsJoin DEF QueueInv
<1>8. QED
  BY <1>2, <1>3, <1>4, <1>6, <1>7 DEF OfBoard, QueueInv

\* A launched board has no frame left to take; another one is not yet heard of.
LEMMA TakeFrameKeeps ==
    ASSUME TypeOK, EvidenceInv, pc # "done", NEW x \in Boards, TakeFrame(x), OfBoard(x)
    PROVE  OfBoard(x)'
<1>1. /\ UNCHANGED <<hostVars, sent, completed, missed, accepted, rx>>
      /\ taken[x] < Len(accepted[x])
      /\ taken' = [taken EXCEPT ![x] = @ + 1]
      /\ board' = board \/ board' = [board EXCEPT ![x] =
             IF accepted[x][taken[x] + 1] = 0 THEN "halted"
             ELSE IF accepted[x][taken[x] + 1] = FrameCount(IchLen[x]) - 1
                  THEN "running" ELSE @]
  BY DEF TakeFrame
<1>2. /\ taken \in [Boards -> Nat] /\ accepted[x] \in Seq(Nat)
      /\ board \in [Boards -> {"idle", "prior", "prior_fault", "prior_stopped",
                               "halted", "running", "fault", "stopped"}]
      /\ missed[x] \in Nat
  BY DEF TypeOK, EnvTypeOK
<1>3. IchLen[x] \in Nat
  BY ProgramAssumption
<1>4. FrameCount(IchLen[x]) \in Nat
  BY <1>3, FrameLayout
<1> DEFINE F == FrameCount(IchLen[x])
<1>5. Len(accepted[x]) <= F /\ Len(accepted[x]) \in Nat
  BY <1>2 DEF OfBoard, LaunchedInv
<1>6. taken[x] # F /\ taken[x] + 1 \in DOMAIN accepted[x]
  BY <1>1, <1>2, <1>4, <1>5
<1>7. board[x] \in {"idle", "halted"} /\ x \notin completed
  BY <1>6 DEF OfBoard, LaunchedInv
<1>8. accepted[x][taken[x] + 1] = taken[x]
  <2>1. accepted[x][taken[x] + 1] = (taken[x] + 1) - 1
    BY <1>6 DEF EvidenceInv, FramesOnceInOrder
  <2>2. QED
    BY <1>2, <2>1
<1> HIDE DEF F
<1>9. /\ board'[x] \in {"idle", "halted", "running"}
      /\ board'[x] = "running" => taken'[x] = F
  <2>1. taken'[x] = taken[x] + 1
    BY <1>1, <1>2
  <2>2. CASE board' = board
    BY <1>7, <2>2
  <2>3. CASE board' = [board EXCEPT ![x] =
             IF taken[x] = 0 THEN "halted"
             ELSE IF taken[x] = F - 1 THEN "running" ELSE @]
    <3>1. board'[x] = IF taken[x] = 0 THEN "halted"
                      ELSE IF taken[x] = F - 1 THEN "running" ELSE board[x]
      BY <1>2, <2>3
    <3>2. taken[x] = F - 1 => taken[x] + 1 = F
      BY <1>2, <1>4 DEF F
    <3>3. QED
      BY <1>7, <2>1, <3>1, <3>2
  <2>4. QED
    BY <1>1, <1>8, <2>2, <2>3 DEF F
<1>10. LaunchedInv(x)'
  BY <1>1, <1>5, <1>7, <1>9 DEF LaunchedInv, F
<1>11. QueueInv(x) /\ UNCHANGED <<evidence, results, exceptions, exceptionAddresses>>
       /\ outcome' # "success" /\ outcome' = outcome
  BY <1>1 DEF OfBoard, hostVars, EvidenceInv, RunningInv
<1>12. ReportInv(x)'
  BY <1>1, <1>11 DEF OfBoard, ReportInv
<1>13. CompletionInv(x)' /\ (missed[x] = 0 => ResultInv(x)')
       /\ (missed[x] <= 1 => SeparatedInv(x)')
  BY <1>1, <1>11 DEF QueueInv, CompletionInv, ResultInv, SeparatedInv
<1>14. missed[x] <= 1 => WaitingInv(x)'
  BY <1>1, <1>7, <1>9, <1>11 DEF QueueInv, WaitingInv, OnlyWaits, NoWord
<1>15. QED
  BY <1>1, <1>10, <1>12, <1>13, <1>14 DEF OfBoard, QueueInv

\* What an idle board can be doing, and the packets it sends.
LEMMA CleanState ==
    ASSUME TypeOK, NEW x \in Boards, OfBoard(x)
    PROVE  /\ board \in [Boards -> {"idle", "prior", "prior_fault", "prior_stopped",
                                    "halted", "running", "fault", "stopped"}]
           /\ sent \in [Boards -> [results : Nat, faults : Nat]]
           /\ sent[x].results \in Nat /\ sent[x].faults \in Nat
           /\ Gen(x) \in {"this", "prior", "other"}
           /\ board[x] \in {"idle", "halted", "running", "fault", "stopped"}
BY DEF TypeOK, EnvTypeOK, OfBoard, LaunchedInv, Gen

\* A running board has not completed: its next result is the last of the queue.
LEMMA BoardResultKeeps ==
    ASSUME TypeOK, EvidenceInv, pc # "done", NEW x \in Boards, BoardResult(x), OfBoard(x)
    PROVE  OfBoard(x)'
<1>1. /\ UNCHANGED <<hostVars, board, completed, accepted, taken>>
      /\ sent' = [sent EXCEPT ![x].results = @ + 1]
      /\ board[x] \in {"running", "prior"}
  BY DEF BoardResult, Executing
<1>2. /\ sent \in [Boards -> [results : Nat, faults : Nat]]
      /\ sent[x].results \in Nat /\ Gen(x) \in {"this", "prior", "other"}
      /\ board[x] = "running"
  BY <1>1, CleanState
<1>3. sent'[x].results = sent[x].results + 1 /\ sent'[x].faults = sent[x].faults
  BY <1>1, <1>2
<1>4. sent[x].results + 1 \in Nat /\ sent[x].results + 1 # 0
  BY <1>2
<1>5. PICK q \in ResultPackets(x, sent[x].results + 1, Gen(x)) : ToHost(q)
  BY DEF BoardResult
<1>6. q \in PacketType /\ q.node = x
  BY <1>2, <1>4, <1>5, PacketTypes
<1>7. /\ IsResult(q, x) /\ q.word = sent[x].results + 1
      /\ ~IsCompletionOf(q, x) /\ ~IsAddress(q, x) /\ ~IsFlags(q, x)
  BY <1>4, <1>5, PacketKinds
<1>8. /\ Joins(q) /\ missed[x] \in Nat /\ missed'[x] \in Nat /\ missed'[x] >= missed[x]
      /\ rx' = Append(rx, q) \/ missed'[x] = missed[x] + 1
  BY <1>5, <1>6, ToHostCases
<1>9. QueueInv(x) /\ UNCHANGED <<evidence, results, exceptions, exceptionAddresses>>
      /\ outcome' # "success"
  BY <1>1 DEF OfBoard, hostVars, EvidenceInv, RunningInv
<1>10. LaunchedInv(x)'
  BY <1>1 DEF OfBoard, LaunchedInv
<1>11. ReportInv(x)'
  BY <1>8, <1>9, ReportStays DEF OfBoard
<1>12. CompletionInv(x)'
  BY <1>1, <1>6, <1>7, <1>8, <1>9, CompletionJoins DEF QueueInv
<1>13. ASSUME missed'[x] = 0 PROVE ResultInv(x)'
  <2>1. missed[x] = 0 /\ rx' = Append(rx, q)
    BY <1>8, <1>13
  <2>2. x \notin completed
    BY <1>2 DEF OfBoard, LaunchedInv
  <2>3. evidence[x] # "succeeded" /\ \A i \in DOMAIN rx : ~IsCompletionOf(rx[i], x)
    BY <1>9, <2>2 DEF QueueInv, CompletionInv
  <2>4. ResultInv(x)
    BY <1>9, <2>1 DEF QueueInv
  <2>5. QED
    BY <1>3, <1>6, <1>7, <1>9, <2>1, <2>3, <2>4, ResultSent
<1>14. missed'[x] <= 1 => SeparatedInv(x)' /\ WaitingInv(x)'
  BY <1>1, <1>3, <1>6, <1>7, <1>8, <1>9, ExceptionsJoin DEF QueueInv
<1>15. QED
  BY <1>10, <1>11, <1>12, <1>13, <1>14 DEF OfBoard, QueueInv

\* A completion follows every result of its board.
LEMMA BoardCompleteKeeps ==
    ASSUME TypeOK, EvidenceInv, pc # "done", NEW x \in Boards, BoardComplete(x), OfBoard(x)
    PROVE  OfBoard(x)'
<1> DEFINE q == CompletionPacket(x, Gen(x))
<1>1. /\ UNCHANGED <<hostVars, sent, accepted, taken>> /\ ToHost(q)
      /\ board[x] \in {"running", "prior"}
  BY DEF BoardComplete, Executing
<1>2. /\ Gen(x) \in {"this", "prior", "other"} /\ board[x] = "running"
      /\ board \in [Boards -> {"idle", "prior", "prior_fault", "prior_stopped",
                               "halted", "running", "fault", "stopped"}]
  BY <1>1, CleanState
<1>3. completed' = completed \cup {x} /\ board'[x] = "stopped"
  BY <1>2 DEF BoardComplete
<1>4. q \in PacketType /\ q.node = x
  BY <1>2, PacketTypes
<1>5. ~IsAddress(q, x) /\ ~IsFlags(q, x) /\ ~IsResult(q, x)
  BY PacketKinds
<1> HIDE DEF q
<1>6. Joins(q) /\ missed[x] \in Nat /\ missed'[x] \in Nat /\ missed'[x] >= missed[x]
  BY <1>1, <1>4, ToHostCases
<1>7. QueueInv(x) /\ UNCHANGED <<evidence, results, exceptions, exceptionAddresses>>
      /\ outcome' # "success"
  BY <1>1 DEF OfBoard, hostVars, EvidenceInv, RunningInv
<1>8. LaunchedInv(x)'
  BY <1>1, <1>2, <1>3 DEF OfBoard, LaunchedInv
<1>9. ReportInv(x)'
  BY <1>6, <1>7, ReportStays DEF OfBoard
<1>10. CompletionInv(x)'
  BY <1>3, <1>4, <1>6, <1>7, CompletionJoins DEF QueueInv
<1>11. missed'[x] = 0 => missed[x] = 0
  BY <1>6
<1>12. missed'[x] = 0 => ResultInv(x)'
  BY <1>1, <1>4, <1>5, <1>6, <1>7, <1>11, ResultJoins DEF QueueInv
<1>13. missed'[x] <= 1 => SeparatedInv(x)' /\ WaitingInv(x)'
  BY <1>1, <1>2, <1>3, <1>4, <1>5, <1>6, <1>7, ExceptionsJoin DEF QueueInv
<1>14. QED
  BY <1>8, <1>9, <1>10, <1>12, <1>13 DEF OfBoard, QueueInv

\* With no packet missed, nothing waited before the address of a new fault; with
\* one missed, the address itself waits in the queue.
LEMMA BoardFaultKeeps ==
    ASSUME TypeOK, EvidenceInv, pc # "done", NEW x \in Boards, BoardFault(x), OfBoard(x)
    PROVE  OfBoard(x)'
<1> DEFINE k == sent[x].faults + 1
<1> DEFINE q == ExceptionAddressPacket(x, k, Gen(x))
<1>1. /\ UNCHANGED <<hostVars, completed, accepted, taken>> /\ ToHost(q)
      /\ sent' = [sent EXCEPT ![x].faults = @ + 1]
      /\ board[x] \in {"running", "stopped", "prior"}
  BY DEF BoardFault
<1>2. /\ Gen(x) \in {"this", "prior", "other"} /\ board[x] \in {"running", "stopped"}
      /\ board \in [Boards -> {"idle", "prior", "prior_fault", "prior_stopped",
                               "halted", "running", "fault", "stopped"}]
      /\ sent \in [Boards -> [results : Nat, faults : Nat]]
      /\ k \in Nat
  BY <1>1, CleanState
<1>3. board'[x] = "fault"
  BY <1>2 DEF BoardFault
<1>4. sent'[x].results = sent[x].results /\ sent'[x].faults = k
  BY <1>1, <1>2
<1>5. q \in PacketType /\ q.node = x
  BY <1>2, PacketTypes
<1> HIDE DEF k
<1>6. IsAddress(q, x) /\ q.word = k /\ ~IsCompletionOf(q, x) /\ ~IsFlags(q, x)
      /\ ~IsResult(q, x)
  BY <1>2, PacketKinds
<1> HIDE DEF q
<1>7. /\ Joins(q) /\ missed[x] \in Nat /\ missed'[x] \in Nat /\ missed'[x] >= missed[x]
      /\ rx' = Append(rx, q) \/ (rx' = rx /\ missed'[x] = missed[x] + 1)
  BY <1>1, <1>5, ToHostCases
<1>8. QueueInv(x) /\ UNCHANGED <<evidence, results, exceptions, exceptionAddresses>>
      /\ outcome' # "success"
  BY <1>1 DEF OfBoard, hostVars, EvidenceInv, RunningInv
<1>9. LaunchedInv(x)'
  BY <1>1, <1>2, <1>3 DEF OfBoard, LaunchedInv
<1>10. ReportInv(x)'
  BY <1>7, <1>8, ReportStays DEF OfBoard
<1>11. CompletionInv(x)'
  BY <1>1, <1>5, <1>6, <1>7, <1>8, CompletionJoins DEF QueueInv
<1>12. missed'[x] = 0 => missed[x] = 0
  BY <1>7
<1>13. missed'[x] = 0 => ResultInv(x)'
  BY <1>4, <1>5, <1>6, <1>7, <1>8, <1>12, ResultJoins DEF QueueInv
<1>14. ASSUME missed'[x] <= 1 PROVE SeparatedInv(x)' /\ WaitingInv(x)'
  <2>1. missed[x] <= 1
    BY <1>7, <1>14
  <2>2. SeparatedInv(x)'
    BY <1>5, <1>6, <1>7, <1>8, <2>1, SeparatedJoins DEF QueueInv
  <2>3. OnlyWaits(x, sent[x].faults)'
    <3>1. CASE rx' = Append(rx, q)
      BY <1>4, <1>5, <1>6, <3>1, WaitsForLast DEF IsException, OnlyWaits
    <3>2. CASE rx' = rx /\ missed'[x] = missed[x] + 1
      <4>1. missed[x] = 0
        BY <1>7, <1>14, <3>2
      <4>2. OnlyWaits(x, NoWord)
        BY <1>2, <1>8, <2>1, <4>1 DEF QueueInv, WaitingInv
      <4>3. rx \in Seq(PacketType)
        BY DEF TypeOK, EnvTypeOK
      <4>4. \A j \in DOMAIN rx : rx[j].word # NoWord
        BY <4>3, QueuedWord DEF NoWord
      <4>5. x \in DOMAIN exceptionAddresses => exceptionAddresses[x] # NoWord
        BY DEF TypeOK, HostTypeOK, Words, NoWord
      <4>6. QED
        BY <1>8, <3>2, <4>2, <4>4, <4>5 DEF OnlyWaits
    <3>3. QED
      BY <1>7, <3>1, <3>2
  <2>4. QED
    BY <1>3, <2>2, <2>3 DEF WaitingInv
<1>15. QED
  BY <1>9, <1>10, <1>11, <1>13, <1>14 DEF OfBoard, QueueInv

\* The flags of the fault are the ones its address waits for.
LEMMA BoardReportExceptionKeeps ==
    ASSUME TypeOK, EvidenceInv, pc # "done", NEW x \in Boards, BoardReportException(x),
           OfBoard(x)
    PROVE  OfBoard(x)'
<1> DEFINE q == ExceptionPacket(x, sent[x].faults, Gen(x))
<1>1. /\ UNCHANGED <<hostVars, sent, completed, accepted, taken>> /\ ToHost(q)
      /\ board[x] \in {"fault", "prior_fault"}
  BY DEF BoardReportException
<1>2. /\ Gen(x) \in {"this", "prior", "other"} /\ board[x] = "fault"
      /\ board \in [Boards -> {"idle", "prior", "prior_fault", "prior_stopped",
                               "halted", "running", "fault", "stopped"}]
      /\ sent[x].faults \in Nat
  BY <1>1, CleanState
<1>3. board'[x] = "stopped"
  BY <1>2 DEF BoardReportException
<1>4. q \in PacketType /\ q.node = x
  BY <1>2, PacketTypes
<1>5. IsFlags(q, x) /\ q.word = sent[x].faults /\ ~IsCompletionOf(q, x)
      /\ ~IsAddress(q, x) /\ ~IsResult(q, x)
  BY <1>2, PacketKinds
<1> HIDE DEF q
<1>6. /\ Joins(q) /\ missed[x] \in Nat /\ missed'[x] \in Nat /\ missed'[x] >= missed[x]
      /\ rx' = Append(rx, q) \/ (rx' = rx /\ missed'[x] = missed[x] + 1)
  BY <1>1, <1>4, ToHostCases
<1>7. QueueInv(x) /\ UNCHANGED <<evidence, results, exceptions, exceptionAddresses>>
      /\ outcome' # "success"
  BY <1>1 DEF OfBoard, hostVars, EvidenceInv, RunningInv
<1>8. LaunchedInv(x)'
  BY <1>1, <1>2, <1>3 DEF OfBoard, LaunchedInv
<1>9. ReportInv(x)'
  BY <1>6, <1>7, ReportStays DEF OfBoard
<1>10. CompletionInv(x)'
  BY <1>1, <1>4, <1>5, <1>6, <1>7, CompletionJoins DEF QueueInv
<1>11. missed'[x] = 0 => missed[x] = 0 /\ rx' = Append(rx, q)
  BY <1>6
<1>12. missed'[x] = 0 => ResultInv(x)'
  BY <1>1, <1>4, <1>5, <1>6, <1>7, <1>11, ResultJoins DEF QueueInv
<1>13. ASSUME missed'[x] <= 1 PROVE SeparatedInv(x)' /\ WaitingInv(x)'
  <2>1. missed[x] <= 1
    BY <1>6, <1>13
  <2>2. OnlyWaits(x, q.word) /\ SeparatedInv(x)
    BY <1>2, <1>5, <1>7, <2>1 DEF QueueInv, WaitingInv
  <2>3. SeparatedInv(x)'
    BY <1>4, <1>6, <1>7, <2>2, SeparatedJoins
  <2>4. ASSUME missed'[x] = 0 PROVE OnlyWaits(x, NoWord)'
    <3>1. rx' = Append(rx, q)
      BY <1>11, <2>4
    <3>2. QED
      BY <1>4, <1>5, <3>1, WaitsForLast DEF IsException, OnlyWaits, NoWord
  <2>5. QED
    BY <1>3, <2>3, <2>4 DEF WaitingInv
<1>14. QED
  BY <1>8, <1>9, <1>10, <1>12, <1>13 DEF OfBoard, QueueInv

\* Another board's step is nothing to x.
LEMMA OtherBoardKeeps ==
    ASSUME TypeOK, EvidenceInv, pc # "done", NEW b \in Boards, BoardStep(b),
           NEW x \in Boards, x # b, OfBoard(x)
    PROVE  OfBoard(x)'
<1>1. /\ board \in [Boards -> {"idle", "prior", "prior_fault", "prior_stopped",
                               "halted", "running", "fault", "stopped"}]
      /\ sent \in [Boards -> [results : Nat, faults : Nat]]
      /\ taken \in [Boards -> Nat] /\ missed \in [Boards -> Nat]
      /\ rx \in Seq(PacketType)
  BY DEF TypeOK, EnvTypeOK
<1>2. /\ UNCHANGED <<hostVars, accepted>> /\ completed \subseteq completed'
      /\ x \in completed' => x \in completed
      /\ board'[x] = board[x] /\ taken'[x] = taken[x]
  BY <1>1 DEF BoardStep, TakeFrame, BoardResult, BoardComplete, BoardFault,
              BoardReportException
<1>3. sent'[x] = sent[x]
  BY <1>1 DEF BoardStep, TakeFrame, BoardResult, BoardComplete, BoardFault,
              BoardReportException
<1>4. Gen(b) \in {"this", "prior", "other"}
      /\ sent[b].results + 1 \in Nat /\ sent[b].faults + 1 \in Nat /\ sent[b].faults \in Nat
      /\ sent[b].results + 1 # 0
  BY <1>1 DEF Gen
<1>5. ASSUME NEW q \in PacketType, q.node = b, ToHost(q),
             ~IsCompletionOf(q, x), ~IsAddress(q, x), ~IsFlags(q, x), ~IsResult(q, x)
      PROVE  OfBoard(x)'
  BY <1>2, <1>3, <1>5, ToHostCases, OthersJoin
<1>6. CASE TakeFrame(b)
  <2>1. rx' = rx /\ missed' = missed
    BY <1>6 DEF TakeFrame
  <2> DEFINE q == CompletionPacket(b, "this")
  <2>2. q \in PacketType /\ ~IsCompletionOf(q, x) /\ ~IsAddress(q, x) /\ ~IsFlags(q, x)
        /\ ~IsResult(q, x)
    BY PacketTypes, PacketKinds
  <2> HIDE DEF q
  <2>3. Joins(q) /\ missed[x] \in Nat /\ missed'[x] \in Nat /\ missed'[x] >= missed[x]
    BY <1>1, <2>1 DEF Joins
  <2>4. QED
    BY <1>2, <1>3, <2>2, <2>3, OthersJoin
<1>7. CASE BoardResult(b)
  <2> DEFINE k == sent[b].results + 1
  <2>1. PICK q \in ResultPackets(b, k, Gen(b)) : ToHost(q)
    BY <1>7 DEF BoardResult
  <2>5. k \in Nat /\ k # 0
    BY <1>4
  <2> HIDE DEF k
  <2>2. q \in PacketType /\ q.node = b
    BY <1>4, <2>1, <2>5, PacketTypes
  <2>3. ~IsCompletionOf(q, x) /\ ~IsAddress(q, x) /\ ~IsFlags(q, x) /\ ~IsResult(q, x)
    BY <2>1, <2>5, PacketKinds
  <2>4. QED
    BY <1>5, <2>1, <2>2, <2>3
<1>8. CASE BoardComplete(b)
  <2> DEFINE q == CompletionPacket(b, Gen(b))
  <2>1. q \in PacketType /\ q.node = b /\ ToHost(q)
    BY <1>4, <1>8, PacketTypes DEF BoardComplete
  <2>2. ~IsCompletionOf(q, x) /\ ~IsAddress(q, x) /\ ~IsFlags(q, x) /\ ~IsResult(q, x)
    BY PacketKinds
  <2> HIDE DEF q
  <2>3. QED
    BY <1>5, <2>1, <2>2
<1>9. CASE BoardFault(b)
  <2> DEFINE k == sent[b].faults + 1
  <2> DEFINE q == ExceptionAddressPacket(b, k, Gen(b))
  <2>1. q \in PacketType /\ q.node = b /\ ToHost(q) /\ k \in Nat
    BY <1>4, <1>9, PacketTypes DEF BoardFault
  <2> HIDE DEF k
  <2>2. ~IsCompletionOf(q, x) /\ ~IsAddress(q, x) /\ ~IsFlags(q, x) /\ ~IsResult(q, x)
    BY <2>1, PacketKinds
  <2> HIDE DEF q
  <2>3. QED
    BY <1>5, <2>1, <2>2
<1>10. CASE BoardReportException(b)
  <2> DEFINE q == ExceptionPacket(b, sent[b].faults, Gen(b))
  <2>1. q \in PacketType /\ q.node = b /\ ToHost(q)
    BY <1>4, <1>10, PacketTypes DEF BoardReportException
  <2>2. ~IsCompletionOf(q, x) /\ ~IsAddress(q, x) /\ ~IsFlags(q, x) /\ ~IsResult(q, x)
    BY <1>4, PacketKinds
  <2> HIDE DEF q
  <2>3. QED
    BY <1>5, <2>1, <2>2
<1>11. QED
  BY <1>6, <1>7, <1>8, <1>9, <1>10 DEF BoardStep

\* The boards, the wire and time.
LEMMA EnvironmentKeeps ==
    ASSUME TypeOK, EvidenceInv, Environment, NEW x \in Boards, OfBoard(x)
    PROVE  OfBoard(x)'
<1>1. pc # "done"
  BY DEF Environment
<1>2. ASSUME NEW b \in Boards, BoardStep(b) PROVE OfBoard(x)'
  <2>1. CASE b = x
    BY <1>1, <1>2, <2>1, TakeFrameKeeps, BoardResultKeeps, BoardCompleteKeeps,
       BoardFaultKeeps, BoardReportExceptionKeeps DEF BoardStep
  <2>2. CASE b # x
    BY <1>1, <1>2, <2>2, OtherBoardKeeps
  <2>3. QED
    BY <2>1, <2>2
<1>3. missed \in [Boards -> Nat]
  BY DEF TypeOK, EnvTypeOK
<1>4. CASE Noise \/ Malform \/ Tick
  <2>1. PICK q \in NoisePackets \cup {MalformedPacket} : Joins(q)
    BY <1>4 DEF Noise, Malform, Tick, Joins
  <2>2. q \in PacketType
    BY NoiseTypes
  <2>3. ~IsCompletionOf(q, x) /\ ~IsAddress(q, x) /\ ~IsFlags(q, x) /\ ~IsResult(q, x)
    BY NoiseKinds
  <2>4. UNCHANGED <<hostVars, accepted, taken, boardVars>>
    BY <1>4 DEF Noise, Malform, Tick, wireVars
  <2>5. UNCHANGED <<board, sent, completed, missed>>
    BY <2>4 DEF boardVars
  <2>6. missed[x] \in Nat /\ missed'[x] \in Nat /\ missed'[x] >= missed[x]
    BY <1>3, <2>5
  <2>7. QED
    BY <1>1, <2>1, <2>2, <2>3, <2>4, <2>5, <2>6, OthersJoin
<1>5. QED
  BY <1>2, <1>4 DEF Environment

\* dispatch adds to the wire of the current board, never past its last frame.
LEMMA DispatchKeeps ==
    ASSUME TypeOK, EvidenceInv, EvidenceInv', Dispatch, NEW x \in Boards, OfBoard(x)
    PROVE  OfBoard(x)'
<1>1. /\ pc = "dispatch"
      /\ UNCHANGED <<exceptions, exceptionAddresses, results, boardVars, taken, rx>>
      /\ PutOnWire(CurrentBoard) \/ accepted' = accepted
      /\ outcome' \in {outcome, "transport_send_failed"}
  BY DEF Dispatch, SendOk, SendNotAccepted, SendAcceptanceUnknown, Return, wireVars
<1>2. /\ CurrentBoard \in Boards /\ CurrentBoard = BoardOrder[at]
      /\ at \in 1 .. Len(BoardOrder) /\ frame \in Nat
      /\ frame < FrameCount(IchLen[CurrentBoard])
      /\ accepted \in [Boards -> Seq(Nat)] /\ evidence \in [Boards -> States]
  BY CurrentType DEF TypeOK, HostTypeOK, EnvTypeOK, CurrentBoard
<1>3. outcome = "running" /\ evidence[x] # "succeeded"
  BY <1>1, DispatchState
<1>4. evidence'[x] # "succeeded"
  <2>1. CASE evidence' = evidence
    BY <1>3, <2>1
  <2>2. CASE AdvanceSubmitted(CurrentBoard, CurrentLaunches)
    <3>1. evidence' = [evidence EXCEPT ![CurrentBoard] =
             IF CurrentLaunches THEN "launch_submitted" ELSE "loader_submitted"]
      BY <1>1, <2>2, AdvanceRecords
    <3>2. QED
      BY <1>2, <1>3, <3>1
  <2>3. QED
    BY <2>1, <2>2 DEF Dispatch, SendOk, SendNotAccepted, SendAcceptanceUnknown
<1>5. Len(accepted'[x]) <= FrameCount(IchLen[x])
  <2>1. CASE accepted'[x] = accepted[x]
    BY <2>1 DEF OfBoard, LaunchedInv
  <2>2. CASE PutOnWire(CurrentBoard) /\ x = CurrentBoard
    <3>1. accepted'[x] = Append(accepted[x], frame)
      BY <1>2, <2>2 DEF PutOnWire
    <3>2. DispatchRecord(at)
      BY <1>1, <1>2 DEF EvidenceInv, DispatchInv
    <3>3. Len(accepted[x]) = frame
      BY <1>2, <2>2, <3>2 DEF DispatchRecord
    <3>4. Len(accepted'[x]) = frame + 1
      BY <1>2, <3>1, <3>3
    <3>5. FrameCount(IchLen[x]) \in Nat
      <4>1. IchLen[x] \in Nat
        BY ProgramAssumption
      <4>2. QED
        BY <4>1, FrameLayout
    <3>6. QED
      BY <1>2, <2>2, <3>4, <3>5
  <2>3. CASE PutOnWire(CurrentBoard) /\ x # CurrentBoard
    BY <1>2, <2>1, <2>3 DEF PutOnWire
  <2>4. QED
    BY <1>1, <2>1, <2>2, <2>3
<1>6. UNCHANGED <<board, sent, completed, missed>>
  BY <1>1 DEF boardVars
<1>7. LaunchedInv(x)'
  BY <1>1, <1>5, <1>6 DEF OfBoard, LaunchedInv
<1>8. outcome # "success" /\ outcome' # "success"
  BY <1>1, <1>3
<1>9. ReportInv(x)'
  BY <1>1, <1>6, <1>8 DEF OfBoard, ReportInv
<1>10. QueueInv(x)
  BY <1>1 DEF OfBoard
<1>11. CompletionInv(x)'
  BY <1>1, <1>4, <1>6, <1>10 DEF QueueInv, CompletionInv
<1>12. missed[x] = 0 => ResultInv(x)'
  BY <1>1, <1>4, <1>6, <1>10 DEF QueueInv, ResultInv
<1>13. missed[x] <= 1 => SeparatedInv(x)' /\ WaitingInv(x)'
  BY <1>1, <1>6, <1>10 DEF QueueInv, SeparatedInv, WaitingInv, OnlyWaits, NoWord
<1>14. QED
  BY <1>6, <1>7, <1>9, <1>11, <1>12, <1>13 DEF OfBoard, QueueInv

\* Steps that touch nothing that is kept of x.
LEMMA UnchangedKeeps ==
    ASSUME UNCHANGED <<evidence, exceptions, exceptionAddresses, results, outcome,
                       boardVars, accepted, taken, rx>>,
           pc' = "done" <=> pc = "done",
           NEW x \in Boards, OfBoard(x)
    PROVE  OfBoard(x)'
<1>1. UNCHANGED <<board, sent, completed, missed>>
  BY DEF boardVars
<1>2. LaunchedInv(x)' /\ ReportInv(x)'
  BY <1>1 DEF OfBoard, LaunchedInv, ReportInv
<1>3. ASSUME QueueInv(x) PROVE QueueInv(x)'
  BY <1>1, <1>3 DEF QueueInv, CompletionInv, ResultInv, SeparatedInv, WaitingInv,
                    OnlyWaits, NoWord
<1>4. QED
  BY <1>2, <1>3 DEF OfBoard

\* prepare, open, and monitor's returns without a packet.
LEMMA HostKeeps ==
    ASSUME TypeOK, EvidenceInv, EvidenceInv',
           Prepare \/ Open \/ MonitorConclude \/ ReceiveNone \/ ReceiveError,
           NEW x \in Boards, OfBoard(x)
    PROVE  OfBoard(x)'
<1>1. /\ pc # "done"
      /\ UNCHANGED <<evidence, exceptions, exceptionAddresses, results, boardVars,
                     wireVars, rx>>
      /\ pc' = "done" \/ outcome' = outcome
  BY DEF Prepare, Open, MonitorConclude, ReceiveNone, ReceiveError, Return
<1>2. CASE pc' = "done"
  BY <1>1, <1>2, ReturnKeeps
<1>3. CASE pc' # "done"
  BY <1>1, <1>3, UnchangedKeeps DEF wireVars
<1>4. QED
  BY <1>2, <1>3

\* preflight refuses a configuration whose boards are not the program's.
LEMMA ConfiguredStep ==
    ASSUME pc \notin {"prepare", "done"} => config.boards = Boards, [Next]_vars
    PROVE  (pc \notin {"prepare", "done"} => config.boards = Boards)'
<1>1. CASE Prepare
  BY <1>1 DEF Prepare, HandoffValid, Return
<1>2. CASE Open \/ Dispatch \/ MonitorConclude \/ ReceiveNone \/ ReceiveError
  BY <1>2 DEF Open, Dispatch, SendOk, SendNotAccepted, SendAcceptanceUnknown,
              MonitorConclude, ReceiveNone, ReceiveError, Return
<1>3. CASE Apply
  BY <1>3, ApplyFrameRest DEF Receive
<1>4. CASE Environment
  <2>1. UNCHANGED hostVars
    BY <1>4 DEF Environment, BoardStep, TakeFrame, BoardResult, BoardComplete,
                BoardFault, BoardReportException, Noise, Malform, Tick
  <2>2. QED
    BY <2>1 DEF hostVars
<1>5. CASE UNCHANGED vars
  BY <1>5 DEF vars, hostVars
<1>6. QED
  BY <1>1, <1>2, <1>3, <1>4, <1>5 DEF Next, Host, Monitor, Apply, Returned

\* Nothing is queued and nothing was sent when the run begins.
LEMMA InitClean == Init => CleanInv
<1> SUFFICES ASSUME Init PROVE CleanInv
  OBVIOUS
<1>1. pc = "prepare"
  BY DEF Init
<1> SUFFICES ASSUME NEW x \in CleanBoards
             PROVE  LaunchedInv(x) /\ ReportInv(x) /\ QueueInv(x)
  BY <1>1 DEF CleanInv
<1>2. x \in Boards /\ x \notin PriorBoards
  BY DEF CleanBoards
<1>3. /\ evidence[x] = "not_dispatched" /\ results[x] = <<>> /\ rx = <<>>
      /\ exceptions = [b \in {} |-> None] /\ exceptionAddresses = [b \in {} |-> None]
      /\ outcome = "running" /\ accepted[x] = <<>> /\ board[x] = "idle"
      /\ sent[x] = [results |-> 0, faults |-> 0] /\ completed = {} /\ missed[x] = 0
  BY <1>2 DEF Init
<1>4. IchLen[x] \in Nat
  BY <1>2, ProgramAssumption
<1>5. FrameCount(IchLen[x]) \in Nat
  BY <1>4, FrameLayout
<1>6. LaunchedInv(x)
  BY <1>3, <1>5 DEF LaunchedInv
<1>7. ReportInv(x)
  BY <1>3 DEF ReportInv
<1>8. CompletionInv(x) /\ ResultInv(x)
  BY <1>3 DEF CompletionInv, ResultInv
<1>9. SeparatedInv(x) /\ WaitingInv(x)
  BY <1>3 DEF SeparatedInv, WaitingInv, OnlyWaits
<1>10. QED
  BY <1>6, <1>7, <1>8, <1>9 DEF QueueInv

\* CleanInv is inductive relative to the types and EvidenceInv.
LEMMA StepClean ==
    TypeOK /\ EvidenceInv /\ EvidenceInv' /\ CleanInv /\ [Next]_vars => CleanInv'
<1> SUFFICES ASSUME TypeOK, EvidenceInv, EvidenceInv', CleanInv, [Next]_vars
             PROVE  CleanInv'
  OBVIOUS
<1>1. (pc \notin {"prepare", "done"} => config.boards = Boards)'
  BY ConfiguredStep DEF CleanInv
<1>2. ASSUME NEW x \in CleanBoards PROVE OfBoard(x)'
  <2>1. x \in Boards /\ OfBoard(x)
    BY DEF CleanBoards, CleanInv, OfBoard
  <2>2. CASE Prepare \/ Open \/ MonitorConclude \/ ReceiveNone \/ ReceiveError
    BY <2>1, <2>2, HostKeeps
  <2>3. CASE Dispatch
    BY <2>1, <2>3, DispatchKeeps
  <2>4. CASE Apply
    <3>1. config.boards = Boards
      BY <2>4, ApplyFrameRest DEF Receive, CleanInv
    <3>2. QED
      BY <2>1, <2>4, <3>1, ApplyKeeps
  <2>5. CASE Environment
    BY <2>1, <2>5, EnvironmentKeeps
  <2>6. CASE UNCHANGED vars
    BY <2>1, <2>6, UnchangedKeeps DEF vars, hostVars, wireVars
  <2>7. QED
    BY <2>2, <2>3, <2>4, <2>5, <2>6 DEF Next, Host, Monitor, Apply, Returned
<1>3. QED
  BY <1>1, <1>2 DEF CleanInv, OfBoard

\* It holds in every run, of every board found idle.
LEMMA CleanInvariant == Spec => []CleanInv
<1>1. Spec => []TypeOK
  BY TypeCorrect
<1>2. QED
  BY <1>1, EvidenceInvariant, InitClean, StepClean, PTL DEF Spec

-----------------------------------------------------------------------------
(* What a caller may rely on. *)

\* Whatever the other boards were doing, a success says that every board found
\* idle ran this run's program to its end (RuntimeSuccess, execution.rs:194).
IdleBoardsTrusted == outcome = "success" => CleanBoards \subseteq completed

\* A success is trusted of every board found idle, even next to others that
\* still run an earlier program.
THEOREM SuccessTrustedOfIdleBoards == Spec => []IdleBoardsTrusted
<1>1. CleanInv => IdleBoardsTrusted
  BY DEF CleanInv, ReportInv, IdleBoardsTrusted
<1>2. QED
  BY <1>1, CleanInvariant, PTL

\* With no board still running an earlier program, a success is trusted: every
\* board executed this run's program to its completion.
THEOREM SuccessTrusted ==
    ASSUME PriorBoards = {}
    PROVE  Spec => []SuccessIsTrusted
<1>1. TypeOK /\ CleanInv => SuccessIsTrusted
  BY DEF CleanInv, ReportInv, CleanBoards, SuccessIsTrusted, TypeOK, EnvTypeOK
<1>2. QED
  BY <1>1, TypeCorrect, CleanInvariant, PTL

\* ... and carries every result word, in order, of each board none of whose
\* packets was dropped: monitor cannot end on a completion before the results
\* sent ahead of it.
THEOREM ResultsAllDelivered ==
    ASSUME PriorBoards = {}
    PROVE  Spec => []ResultsComplete
<1>1. CleanInv => ResultsComplete
  BY DEF CleanInv, ReportInv, CleanBoards, ResultsComplete
<1>2. QED
  BY <1>1, CleanInvariant, PTL

\* ... and the address in a device-exception report is that of the fault whose
\* flags it carries, or missing, even if the wire lost one packet of the board.
THEOREM AddressesCorrelated ==
    ASSUME PriorBoards = {}
    PROVE  Spec => []AddressCorrelated
<1>1. TypeOK /\ CleanInv => AddressCorrelated
  BY DEF CleanInv, ReportInv, CleanBoards, AddressCorrelated, TypeOK, HostTypeOK
<1>2. QED
  BY <1>1, TypeCorrect, CleanInvariant, PTL
=============================================================================
