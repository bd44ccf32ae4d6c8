---------------------------- MODULE RelayProofs -----------------------------
(***************************************************************************)
(* Proofs about Relay, for any number of SETUP requests and any size of    *)
(* the buffers and queues.                                                 *)
(***************************************************************************)
EXTENDS Relay, Integers, SequenceTheorems, TLAPS

IsHead(i) == from_client[i].part = "line"

IsTransport(i) == from_client[i].part = "port"

IsEnd(i) == from_client[i].part = "rest"

(* The SETUPs the camera has got whole, up to the client's having their reply. *)
Answering ==
    arrived \cup ((ToSet(from_camera) \cup ToSet(to_client)) \ {0}) \cup heard

(* What the client sent stays in its order and a SETUP has its end; a SETUP *)
(* that is still on its way behind another one was sent early.             *)
OrderInv ==
    /\ \A i \in DOMAIN from_client : IsHead(i) \/ IsTransport(i) \/ IsEnd(i) =>
          from_client[i].req \in 1 .. setups
    /\ \A i, j \in DOMAIN from_client : i < j /\ IsHead(i) /\ IsHead(j) =>
          from_client[i].req < from_client[j].req
    /\ \A i, j \in DOMAIN from_client : i < j /\ IsTransport(i) /\ IsTransport(j) =>
          from_client[i].req < from_client[j].req /\ from_client[j].req \in early
    /\ \A i, j \in DOMAIN from_client : i < j /\ IsEnd(i) /\ IsEnd(j) =>
          from_client[i].req < from_client[j].req
    /\ \A i \in DOMAIN from_client : IsTransport(i) =>
          /\ i + 1 \in DOMAIN from_client /\ IsEnd(i + 1)
          /\ from_client[i + 1].req = from_client[i].req

(* No SETUP is answered before all of it has gone through the proxy. *)
AnswerInv ==
    /\ Answering \subseteq 1 .. setups
    /\ \A i \in DOMAIN from_client : IsEnd(i) => from_client[i].req \notin Answering

(* The counter passes two channels for each SETUP that began, and no SETUP  *)
(* but a torn one was given any it has not passed.  Channels are given in  *)
(* the order of the SETUPs.                                                *)
ChannelInv ==
    /\ interleaved <= 2 * setups
    /\ \A i \in DOMAIN from_client : IsHead(i) =>
          interleaved + 2 <= 2 * from_client[i].req
    /\ \A m \in Request \ torn : \A ch \in given[m] : ch < interleaved
    /\ \A m \in Request : given[m] # {} =>
          /\ m <= setups
          /\ \A i \in DOMAIN from_client : IsTransport(i) => m < from_client[i].req
    /\ ChannelsDistinct

(* A read pipe has room for one more item.  The client's transport is only  *)
(* ever closed because of the client, a stop, or the camera's end after     *)
(* everything from it was written; once lost, it holds nothing.            *)
DownInv ==
    /\ down = "read" => Len(to_client) < HighWater
    /\ lost => client = "closed" \/ stopped
    /\ client_tr = "lost" => to_client = <<>>
    /\ client_tr # "open" => down = "ended" \/ stopped \/ client = "closed"

RelayInv == OrderInv /\ AnswerInv /\ ChannelInv

IInv == TypeOK /\ RelayInv /\ DownInv

-----------------------------------------------------------------------------
(* The sequences the two directions are made of.                           *)

LEMMA AppendSet ==
    ASSUME NEW S, NEW s \in Seq(S), NEW x \in S
    PROVE  ToSet(Append(s, x)) = ToSet(s) \cup {x}
  <1>1. /\ Append(s, x) \in Seq(S)
        /\ Len(Append(s, x)) = Len(s) + 1
        /\ \A i \in 1 .. Len(s) : Append(s, x)[i] = s[i]
        /\ Append(s, x)[Len(s) + 1] = x
    BY AppendProperties
  <1>2. Len(s) \in Nat /\ DOMAIN s = 1 .. Len(s) /\ DOMAIN Append(s, x) = 1 .. (Len(s) + 1)
    BY <1>1, LenProperties
  <1>3. QED
    BY <1>1, <1>2 DEF ToSet

LEMMA TailSet ==
    ASSUME NEW S, NEW s \in Seq(S), s # <<>>
    PROVE  Head(s) \in ToSet(s) /\ ToSet(Tail(s)) \subseteq ToSet(s)
  <1>1. /\ Tail(s) \in Seq(S) /\ Len(Tail(s)) = Len(s) - 1
        /\ \A i \in 1 .. Len(Tail(s)) : Tail(s)[i] = s[i + 1]
    BY HeadTailProperties
  <1>2. Len(s) \in Nat \ {0} /\ DOMAIN s = 1 .. Len(s) /\ DOMAIN Tail(s) = 1 .. (Len(s) - 1)
    BY <1>1, LenProperties, EmptySeq
  <1>3. Head(s) = s[1]
    BY <1>2
  <1>4. QED
    BY <1>1, <1>2, <1>3 DEF ToSet

(* What is left after the first n elements, and what those are. *)
LEMMA SplitSeq ==
    ASSUME NEW S, NEW s \in Seq(S), NEW n \in 1 .. Len(s)
    PROVE  LET rest == SubSeq(s, n + 1, Len(s))
           IN  /\ rest \in Seq(S) /\ Len(rest) = Len(s) - n
               /\ \A i \in DOMAIN rest : i + n \in DOMAIN s /\ n < i + n /\ rest[i] = s[i + n]
               /\ ToSet(SubSeq(s, 1, n)) = {s[i] : i \in 1 .. n}
  <1>1. Len(s) \in Nat /\ DOMAIN s = 1 .. Len(s) /\ \A i \in 1 .. Len(s) : s[i] \in S
    BY LenProperties, ElementOfSeq
  <1> DEFINE rest == SubSeq(s, n + 1, Len(s))
             first == SubSeq(s, 1, n)
  <1>2. /\ rest \in Seq(S)
        /\ Len(rest) = IF n + 1 <= Len(s) THEN Len(s) - (n + 1) + 1 ELSE 0
        /\ \A i \in 1 .. Len(s) - (n + 1) + 1 : rest[i] = s[n + 1 + i - 1]
    <2>1. n + 1 \in Int /\ Len(s) \in Int /\ \A i \in (n + 1) .. Len(s) : s[i] \in S
      BY <1>1
    <2>2. QED
      BY <2>1, SubSeqProperties
  <1>3. /\ first \in Seq(S)
        /\ Len(first) = IF 1 <= n THEN n - 1 + 1 ELSE 0
        /\ \A i \in 1 .. n - 1 + 1 : first[i] = s[1 + i - 1]
    <2>1. n \in Int /\ 1 \in Int /\ \A i \in 1 .. n : s[i] \in S
      BY <1>1
    <2>2. QED
      BY <2>1, SubSeqProperties
  <1>4. Len(rest) = Len(s) - n /\ DOMAIN rest = 1 .. (Len(s) - n)
    BY <1>1, <1>2, LenProperties
  <1>5. Len(first) = n /\ DOMAIN first = 1 .. n /\ \A i \in 1 .. n : first[i] = s[i]
    BY <1>1, <1>3, LenProperties
  <1>6. \A i \in DOMAIN rest : i + n \in DOMAIN s /\ n < i + n /\ rest[i] = s[i + n]
    <2>1. ASSUME NEW i \in DOMAIN rest
          PROVE  i + n \in DOMAIN s /\ n < i + n /\ rest[i] = s[i + n]
      <3>1. i \in 1 .. (Len(s) - n)
        BY <1>4
      <3>2. /\ i \in 1 .. Len(s) - (n + 1) + 1 /\ n + 1 + i - 1 = i + n
            /\ i + n \in 1 .. Len(s) /\ n < i + n
        <4>1. Len(s) \in Nat
          BY <1>1
        <4>2. QED
          BY <3>1, <4>1
      <3>3. rest[i] = s[n + 1 + i - 1]
        BY <1>2, <3>2
      <3>4. QED
        BY <1>1, <3>2, <3>3
    <2>2. QED
      BY <2>1
  <1>7. ToSet(first) = {s[i] : i \in 1 .. n}
    BY <1>5 DEF ToSet
  <1>8. QED
    BY <1>2, <1>4, <1>6, <1>7

-----------------------------------------------------------------------------
LEMMA InitIInv == Init => IInv
  <1>1. SUFFICES ASSUME Init
                 PROVE  IInv
    OBVIOUS
  <1>2. \A S : <<>> \in Seq(S) /\ Len(<<>>) = 0
    BY EmptySeq
  <1>3. DOMAIN <<>> = {} /\ ToSet(<<>>) = {}
    BY DEF ToSet
  <1>4. TypeOK
    <2>1. from_client \in Seq(Piece) /\ from_camera \in Seq(Item) /\ to_client \in Seq(Item)
      BY <1>1, <1>2 DEF Init
    <2>2. /\ given \in [Request -> SUBSET Nat] /\ torn \subseteq Request
          /\ 0 \in 0 .. MaxSetup /\ 0 \in 0 .. 2 * MaxSetup
      BY <1>1, RelayAssumption DEF Init
    <2>3. Len(from_client) <= MaxPieces /\ Len(from_camera) <= MaxQueue /\ Len(to_client) <= HighWater
      BY <1>1, <1>2, RelayAssumption DEF Init
    <2>4. QED
      BY <1>1, <2>1, <2>2, <2>3, RelayAssumption DEF Init, TypeOK
  <1>5. OrderInv /\ AnswerInv
    BY <1>1, <1>3 DEF Init, OrderInv, AnswerInv, Answering
  <1>6. ChannelInv
    BY <1>1, <1>3 DEF Init, ChannelInv, ChannelsDistinct
  <1>7. DownInv
    BY <1>1, <1>2, RelayAssumption DEF Init, DownInv
  <1>8. QED
    BY <1>4, <1>5, <1>6, <1>7 DEF IInv, RelayInv

(* A step that neither sends nor forwards a request, and answers none. *)
LEMMA QuietKeeps ==
    ASSUME RelayInv, UNCHANGED <<setups, early, from_client, interleaved, given, torn>>,
           Answering' \subseteq Answering
    PROVE  RelayInv'
  <1>1. \A i : /\ IsHead(i)' = IsHead(i) /\ IsTransport(i)' = IsTransport(i)
               /\ IsEnd(i)' = IsEnd(i)
    BY DEF IsHead, IsTransport, IsEnd
  <1>2. OrderInv'
    BY <1>1 DEF RelayInv, OrderInv
  <1>3. AnswerInv'
    BY <1>1 DEF RelayInv, AnswerInv
  <1>4. ChannelInv'
    BY <1>1 DEF RelayInv, ChannelInv, ChannelsDistinct
  <1>5. QED
    BY <1>2, <1>3, <1>4 DEF RelayInv

(* The client sends: the new pieces come last. *)
LEMMA SendsKeeps ==
    ASSUME IInv, SendsSetup \/ SendsOther
    PROVE  IInv'
  <1> DEFINE n == setups + 1
  <1>1. /\ setups \in Nat /\ MaxSetup \in Nat /\ MaxPieces \in Nat /\ setups <= MaxSetup
        /\ heard \subseteq 1 .. setups /\ early \subseteq 1 .. setups
        /\ from_client \in Seq(Piece) /\ interleaved \in Nat
    BY RelayAssumption DEF IInv, TypeOK
  <1>2. Answering' = Answering
    BY DEF SendsSetup, SendsOther, ClientSends, Answering, asked, rtsp
  <1>3. CASE SendsSetup
    <2> DEFINE new == Setup(n)
    <2>1. /\ setups < MaxSetup /\ setups' = n /\ n \in Request
          /\ ClientSends(new)
          /\ heard' = heard
          /\ early' = IF \A m \in 1 .. setups : m \in heard THEN early ELSE early \cup {n}
      BY <1>1, <1>3 DEF SendsSetup, Request
    <2>2. /\ new \in Seq(Piece) /\ Len(new) = 5
          /\ \A k \in 1 .. 5 : new[k].req = n
          /\ new[1].part = "verb" /\ new[2].part = "line" /\ new[3].part = "transport"
          /\ new[4].part = "port" /\ new[5].part = "rest"
      BY <2>1 DEF Setup, Piece, Part
    <2>3. /\ from_client' \in Seq(Piece) /\ Len(from_client') = Len(from_client) + 5
          /\ \A i \in 1 .. Len(from_client) : from_client'[i] = from_client[i]
          /\ \A k \in 1 .. 5 : from_client'[Len(from_client) + k] = new[k]
          /\ Len(from_client') <= MaxPieces
      <3>1. /\ from_client' = from_client \o new
            /\ Len(from_client) + Len(new) <= MaxPieces
        BY <2>1 DEF ClientSends
      <3>2. /\ from_client \o new \in Seq(Piece)
            /\ Len(from_client \o new) = Len(from_client) + Len(new)
            /\ \A i \in 1 .. Len(from_client) + Len(new) :
                  (from_client \o new)[i] = IF i <= Len(from_client) THEN from_client[i]
                                            ELSE new[i - Len(from_client)]
        BY <1>1, <2>2, ConcatProperties
      <3>3. Len(from_client) \in Nat
        BY <1>1, LenProperties
      <3>4. ASSUME NEW k \in 1 .. 5
            PROVE  (from_client \o new)[Len(from_client) + k] = new[k]
        <4>1. /\ Len(from_client) + k \in 1 .. Len(from_client) + Len(new)
              /\ ~(Len(from_client) + k <= Len(from_client))
              /\ Len(from_client) + k - Len(from_client) = k
          BY <2>2, <3>3
        <4> HIDE DEF new
        <4>2. QED
          BY <3>2, <4>1
      <3> HIDE DEF new
      <3>5. \A k \in 1 .. 5 : from_client'[Len(from_client) + k] = new[k]
        BY <3>1, <3>4
      <3>6. Len(from_client') = Len(from_client) + 5 /\ Len(from_client') <= MaxPieces
        BY <2>2, <3>1, <3>2, <3>3
      <3>7. \A i \in 1 .. Len(from_client) : from_client'[i] = from_client[i]
        <4>1. \A i \in 1 .. Len(from_client) :
                 i \in 1 .. Len(from_client) + Len(new) /\ i <= Len(from_client)
          BY <2>2, <3>3
        <4>2. QED
          BY <3>1, <3>2, <4>1
      <3>8. QED
        BY <3>1, <3>2, <3>5, <3>6, <3>7
    <2> HIDE DEF new
    <2>4. /\ Len(from_client) \in Nat /\ DOMAIN from_client = 1 .. Len(from_client)
          /\ DOMAIN from_client' = 1 .. (Len(from_client) + 5)
      BY <1>1, <2>3, LenProperties
    <2>5. /\ \A i \in DOMAIN from_client : /\ i \in DOMAIN from_client'
                                           /\ IsHead(i)' = IsHead(i)
                                           /\ IsTransport(i)' = IsTransport(i)
                                           /\ IsEnd(i)' = IsEnd(i)
                                           /\ from_client'[i] = from_client[i]
          /\ \A i \in DOMAIN from_client' \ DOMAIN from_client :
                /\ from_client'[i].req = n
                /\ IsHead(i)' => i = Len(from_client) + 2
                /\ IsTransport(i)' => i = Len(from_client) + 4
                /\ IsEnd(i)' => i = Len(from_client) + 5
          /\ \A i \in Nat : i = Len(from_client) + 5 =>
                /\ i \in DOMAIN from_client'
                /\ IsEnd(i)' /\ from_client'[i].req = n
      <3>1. ASSUME NEW i \in DOMAIN from_client
            PROVE  /\ i \in DOMAIN from_client'
                   /\ IsHead(i)' = IsHead(i)
                   /\ IsTransport(i)' = IsTransport(i)
                   /\ IsEnd(i)' = IsEnd(i)
                   /\ from_client'[i] = from_client[i]
        BY <2>3, <2>4, <3>1 DEF IsHead, IsTransport, IsEnd
      <3>2. ASSUME NEW i \in DOMAIN from_client' \ DOMAIN from_client
            PROVE  /\ from_client'[i].req = n
                   /\ IsHead(i)' => i = Len(from_client) + 2
                   /\ IsTransport(i)' => i = Len(from_client) + 4
                   /\ IsEnd(i)' => i = Len(from_client) + 5
        <4>1. PICK k \in 1 .. 5 : i = Len(from_client) + k
          <5>1. i \in Int /\ i > Len(from_client) /\ i <= Len(from_client) + 5
            BY <2>4, <3>2
          <5>2. i - Len(from_client) \in 1 .. 5
            BY <2>4, <5>1
          <5>3. i = Len(from_client) + (i - Len(from_client))
            BY <2>4, <5>1
          <5>4. QED
            BY <5>2, <5>3
        <4>2. from_client'[i] = new[k]
          BY <2>3, <4>1
        <4>3. k = 1 \/ k = 2 \/ k = 3 \/ k = 4 \/ k = 5
          OBVIOUS
        <4>4. QED
          BY <2>2, <4>1, <4>2, <4>3 DEF IsHead, IsTransport, IsEnd
      <3>3. ASSUME NEW i \in Nat, i = Len(from_client) + 5
            PROVE  /\ i \in DOMAIN from_client'
                   /\ IsEnd(i)' /\ from_client'[i].req = n
        <4>1. from_client'[i] = new[5] /\ 5 \in 1 .. 5
          BY <2>3, <3>3
        <4>2. i \in 1 .. (Len(from_client) + 5)
          BY <2>4, <3>3
        <4>3. QED
          BY <2>2, <2>4, <4>1, <4>2 DEF IsEnd
      <3>4. QED
        BY <3>1, <3>2, <3>3
    <2>6. early \subseteq early'
      BY <2>1
    <2>7. \A i \in DOMAIN from_client : IsTransport(i) => n \in early'
      <3>1. ASSUME NEW i \in DOMAIN from_client, IsTransport(i)
            PROVE  from_client[i].req \in 1 .. setups /\ from_client[i].req \notin heard
        <4>1. /\ i + 1 \in DOMAIN from_client /\ IsEnd(i + 1)
              /\ from_client[i + 1].req = from_client[i].req
              /\ from_client[i].req \in 1 .. setups
          BY <3>1 DEF IInv, RelayInv, OrderInv
        <4>2. QED
          BY <4>1 DEF IInv, RelayInv, AnswerInv, Answering
      <3>2. QED
        BY <2>1, <3>1
    <2>8. OrderInv'
      <3>1. ASSUME NEW i \in DOMAIN from_client', IsHead(i)' \/ IsTransport(i)' \/ IsEnd(i)'
            PROVE  from_client'[i].req \in 1 .. n
        <4>1. CASE i \in DOMAIN from_client
          <5>1. from_client'[i].req \in 1 .. setups
            BY <2>5, <3>1, <4>1 DEF IInv, RelayInv, OrderInv
          <5>2. QED
            BY <1>1, <5>1
        <4>2. CASE i \notin DOMAIN from_client
          BY <1>1, <2>5, <4>2
        <4>3. QED
          BY <4>1, <4>2
      <3>2. ASSUME NEW i \in DOMAIN from_client', NEW j \in DOMAIN from_client', i < j,
                   \/ IsHead(i)' /\ IsHead(j)'
                   \/ IsTransport(i)' /\ IsTransport(j)'
                   \/ IsEnd(i)' /\ IsEnd(j)'
            PROVE  from_client'[i].req < from_client'[j].req
        <4>1. i \in DOMAIN from_client
          BY <2>4, <2>5, <3>2
        <4>2. CASE j \in DOMAIN from_client
          BY <2>5, <3>2, <4>1, <4>2 DEF IInv, RelayInv, OrderInv
        <4>3. CASE j \notin DOMAIN from_client
          <5>1. from_client[i].req \in 1 .. setups
            BY <2>5, <3>2, <4>1 DEF IInv, RelayInv, OrderInv
          <5>2. from_client'[i].req = from_client[i].req /\ from_client'[j].req = n
            BY <2>5, <4>1, <4>3
          <5>3. QED
            BY <1>1, <5>1, <5>2
        <4>4. QED
          BY <4>2, <4>3
      <3>3. ASSUME NEW i \in DOMAIN from_client', NEW j \in DOMAIN from_client', i < j,
                   IsTransport(i)' /\ IsTransport(j)'
            PROVE  from_client'[j].req \in early'
        <4>1. i \in DOMAIN from_client
          BY <2>4, <2>5, <3>3
        <4>2. CASE j \in DOMAIN from_client
          BY <2>5, <2>6, <3>3, <4>1, <4>2 DEF IInv, RelayInv, OrderInv
        <4>3. CASE j \notin DOMAIN from_client
          BY <2>5, <2>7, <3>3, <4>1, <4>3
        <4>4. QED
          BY <4>2, <4>3
      <3>4. ASSUME NEW i \in DOMAIN from_client', IsTransport(i)'
            PROVE  /\ i + 1 \in DOMAIN from_client' /\ IsEnd(i + 1)'
                   /\ from_client'[i + 1].req = from_client'[i].req
        <4>1. CASE i \in DOMAIN from_client
          <5>1. /\ i + 1 \in DOMAIN from_client /\ IsEnd(i + 1)
                /\ from_client[i + 1].req = from_client[i].req
            BY <2>5, <3>4, <4>1 DEF IInv, RelayInv, OrderInv
          <5>2. /\ i + 1 \in DOMAIN from_client' /\ from_client'[i + 1] = from_client[i + 1]
                /\ IsEnd(i + 1)' = IsEnd(i + 1) /\ from_client'[i] = from_client[i]
            BY <2>5, <4>1, <5>1
          <5>3. QED
            BY <5>1, <5>2
        <4>2. CASE i \notin DOMAIN from_client
          <5>1. i = Len(from_client) + 4 /\ from_client'[i].req = n
            BY <2>5, <3>4, <4>2
          <5>2. i + 1 = Len(from_client) + 5 /\ i + 1 \in Nat
            BY <2>4, <5>1
          <5>3. QED
            BY <2>5, <5>1, <5>2
        <4>3. QED
          BY <4>1, <4>2
      <3>5. setups' = n
        BY <2>1
      <3>6. QED
        BY <3>1, <3>2, <3>3, <3>4, <3>5 DEF OrderInv
    <2>9. AnswerInv'
      <3>1. Answering' \subseteq 1 .. setups /\ 1 .. setups \subseteq 1 .. n /\ n \notin 1 .. setups
        BY <1>1, <1>2 DEF IInv, RelayInv, AnswerInv
      <3>2. ASSUME NEW i \in DOMAIN from_client', IsEnd(i)'
            PROVE  from_client'[i].req \notin Answering'
        BY <1>2, <2>5, <3>1, <3>2 DEF IInv, RelayInv, AnswerInv
      <3>3. QED
        BY <2>1, <3>1, <3>2 DEF AnswerInv
    <2>10. ChannelInv'
      <3>1. UNCHANGED <<interleaved, given, torn>>
        BY <2>1 DEF ClientSends, asked
      <3>2. interleaved <= 2 * setups /\ interleaved + 2 <= 2 * n
        BY <1>1 DEF IInv, RelayInv, ChannelInv
      <3>3. ASSUME NEW i \in DOMAIN from_client', IsHead(i)'
            PROVE  interleaved + 2 <= 2 * from_client'[i].req
        BY <2>5, <3>2, <3>3 DEF IInv, RelayInv, ChannelInv
      <3>4. ChannelsDistinct'
        BY <2>6, <3>1 DEF IInv, RelayInv, ChannelInv, ChannelsDistinct
      <3>5. interleaved <= 2 * n
        BY <1>1, <3>2
      <3>6. ASSUME NEW m \in Request, given'[m] # {}
            PROVE  /\ m <= n
                   /\ \A i \in DOMAIN from_client' : IsTransport(i)' => m < from_client'[i].req
        <4>1. /\ m <= setups /\ m \in Nat
              /\ \A i \in DOMAIN from_client : IsTransport(i) => m < from_client[i].req
          BY <3>1, <3>6 DEF IInv, RelayInv, ChannelInv, Request
        <4>2. m < n
          BY <1>1, <4>1
        <4>3. QED
          BY <1>1, <2>5, <4>1, <4>2
      <3>7. \A m \in Request \ torn' : \A ch \in given'[m] : ch < interleaved'
        BY <3>1 DEF IInv, RelayInv, ChannelInv
      <3>8. QED
        BY <2>1, <3>1, <3>3, <3>4, <3>5, <3>6, <3>7 DEF ChannelInv
    <2>11. TypeOK'
      <3>1. n \in 0 .. MaxSetup /\ heard' \subseteq 1 .. n /\ early' \subseteq 1 .. n
        BY <1>1, <2>1
      <3>2. UNCHANGED <<ends, from_camera, to_client, asked, trs, pipes, hist>>
        BY <2>1 DEF ClientSends
      <3>3. QED
        BY <2>1, <2>3, <3>1, <3>2 DEF IInv, TypeOK, ends, asked, trs, pipes, hist
    <2>12. DownInv'
      BY <2>1 DEF ClientSends, IInv, DownInv, ends, trs, pipes, hist
    <2>13. QED
      BY <2>8, <2>9, <2>10, <2>11, <2>12 DEF IInv, RelayInv
  <1>4. CASE SendsOther
    <2> DEFINE new == <<[req |-> 0, part |-> "other"]>>
    <2>1. ClientSends(new) /\ UNCHANGED rtsp
      BY <1>4 DEF SendsOther
    <2>2. new \in Seq(Piece) /\ Len(new) = 1
      BY DEF Piece
    <2>3. /\ from_client' \in Seq(Piece) /\ Len(from_client') = Len(from_client) + 1
          /\ \A i \in 1 .. Len(from_client) : from_client'[i] = from_client[i]
          /\ from_client'[Len(from_client) + 1] = [req |-> 0, part |-> "other"]
          /\ Len(from_client') <= MaxPieces
      <3>1. /\ from_client' = from_client \o new
            /\ Len(from_client) + Len(new) <= MaxPieces
        BY <2>1 DEF ClientSends
      <3>2. /\ from_client \o new \in Seq(Piece)
            /\ Len(from_client \o new) = Len(from_client) + Len(new)
            /\ \A i \in 1 .. Len(from_client) + Len(new) :
                  (from_client \o new)[i] = IF i <= Len(from_client) THEN from_client[i]
                                            ELSE new[i - Len(from_client)]
        BY <1>1, <2>2, ConcatProperties
      <3>3. Len(from_client) \in Nat
        BY <1>1, LenProperties
      <3>4. (from_client \o new)[Len(from_client) + 1] = new[1]
        BY <2>2, <3>2, <3>3
      <3>5. QED
        BY <2>2, <3>1, <3>2, <3>3, <3>4
    <2>4. /\ Len(from_client) \in Nat /\ DOMAIN from_client = 1 .. Len(from_client)
          /\ DOMAIN from_client' = 1 .. (Len(from_client) + 1)
      BY <1>1, <2>3, LenProperties
    <2>5. /\ \A i \in DOMAIN from_client' : IsHead(i)' \/ IsTransport(i)' \/ IsEnd(i)' =>
                 i \in DOMAIN from_client
          /\ \A i \in DOMAIN from_client :
                /\ i \in DOMAIN from_client'
                /\ IsHead(i)' = IsHead(i) /\ IsTransport(i)' = IsTransport(i)
                /\ IsEnd(i)' = IsEnd(i)
                /\ from_client'[i] = from_client[i]
      BY <2>3, <2>4 DEF IsHead, IsTransport, IsEnd
    <2>6. UNCHANGED <<setups, heard, early, interleaved, given, torn>>
      BY <2>1 DEF ClientSends, rtsp, asked
    <2>7. OrderInv'
      BY <2>5, <2>6 DEF IInv, RelayInv, OrderInv
    <2>8. AnswerInv'
      BY <1>2, <2>5, <2>6 DEF IInv, RelayInv, AnswerInv
    <2>9. ChannelInv'
      BY <2>5, <2>6 DEF IInv, RelayInv, ChannelInv, ChannelsDistinct
    <2>10. TypeOK'
      BY <2>1, <2>3, <2>6 DEF ClientSends, IInv, TypeOK, ends, rtsp, asked, trs, pipes, hist
    <2>11. DownInv'
      BY <2>1 DEF ClientSends, IInv, DownInv, ends, trs, pipes, hist
    <2>12. QED
      BY <2>7, <2>8, <2>9, <2>10, <2>11 DEF IInv, RelayInv
  <1>5. QED
    BY <1>3, <1>4


(* The pipe to the camera takes what comes first.  A SETUP whose transport  *)
(* it rewrites gets channels no earlier one had, unless that one is torn or *)
(* another transport is in the same chunk: then the later of the two was   *)
(* sent early.                                                             *)
LEMMA UpForwardsKeeps ==
    ASSUME IInv, NEW n \in 1 .. MaxPieces, UpForwards(n)
    PROVE  IInv'
  <1> DEFINE chunk  == SubSeq(from_client, 1, n)
             rest   == SubSeq(from_client, n + 1, Len(from_client))
             forced == Rewritten(chunk)
             whole  == Whole(chunk)
             cut    == forced \ whole
  <1>1. /\ setups \in Nat /\ MaxSetup \in Nat /\ MaxPieces \in Nat /\ setups <= MaxSetup
        /\ from_client \in Seq(Piece) /\ Len(from_client) <= MaxPieces
        /\ interleaved \in Nat /\ interleaved <= 2 * MaxSetup
        /\ given \in [Request -> SUBSET Nat] /\ torn \subseteq Request
        /\ arrived \subseteq Request /\ 1 .. setups \subseteq Request /\ Request \subseteq Nat
    BY RelayAssumption DEF IInv, TypeOK, Request
  <1>2. /\ n \in 1 .. Len(from_client)
        /\ from_client' = rest
        /\ interleaved' = IF HasSetup(chunk) THEN interleaved + 2 ELSE interleaved
        /\ IF tls_tr = "lost"
           THEN up' = "ended" /\ UNCHANGED <<given, torn, arrived>>
           ELSE /\ \E number \in {interleaved + 1} \cup (interleaved + 1 .. LastNumber) :
                      given' = [m \in Request |->
                                  IF m \in cut THEN Channels(number)
                                  ELSE IF m \in forced THEN Channels(interleaved + 1)
                                  ELSE given[m]]
                /\ torn' = torn \cup cut
                /\ arrived' = arrived \cup whole
                /\ up' = up
        /\ UNCHANGED <<ends, rtsp, from_camera, to_client, trs, down, handler, hist>>
    BY DEF UpForwards
  <1>3. /\ rest \in Seq(Piece) /\ Len(rest) = Len(from_client) - n
        /\ \A i \in DOMAIN rest : /\ i + n \in DOMAIN from_client /\ n < i + n
                                  /\ rest[i] = from_client[i + n]
        /\ ToSet(chunk) = {from_client[i] : i \in 1 .. n}
    BY <1>1, <1>2, SplitSeq
  <1>4. /\ Len(from_client) \in Nat /\ DOMAIN from_client = 1 .. Len(from_client)
        /\ DOMAIN rest = 1 .. Len(rest) /\ n \in Nat /\ 1 .. n \subseteq DOMAIN from_client
    BY <1>1, <1>2, <1>3, LenProperties
  <1>5. /\ \A m \in forced : \E i \in 1 .. n : IsTransport(i) /\ from_client[i].req = m
        /\ \A m \in whole : \E i \in 1 .. n : IsEnd(i) /\ from_client[i].req = m
        /\ HasSetup(chunk) => \E i \in 1 .. n : IsHead(i)
        /\ forced # {} => HasSetup(chunk)
    <2>1. ASSUME NEW m, NEW part, part \in PartsOf(chunk, m)
          PROVE  \E i \in 1 .. n : from_client[i].req = m /\ from_client[i].part = part
      BY <1>3, <2>1 DEF PartsOf
    <2>2. \A m \in forced : "port" \in PartsOf(chunk, m)
      BY DEF Rewritten
    <2>3. \A m \in whole : "rest" \in PartsOf(chunk, m)
      BY DEF Whole
    <2>4. HasSetup(chunk) => \E m \in Request : "line" \in PartsOf(chunk, m)
      BY DEF HasSetup
    <2>5. forced # {} => HasSetup(chunk)
      BY DEF Rewritten
    <2> HIDE DEF forced, whole, chunk
    <2>6. \A m \in forced : \E i \in 1 .. n : IsTransport(i) /\ from_client[i].req = m
      BY <2>1, <2>2 DEF IsTransport
    <2>7. \A m \in whole : \E i \in 1 .. n : IsEnd(i) /\ from_client[i].req = m
      BY <2>1, <2>3 DEF IsEnd
    <2>8. HasSetup(chunk) => \E i \in 1 .. n : IsHead(i)
      BY <2>1, <2>4 DEF IsHead
    <2>9. QED
      BY <2>5, <2>6, <2>7, <2>8
  <1>6. \A i \in DOMAIN from_client' :
           /\ i + n \in DOMAIN from_client /\ n < i + n
           /\ from_client'[i] = from_client[i + n]
           /\ IsHead(i)' = IsHead(i + n) /\ IsTransport(i)' = IsTransport(i + n)
           /\ IsEnd(i)' = IsEnd(i + n)
    BY <1>2, <1>3 DEF IsHead, IsTransport, IsEnd
  <1>7. ASSUME NEW h \in 1 .. n
        PROVE  h \in DOMAIN from_client /\ h \in Nat
    <2>1. 1 .. n \subseteq DOMAIN from_client
      BY <1>4
    <2>2. QED
      BY <2>1
  <1>8. ASSUME NEW i \in DOMAIN from_client', NEW h \in 1 .. n
         PROVE  h < i + n
    <2>1. i \in Nat /\ i > 0
      BY <1>2, <1>3, <1>4
    <2>2. n \in Nat
      BY <1>4
    <2>3. QED
      BY <2>1, <2>2
  <1>9. UNCHANGED <<setups, heard, early, from_camera, to_client, client_tr, tls_tr, down,
                    client, camera, handler, stopped, lost>>
    BY <1>2 DEF ends, rtsp, trs, hist
  <1>10. whole \subseteq 1 .. setups /\ forced \subseteq 1 .. setups /\ torn \subseteq torn'
    <2>1. \A i \in 1 .. n : IsTransport(i) \/ IsEnd(i) => from_client[i].req \in 1 .. setups
      BY <1>4 DEF IInv, RelayInv, OrderInv
    <2>2. whole \subseteq 1 .. setups /\ forced \subseteq 1 .. setups
      BY <1>5, <2>1
    <2>3. QED
      BY <1>2, <2>2
  <1>11. ASSUME NEW m \in Request
         PROVE  \/ given'[m] = given[m]
                \/ /\ m \in forced
                   /\ given'[m] \subseteq Nat
                   /\ \A ch \in given'[m] : interleaved <= ch
                   /\ m \notin torn' => given'[m] = {interleaved, interleaved + 1}
    <2>1. CASE tls_tr = "lost"
      BY <1>2, <2>1
    <2>2. CASE tls_tr # "lost"
      <3>1. PICK number \in {interleaved + 1} \cup (interleaved + 1 .. LastNumber) :
               given'[m] = IF m \in cut THEN Channels(number)
                           ELSE IF m \in forced THEN Channels(interleaved + 1)
                           ELSE given[m]
        BY <1>2, <2>2
      <3>2. number \in Nat /\ interleaved <= number
        BY <1>1, RelayAssumption
      <3>3. CASE m \in cut
        <4>1. m \in torn' /\ m \in forced /\ given'[m] = {interleaved, number}
          BY <1>2, <2>2, <3>1, <3>3 DEF Channels
        <4>2. QED
          BY <1>1, <3>2, <4>1
      <3>4. CASE m \notin cut /\ m \in forced
        <4>1. given'[m] = {interleaved, interleaved + 1}
          BY <3>1, <3>4 DEF Channels
        <4>2. QED
          BY <1>1, <3>4, <4>1
      <3>5. CASE m \notin forced
        BY <3>1, <3>5
      <3>6. QED
        BY <3>3, <3>4, <3>5
    <2>3. QED
      BY <2>1, <2>2
  <1>12. OrderInv'
    <2>1. ASSUME NEW i \in DOMAIN from_client', IsHead(i)' \/ IsTransport(i)' \/ IsEnd(i)'
          PROVE  from_client'[i].req \in 1 .. setups
      BY <1>6, <2>1 DEF IInv, RelayInv, OrderInv
    <2>2. ASSUME NEW i \in DOMAIN from_client', NEW j \in DOMAIN from_client', i < j
          PROVE  i + n \in DOMAIN from_client /\ j + n \in DOMAIN from_client /\ i + n < j + n
      <3>1. i \in Nat /\ j \in Nat
        BY <1>2, <1>3, <1>4
      <3>2. QED
        BY <1>4, <1>6, <2>2, <3>1
    <2>3. ASSUME NEW i \in DOMAIN from_client', NEW j \in DOMAIN from_client', i < j,
                 (IsHead(i)' /\ IsHead(j)') \/ (IsEnd(i)' /\ IsEnd(j)')
          PROVE  from_client'[i].req < from_client'[j].req
      BY <1>6, <2>2, <2>3 DEF IInv, RelayInv, OrderInv
    <2>4. ASSUME NEW i \in DOMAIN from_client', NEW j \in DOMAIN from_client', i < j,
                 IsTransport(i)' /\ IsTransport(j)'
          PROVE  from_client'[i].req < from_client'[j].req /\ from_client'[j].req \in early
      BY <1>6, <2>2, <2>4 DEF IInv, RelayInv, OrderInv
    <2>5. ASSUME NEW i \in DOMAIN from_client', IsTransport(i)'
          PROVE  /\ i + 1 \in DOMAIN from_client' /\ IsEnd(i + 1)'
                 /\ from_client'[i + 1].req = from_client'[i].req
      <3>1. /\ i + n \in DOMAIN from_client /\ from_client'[i] = from_client[i + n]
            /\ (i + n) + 1 \in DOMAIN from_client /\ IsEnd((i + n) + 1)
            /\ from_client[(i + n) + 1].req = from_client[i + n].req
        BY <1>6, <2>5 DEF IInv, RelayInv, OrderInv
      <3>2. i \in Nat /\ i > 0 /\ (i + n) + 1 <= Len(from_client)
        BY <1>2, <1>3, <1>4, <3>1
      <3>3. (i + n) + 1 = (i + 1) + n /\ i + 1 \in 1 .. (Len(from_client) - n)
        <4>1. Len(from_client) \in Nat /\ n \in Nat
          BY <1>4
        <4>2. QED
          BY <3>2, <4>1
      <3>4. i + 1 \in DOMAIN from_client'
        BY <1>2, <1>3, <1>4, <3>3
      <3>5. from_client'[i + 1] = from_client[(i + 1) + n] /\ IsEnd(i + 1)' = IsEnd((i + 1) + n)
        BY <1>6, <3>4
      <3>6. QED
        BY <3>1, <3>3, <3>4, <3>5
    <2>6. QED
      BY <1>9, <2>1, <2>3, <2>4, <2>5 DEF OrderInv
  <1>13. AnswerInv'
    <2>1. Answering' \subseteq Answering \cup whole
      BY <1>2, <1>9 DEF Answering
    <2>2. Answering' \subseteq 1 .. setups'
      BY <1>9, <1>10, <2>1 DEF IInv, RelayInv, AnswerInv
    <2>3. ASSUME NEW i \in DOMAIN from_client', IsEnd(i)'
          PROVE  from_client'[i].req \notin Answering'
      <3>1. from_client[i + n].req \notin Answering
        BY <1>6, <2>3 DEF IInv, RelayInv, AnswerInv
      <3>2. ASSUME from_client[i + n].req \in whole
            PROVE  FALSE
        <4>1. PICK h \in 1 .. n : IsEnd(h) /\ from_client[h].req = from_client[i + n].req
          BY <1>5, <3>2
        <4>2. h \in DOMAIN from_client /\ h < i + n
          BY <1>7, <1>8
        <4>3. from_client[h].req < from_client[i + n].req
          BY <1>6, <2>3, <4>1, <4>2 DEF IInv, RelayInv, OrderInv
        <4>4. from_client[h].req \in Nat
          BY <1>1, <4>1, <4>2 DEF IInv, RelayInv, OrderInv
        <4>5. QED
          BY <4>1, <4>3, <4>4
      <3>3. QED
        BY <1>6, <2>1, <3>1, <3>2
    <2>4. QED
      BY <2>2, <2>3 DEF AnswerInv
  <1>14. /\ interleaved' \in Nat /\ interleaved <= interleaved'
         /\ HasSetup(chunk) => interleaved' = interleaved + 2
         /\ interleaved' <= 2 * setups
    <2>1. CASE ~HasSetup(chunk)
      BY <1>1, <1>2, <2>1 DEF IInv, RelayInv, ChannelInv
    <2>2. CASE HasSetup(chunk)
      <3>1. PICK h \in 1 .. n : IsHead(h)
        BY <1>5, <2>2
      <3>2. interleaved + 2 <= 2 * from_client[h].req /\ from_client[h].req \in 1 .. setups
        BY <1>4, <3>1 DEF IInv, RelayInv, ChannelInv, OrderInv
      <3>3. QED
        BY <1>1, <1>2, <2>2, <3>2
    <2>3. QED
      BY <2>1, <2>2
  <1> HIDE DEF chunk, forced, whole
  <1>15. ASSUME NEW m \in forced, NEW i \in DOMAIN from_client, IsTransport(i), ~(i \in 1 .. n)
         PROVE  m < from_client[i].req
    <2>1. PICK h \in 1 .. n : IsTransport(h) /\ from_client[h].req = m
      BY <1>5
    <2>2. h \in DOMAIN from_client /\ h < i
      <3>1. h \in DOMAIN from_client /\ h \in Nat /\ h <= n /\ n \in Nat
        <4>1. n \in Nat
          BY <1>4
        <4>2. QED
          BY <1>7, <4>1
      <3>2. i \in Nat /\ i > 0
        <4>1. i \in 1 .. Len(from_client) /\ Len(from_client) \in Nat
          BY <1>4
        <4>2. QED
          BY <4>1
      <3>3. n < i
        <4>1. ~(i \in 1 .. n)
          BY <1>15
        <4>2. QED
          BY <3>1, <3>2, <4>1
      <3>4. QED
        BY <3>1, <3>2, <3>3
    <2>3. QED
      BY <1>15, <2>1, <2>2 DEF IInv, RelayInv, OrderInv
  <1>16. ASSUME NEW m \in Request, NEW p \in Request, m < p, given'[m] \cap given'[p] # {}
         PROVE  p \in early \/ m \in torn'
    <2>1. SUFFICES ASSUME m \notin torn'
                   PROVE  p \in early
      OBVIOUS
    <2>2. m \notin torn /\ m \in Nat /\ p \in Nat
      BY <1>1, <1>10, <2>1
    <2>3. CASE given'[m] = given[m] /\ given'[p] = given[p]
      BY <1>16, <2>2, <2>3 DEF IInv, RelayInv, ChannelInv, ChannelsDistinct
    <2>4. CASE m \in forced /\ p \in forced
      <3>1. PICK i \in 1 .. n : IsTransport(i) /\ from_client[i].req = m
        BY <1>5, <2>4
      <3>2. PICK j \in 1 .. n : IsTransport(j) /\ from_client[j].req = p
        BY <1>5, <2>4
      <3>3. i \in DOMAIN from_client /\ j \in DOMAIN from_client /\ i \in Nat /\ j \in Nat
        BY <1>7
      <3>4. ~(j < i) /\ i # j
        BY <1>16, <2>2, <3>1, <3>2, <3>3 DEF IInv, RelayInv, OrderInv
      <3>5. i < j
        BY <3>3, <3>4
      <3>6. QED
        BY <3>1, <3>2, <3>3, <3>5 DEF IInv, RelayInv, OrderInv
    <2>5. CASE given'[m] = given[m] /\ \A ch \in given'[p] : interleaved <= ch
      <3>1. PICK ch \in given[m] : ch \in given'[p]
        BY <1>16, <2>5
      <3>2. ch < interleaved /\ interleaved <= ch /\ ch \in Nat
        BY <1>1, <2>2, <2>5, <3>1 DEF IInv, RelayInv, ChannelInv
      <3>3. QED
        BY <1>1, <3>2
    <2>6. CASE m \in forced /\ given'[p] = given[p]
      <3>1. given[p] # {}
        BY <1>16, <2>6
      <3>2. PICK i \in 1 .. n : IsTransport(i) /\ from_client[i].req = m
        BY <1>5, <2>6
      <3>3. p < m
        BY <1>7, <3>1, <3>2 DEF IInv, RelayInv, ChannelInv
      <3>4. QED
        BY <1>16, <2>2, <3>3
    <2>7. QED
      BY <1>11, <2>3, <2>4, <2>5, <2>6
  <1>17. ChannelInv'
    <2>1. ASSUME NEW i \in DOMAIN from_client', IsHead(i)'
          PROVE  interleaved' + 2 <= 2 * from_client'[i].req
      <3>1. /\ i + n \in DOMAIN from_client /\ IsHead(i + n)
            /\ from_client'[i].req = from_client[i + n].req
        BY <1>6, <2>1
      <3>2. /\ interleaved + 2 <= 2 * from_client[i + n].req
            /\ from_client[i + n].req \in 1 .. setups
        BY <3>1 DEF IInv, RelayInv, ChannelInv, OrderInv
      <3>3. CASE ~HasSetup(chunk)
        BY <1>2, <3>1, <3>2, <3>3 DEF chunk
      <3>4. CASE HasSetup(chunk)
        <4>1. PICK h \in 1 .. n : IsHead(h)
          BY <1>5, <3>4
        <4>2. h \in DOMAIN from_client /\ h < i + n
          BY <1>7, <1>8
        <4>3. /\ interleaved + 2 <= 2 * from_client[h].req
              /\ from_client[h].req \in 1 .. setups
              /\ from_client[h].req < from_client[i + n].req
          BY <3>1, <4>1, <4>2 DEF IInv, RelayInv, ChannelInv, OrderInv
        <4>4. QED
          <5> DEFINE x == from_client[h].req
                     y == from_client[i + n].req
          <5>1. interleaved' = interleaved + 2 /\ interleaved \in Nat
            BY <1>1, <1>14, <3>4
          <5>2. interleaved + 2 <= 2 * x /\ x < y /\ x \in Nat /\ y \in Nat
            BY <1>1, <3>2, <4>3
          <5> HIDE DEF x, y
          <5>3. interleaved' + 2 <= 2 * y
            BY <5>1, <5>2
          <5>4. QED
            BY <3>1, <5>3 DEF y
      <3>5. QED
        BY <3>3, <3>4
    <2>2. ASSUME NEW m \in Request, m \notin torn', NEW ch \in given'[m]
          PROVE  ch < interleaved'
      <3>1. CASE given'[m] = given[m]
        <4>1. m \notin torn
          BY <1>10, <2>2
        <4>2. ch < interleaved /\ ch \in Nat
          BY <1>1, <2>2, <3>1, <4>1 DEF IInv, RelayInv, ChannelInv
        <4>3. QED
          BY <1>1, <1>14, <4>2
      <3>2. CASE m \in forced /\ given'[m] = {interleaved, interleaved + 1}
        <4>1. interleaved' = interleaved + 2
          BY <1>5, <1>14, <3>2
        <4>2. QED
          BY <1>1, <2>2, <3>2, <4>1
      <3>3. QED
        BY <1>11, <2>2, <3>1, <3>2
    <2>3. ASSUME NEW m \in Request, given'[m] # {}
          PROVE  /\ m <= setups
                 /\ \A i \in DOMAIN from_client' : IsTransport(i)' => m < from_client'[i].req
      <3>1. ASSUME NEW i \in DOMAIN from_client', IsTransport(i)'
            PROVE  /\ i + n \in DOMAIN from_client /\ IsTransport(i + n)
                   /\ from_client'[i].req = from_client[i + n].req /\ ~(i + n \in 1 .. n)
        <4>1. n < i + n /\ i + n \in DOMAIN from_client
          BY <1>6, <3>1
        <4>2. ~(i + n \in 1 .. n)
          <5>1. n \in Nat /\ i \in Nat
            BY <1>2, <1>3, <1>4
          <5>2. QED
            BY <4>1, <5>1
        <4>3. QED
          BY <1>6, <3>1, <4>2
      <3>2. CASE given'[m] = given[m]
        BY <2>3, <3>1, <3>2 DEF IInv, RelayInv, ChannelInv
      <3>3. CASE m \in forced
        <4>1. m <= setups
          BY <1>1, <1>10, <3>3
        <4>2. QED
          BY <1>15, <3>1, <3>3, <4>1
      <3>4. QED
        BY <1>11, <3>2, <3>3
    <2>4. ChannelsDistinct'
      BY <1>9, <1>16 DEF ChannelsDistinct
    <2>5. \A m \in Request \ torn' : \A ch \in given'[m] : ch < interleaved'
      BY <2>2
    <2>6. UNCHANGED setups /\ interleaved' <= 2 * setups
      BY <1>9, <1>14
    <2>7. \A i \in DOMAIN from_client' : IsHead(i)' =>
             interleaved' + 2 <= 2 * from_client'[i].req
      BY <2>1
    <2>8. \A m \in Request : given'[m] # {} =>
             /\ m <= setups
             /\ \A i \in DOMAIN from_client' : IsTransport(i)' => m < from_client'[i].req
      BY <2>3
    <2>9. QED
      BY <2>4, <2>5, <2>6, <2>7, <2>8 DEF ChannelInv
  <1>18. TypeOK'
    <2>1. Len(from_client') <= MaxPieces /\ from_client' \in Seq(Piece)
      <3>1. from_client' \in Seq(Piece) /\ Len(from_client') = Len(from_client) - n
        BY <1>2, <1>3
      <3>2. Len(from_client) \in Nat /\ n \in Nat /\ Len(from_client) <= MaxPieces
        BY <1>1, <1>4
      <3>3. QED
        BY <1>1, <3>1, <3>2
    <2>2. interleaved' \in 0 .. 2 * MaxSetup
      BY <1>1, <1>14
    <2>3. arrived' \subseteq Request /\ torn' \subseteq Request
      BY <1>1, <1>2, <1>10 DEF forced, whole, chunk
    <2>4. given' \in [Request -> SUBSET Nat]
      <3>1. given' = [m \in Request |-> given'[m]]
        BY <1>1, <1>2
      <3>2. \A m \in Request : given'[m] \subseteq Nat
        BY <1>1, <1>11
      <3>3. QED
        BY <3>1, <3>2
    <2>5. up' \in {"read", "ended"}
      BY <1>2 DEF IInv, TypeOK
    <2>6. QED
      BY <1>9, <2>1, <2>2, <2>3, <2>4, <2>5 DEF IInv, TypeOK
  <1>19. DownInv'
    BY <1>9 DEF IInv, DownInv
  <1>20. QED
    BY <1>12, <1>13, <1>17, <1>18, <1>19 DEF IInv, RelayInv

(* The ends, the transports and the ends of the pipes: nothing is forwarded. *)
LEMMA EndsKeep ==
    ASSUME IInv,
           \/ ClientStops \/ CameraGoes
           \/ ServerCloses \/ ClientTransportLost \/ ClientResets \/ TlsTransportLost
           \/ UpEnds \/ Drained \/ DownEnds \/ HandlerReturns
    PROVE  IInv'
  <1> USE DEF ends, rtsp, asked, trs, pipes, hist, Closing
  <1>1. /\ UNCHANGED <<setups, heard, early, from_client, from_camera, interleaved, given, torn, arrived>>
        /\ UNCHANGED to_client \/ (to_client' = <<>> /\ ClientResets)
    BY DEF ClientStops, CameraGoes, ServerCloses, ClientTransportLost, ClientResets,
           TlsTransportLost, UpEnds, UpCloses, Drained, DownEnds, HandlerReturns
  <1>2. ToSet(<<>>) = {} /\ <<>> \in Seq(Item) /\ Len(<<>>) = 0
    <2>1. ToSet(<<>>) = {}
      BY DEF ToSet
    <2>2. QED
      BY <2>1, EmptySeq
  <1>3. Answering' \subseteq Answering
    BY <1>1, <1>2 DEF Answering
  <1>4. RelayInv'
    BY <1>1, <1>3, QuietKeeps DEF IInv
  <1>5. TypeOK'
    <2>1. to_client' \in Seq(Item) /\ Len(to_client') <= HighWater
      <3>1. CASE to_client' = to_client
        BY <3>1 DEF IInv, TypeOK
      <3>2. CASE to_client' = <<>>
        <4>1. Len(to_client') = 0 /\ to_client' \in Seq(Item)
          BY <1>2, <3>2
        <4>2. QED
          BY <4>1, RelayAssumption
      <3>3. QED
        BY <1>1, <3>1, <3>2
    <2>2. /\ client' \in {"talking", "silent", "closed"} /\ camera' \in {"up", "gone"}
          /\ client_tr' \in {"open", "closing", "lost"} /\ tls_tr' \in {"open", "closing", "lost"}
          /\ up' \in {"read", "ended"} /\ down' \in {"read", "drain", "ended"}
          /\ handler' \in {"gather", "done"} /\ stopped' \in BOOLEAN /\ lost' = lost
      BY DEF IInv, TypeOK, ClientStops, CameraGoes, ServerCloses, ClientTransportLost,
             ClientResets, TlsTransportLost, UpEnds, UpCloses, Drained, DownEnds,
             HandlerReturns
    <2>3. QED
      BY <1>1, <2>1, <2>2 DEF IInv, TypeOK
  <1>6. DownInv'
    <2>1. CASE ClientStops \/ CameraGoes \/ TlsTransportLost \/ UpEnds
      BY <2>1 DEF IInv, DownInv, ClientStops, CameraGoes, TlsTransportLost, UpEnds, UpCloses
    <2>2. CASE ServerCloses \/ ClientTransportLost
      BY <2>2 DEF IInv, TypeOK, DownInv, ServerCloses, ClientTransportLost
    <2>3. CASE ClientResets
      BY <1>2, <2>3, RelayAssumption DEF IInv, DownInv, ClientResets
    <2>4. CASE Drained
      <3>1. Len(to_client) \in Nat /\ HighWater \in Nat
        BY RelayAssumption, LenProperties DEF IInv, TypeOK
      <3>2. QED
        BY <2>4, <3>1 DEF IInv, DownInv, Drained, IsFull
    <2>5. CASE DownEnds \/ HandlerReturns
      BY <2>5 DEF IInv, DownInv, DownEnds, HandlerReturns
    <2>6. QED
      BY <2>1, <2>2, <2>3, <2>4, <2>5
  <1>7. QED
    BY <1>4, <1>5, <1>6 DEF IInv

(* The client takes what is in its buffer. *)
LEMMA ClientReadsKeeps ==
    ASSUME IInv, ClientReads
    PROVE  IInv'
  <1> USE DEF ends, rtsp, asked, trs, pipes, hist
  <1>1. /\ to_client # <<>> /\ to_client' = Tail(to_client)
        /\ heard' = heard \cup ({Head(to_client)} \ {0})
        /\ UNCHANGED <<ends, setups, early, from_client, from_camera, asked, trs, pipes, hist>>
    BY DEF ClientReads
  <1>2. /\ to_client \in Seq(Item) /\ Len(to_client) \in Nat /\ Len(to_client) <= HighWater
        /\ HighWater \in Nat
    BY RelayAssumption, LenProperties DEF IInv, TypeOK
  <1>3. /\ to_client' \in Seq(Item) /\ Len(to_client') = Len(to_client) - 1
        /\ Head(to_client) \in ToSet(to_client) /\ ToSet(to_client') \subseteq ToSet(to_client)
    BY <1>1, <1>2, HeadTailProperties, TailSet
  <1>4. Answering' \subseteq Answering
    BY <1>1, <1>3 DEF Answering
  <1>5. RelayInv'
    BY <1>1, <1>4, QuietKeeps DEF IInv
  <1>6. TypeOK'
    <2>1. heard' \subseteq 1 .. setups
      BY <1>1, <1>3 DEF IInv, TypeOK, RelayInv, AnswerInv, Answering
    <2>2. Len(to_client') <= HighWater
      BY <1>2, <1>3
    <2>3. QED
      BY <1>1, <1>3, <2>1, <2>2 DEF IInv, TypeOK
  <1>7. DownInv'
    <2>1. client_tr # "lost"
      BY <1>1 DEF IInv, DownInv
    <2>2. down = "read" => Len(to_client') < HighWater
      BY <1>2, <1>3 DEF IInv, DownInv
    <2>3. QED
      BY <1>1, <2>1, <2>2 DEF IInv, DownInv
  <1>8. QED
    BY <1>5, <1>6, <1>7 DEF IInv

(* The camera answers a SETUP it has got, or streams. *)
LEMMA CameraKeeps ==
    ASSUME IInv, NEW item \in Item, CameraSends(item),
           \/ item = 0 /\ UNCHANGED arrived
           \/ item \in arrived /\ arrived' = arrived \ {item}
    PROVE  IInv'
  <1> USE DEF ends, rtsp, trs, pipes, hist
  <1>1. /\ Len(from_camera) < MaxQueue
        /\ from_camera' = Append(from_camera, item)
        /\ UNCHANGED <<ends, rtsp, from_client, to_client, interleaved, given, torn, trs, pipes, hist>>
    BY DEF CameraSends
  <1>2. from_camera \in Seq(Item) /\ Len(from_camera) \in Nat /\ MaxQueue \in Nat
    BY RelayAssumption, LenProperties DEF IInv, TypeOK
  <1>3. /\ from_camera' \in Seq(Item) /\ Len(from_camera') <= MaxQueue
        /\ ToSet(from_camera') = ToSet(from_camera) \cup {item}
    <2>1. Append(from_camera, item) \in Seq(Item)
          /\ Len(Append(from_camera, item)) = Len(from_camera) + 1
      BY <1>2, AppendProperties
    <2>2. ToSet(Append(from_camera, item)) = ToSet(from_camera) \cup {item}
      BY <1>2, AppendSet
    <2>3. QED
      BY <1>1, <1>2, <2>1, <2>2
  <1>4. Answering' \subseteq Answering
    BY <1>1, <1>3 DEF Answering
  <1>5. RelayInv'
    BY <1>1, <1>4, QuietKeeps DEF IInv
  <1>6. TypeOK'
    BY <1>1, <1>3 DEF IInv, TypeOK
  <1>7. DownInv'
    BY <1>1 DEF IInv, DownInv
  <1>8. QED
    BY <1>5, <1>6, <1>7 DEF IInv

(* The pipe to the client writes one item, or drops it. *)
LEMMA DownForwardsKeeps ==
    ASSUME IInv, DownForwards
    PROVE  IInv'
  <1> USE DEF ends, rtsp, asked
  <1> DEFINE Drops == client_tr = "lost" \/ (client_tr = "closing" /\ to_client = <<>>)
  <1>1. /\ down = "read" /\ from_camera # <<>> /\ from_camera' = Tail(from_camera)
        /\ IF Drops
           THEN /\ lost' = TRUE
                /\ down' = IF client_tr = "lost" THEN "ended" ELSE "read"
                /\ to_client' = to_client
           ELSE /\ to_client' = Append(to_client, Head(from_camera))
                /\ down' = AfterWrite(to_client')
                /\ lost' = lost
        /\ client_tr' = client_tr
        /\ UNCHANGED <<ends, rtsp, from_client, asked, tls_tr, up, handler, stopped>>
    <2>1. down' = "ended" => client_tr = "lost"
      BY DEF DownForwards, AfterWrite
    <2>2. QED
      BY <2>1 DEF DownForwards, Closing
  <1>2. /\ from_camera \in Seq(Item) /\ Len(from_camera) \in Nat /\ Len(from_camera) <= MaxQueue
        /\ to_client \in Seq(Item) /\ Len(to_client) \in Nat /\ Len(to_client) < HighWater
        /\ HighWater \in Nat /\ MaxQueue \in Nat
    BY <1>1, RelayAssumption, LenProperties DEF IInv, TypeOK, DownInv
  <1>3. /\ from_camera' \in Seq(Item) /\ Len(from_camera') = Len(from_camera) - 1
        /\ Head(from_camera) \in Item
        /\ Head(from_camera) \in ToSet(from_camera) /\ ToSet(from_camera') \subseteq ToSet(from_camera)
    BY <1>1, <1>2, HeadTailProperties, TailSet
  <1>4. ~Drops => /\ to_client' \in Seq(Item) /\ Len(to_client') = Len(to_client) + 1
                  /\ ToSet(to_client') = ToSet(to_client) \cup {Head(from_camera)}
    <2>1. /\ Append(to_client, Head(from_camera)) \in Seq(Item)
          /\ Len(Append(to_client, Head(from_camera))) = Len(to_client) + 1
      BY <1>2, <1>3, AppendProperties
    <2>2. ToSet(Append(to_client, Head(from_camera))) = ToSet(to_client) \cup {Head(from_camera)}
      BY <1>2, <1>3, AppendSet
    <2>3. QED
      BY <1>1, <2>1, <2>2
  <1>5. Answering' \subseteq Answering
    <2>1. ToSet(to_client') \subseteq ToSet(to_client) \cup ToSet(from_camera)
      BY <1>1, <1>3, <1>4
    <2>2. QED
      BY <1>1, <1>3, <2>1 DEF Answering
  <1>6. RelayInv'
    BY <1>1, <1>5, QuietKeeps DEF IInv
  <1>7. TypeOK'
    <2>1. to_client' \in Seq(Item) /\ Len(to_client') <= HighWater
      BY <1>1, <1>2, <1>4
    <2>2. Len(from_camera') <= MaxQueue
      BY <1>2, <1>3
    <2>3. down' \in {"read", "drain", "ended"} /\ lost' \in BOOLEAN
      BY <1>1 DEF IInv, TypeOK, AfterWrite
    <2>4. QED
      BY <1>1, <1>3, <2>1, <2>2, <2>3 DEF IInv, TypeOK
  <1>8. DownInv'
    <2>1. down' = "read" => Len(to_client') < HighWater
      BY <1>1, <1>2, <1>4 DEF AfterWrite, IsFull
    <2>2. client_tr # "open" => stopped \/ client = "closed"
      BY <1>1 DEF IInv, DownInv
    <2>3. lost' => client = "closed" \/ stopped
      BY <1>1, <2>2 DEF IInv, DownInv
    <2>4. client_tr = "lost" => to_client' = <<>>
      BY <1>1 DEF IInv, DownInv
    <2>5. QED
      BY <1>1, <2>1, <2>2, <2>3, <2>4 DEF DownInv
  <1>9. QED
    BY <1>6, <1>7, <1>8 DEF IInv

-----------------------------------------------------------------------------
(* Every step of the relay keeps the invariant. *)
THEOREM Invariance == Spec => []IInv
  <1>1. IInv /\ UNCHANGED vars => IInv'
    <2>1. SUFFICES ASSUME IInv, UNCHANGED vars
                   PROVE  IInv'
      OBVIOUS
    <2> USE DEF vars, ends, rtsp, asked, trs, pipes, hist
    <2>2. RelayInv'
      BY <2>1, QuietKeeps DEF IInv, Answering
    <2>3. TypeOK' /\ DownInv'
      BY <2>1 DEF IInv, TypeOK, DownInv
    <2>4. QED
      BY <2>2, <2>3 DEF IInv
  <1>2. ASSUME IInv, Next
        PROVE  IInv'
    <2>1. CASE SendsSetup \/ SendsOther
      BY <1>2, <2>1, SendsKeeps
    <2>2. CASE ClientReads
      BY <1>2, <2>2, ClientReadsKeeps
    <2>3. CASE SendsMedia
      <3>1. 0 \in Item /\ CameraSends(0) /\ UNCHANGED arrived
        BY <2>3, RelayAssumption DEF SendsMedia, Item
      <3>2. QED
        BY <1>2, <3>1, CameraKeeps
    <2>4. CASE \E n \in Request : CameraReplies(n)
      <3>1. PICK n \in Request : CameraReplies(n)
        BY <2>4
      <3>2. n \in Item
        BY RelayAssumption DEF Request, Item
      <3>3. QED
        BY <1>2, <3>1, <3>2, CameraKeeps DEF CameraReplies
    <2>5. CASE \E n \in 1 .. MaxPieces : UpForwards(n)
      BY <1>2, <2>5, UpForwardsKeeps
    <2>6. CASE DownForwards
      BY <1>2, <2>6, DownForwardsKeeps
    <2>7. CASE \/ ClientStops \/ CameraGoes
               \/ ServerCloses \/ ClientTransportLost \/ ClientResets \/ TlsTransportLost
               \/ UpEnds \/ Drained \/ DownEnds \/ HandlerReturns
      BY <1>2, <2>7, EndsKeep
    <2>8. QED
      BY <1>2, <2>1, <2>2, <2>3, <2>4, <2>5, <2>6, <2>7 DEF Next, Loop
  <1>3. IInv /\ [Next]_vars => IInv'
    BY <1>1, <1>2
  <1>4. QED
    BY InitIInv, <1>3, PTL DEF Spec

(* Every variable of a relayed connection keeps its kind of value: the      *)
(* buffer to the client never holds more than the item that fills it.      *)
THEOREM TypeCorrect == Spec => []TypeOK
  <1>1. IInv => TypeOK
    BY DEF IInv
  <1>2. QED
    BY <1>1, Invariance, PTL

(* For any number of SETUPs and wherever read() cuts them: two of them name *)
(* the same interleaved channel only if the client did not wait for the    *)
(* reply to the earlier one, or if a cut inside the client_port of the     *)
(* earlier one left its header with a number that was not counted.         *)
THEOREM ChannelsAreDistinct == Spec => []ChannelsDistinct
  <1>1. IInv => ChannelsDistinct
    BY DEF IInv, RelayInv, ChannelInv
  <1>2. QED
    BY <1>1, Invariance, PTL

(* The end of the camera's stream is not cut off: a relayed item is dropped *)
(* only once the client has closed or a stop has closed the connection.    *)
THEOREM TailReachesClient == Spec => []TailIsDelivered
  <1>1. IInv => TailIsDelivered
    BY DEF IInv, DownInv, TailIsDelivered
  <1>2. QED
    BY <1>1, Invariance, PTL

=============================================================================
