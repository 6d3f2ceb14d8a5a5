--------------------------- MODULE ServicesProofs ---------------------------
(***************************************************************************)
(* What the parts under the agent promise, for every value of their        *)
(* constants. First the transfers: the fault code tells the truth about    *)
(* the file, for files of any length, blocks of any size and whatever the  *)
(* server answers. Then the parameter tree, whose walks end however often  *)
(* instances are copied and deleted, and the methods that walk it: the     *)
(* answer tells the truth about the question, about the values set, and    *)
(* about what was queued. Last, these parts and those of ContainerProofs   *)
(* and XmlProofs together, as the runs check them.                         *)
(***************************************************************************)
EXTENDS MCServices, XmlProofs

----------------------------------------------------------------------------
(* Transfers. TransferTruth speaks of where the call ends; the invariant   *)
(* says at each stop what has been read, written and answered before it.   *)

\* Nothing was read, written or answered yet.
Fresh == got = 0 /\ file = NoFile /\ answers = <<>> /\ sent = 0 /\ rc = CWMP_OK

\* Before the request goes out.
StartInv ==
  /\ job \in {"none", "download", "upload"}
  /\ job = "none" => at = "idle" /\ Fresh /\ reported = NoFault
  /\ at \in {"socket", "connect", "open"} => Fresh
  /\ at = "write" => /\ got = 0 /\ answers = <<>> /\ sent = 0 /\ rc = CWMP_OK
                     /\ job = "download" => file = 0

\* While the answer is read and the file is sent: what was answered so far.
AnswerInv ==
  /\ at \in {"header", "go_on"} => got = 0
  /\ at = "body" => job = "download"
  /\ at = "go_on" => job = "upload" /\ answers = <<HTTP_100>>
  /\ job = "download" /\ at \in {"header", "body"} => answers = <<>> /\ file # NoFile
  /\ at = "body" => got < announced
  /\ job = "upload" /\ at = "header" => answers \in {<<>>, <<HTTP_100>>}

\* At the label out, and what the caller made of it.
EndInv ==
  /\ at = "out" /\ rc = HTTP_200 =>
       /\ job = "download" => answers = <<HTTP_200>> /\ (got >= announced \/ broken \/ got = 0)
       /\ job = "upload" => answers = <<HTTP_100, HTTP_200>>
  /\ at # "idle" => reported = NoFault
  /\ job = "download" /\ ((at = "out" /\ rc = CWMP_OK) \/ reported = 0) =>
       file = NoFile /\ answers = <<>> /\ got = 0
  /\ job = "upload" /\ reported = 0 => answers = <<HTTP_100, HTTP_200>>

\* The order of the answers and the bytes that go out.
SentInv == sent # 0 => answers # <<>> /\ answers[1] = HTTP_100

\* The counts of bytes, which no single stop implies.
CountInv ==
  /\ got \in Nat /\ body \in Nat /\ size \in Nat /\ announced \in Nat /\ sent \in Nat
  /\ file \in Nat \cup {NoFile}
  /\ job = "none" => sent = 0 /\ got = 0 /\ file = NoFile
  /\ job = "download" => /\ got + body = size
                         /\ file # NoFile => file <= got
                         /\ file = NoFile => got = 0
                         /\ got # 0 => announced # 0 /\ got < announced + BlockSize
  /\ job = "upload" => sent * BlockSize + body <= size

\* The header read so far: the line of the status comes first.
LineInv ==
  /\ lines \in Seq(HeaderLines)
  /\ lines # <<>> => lines[1] \in {"200", "100", "404", "no_message"}
  /\ at = "body" => lines # <<>> /\ lines[1] # "no_message"

TransferInv == StartInv /\ AnswerInv /\ EndInv /\ SentInv /\ CountInv /\ LineInv

----------------------------------------------------------------------------
(* Lemmas.                                                                 *)

\* An answer read to its end is listed behind the ones before it.
LEMMA Answered ==
  ASSUME NEW c
  PROVE  Append(<<>>, c) = <<c>> /\ Append(<<HTTP_100>>, c) = <<HTTP_100, c>>
<1>1. Append(<<>>, c) = <<c>>
  OBVIOUS
<1>2. Append(<<HTTP_100>>, c) = <<HTTP_100, c>>
  <2> DEFINE S == {HTTP_100, c}
  <2>1. <<HTTP_100>> \in Seq(S) /\ c \in S
    OBVIOUS
  <2>2. /\ Append(<<HTTP_100>>, c) \in Seq(S)
        /\ Len(Append(<<HTTP_100>>, c)) = 2
        /\ Append(<<HTTP_100>>, c)[1] = HTTP_100
        /\ Append(<<HTTP_100>>, c)[2] = c
    BY <2>1
  <2>3. /\ <<HTTP_100, c>> \in Seq(S) /\ Len(<<HTTP_100, c>>) = 2
        /\ <<HTTP_100, c>>[1] = HTTP_100 /\ <<HTTP_100, c>>[2] = c
    OBVIOUS
  <2>4. \A i \in 1..2 : i = 1 \/ i = 2
    OBVIOUS
  <2> HIDE DEF S
  <2> QED BY <2>2, <2>3, <2>4, SeqEqual
<1> QED BY <1>1, <1>2

\* Every status but "no_message" is a number, and none is CWMP_OK.
LEMMA StatusIsNone ==
  ASSUME NEW l \in {"200", "100", "404"}
  PROVE  StatusOf(l) \in {HTTP_100, HTTP_200, 404} /\ StatusOf(l) # CWMP_OK
BY DEF StatusOf, HTTP_100, HTTP_200, CWMP_OK

\* The end of an answer, from the header or from the body: for a download it
\* is the only one, for an upload it lets the file go or ends the call.
LEMMA AnswerDoneKeeps ==
  ASSUME TransferInv, at \in {"header", "body"}, NEW code, code # CWMP_OK, AnswerDone(code),
         UNCHANGED <<job, announced, sent, reported>>,
         got' \in Nat, announced \in Nat, at = "header" => got' = got,
         job = "download" /\ got' # 0 => got' >= announced \/ broken'
  PROVE  StartInv' /\ AnswerInv' /\ EndInv' /\ SentInv' /\ lines' = <<>> /\ at' # "body"
<1>1. job \in {"download", "upload"} /\ reported = NoFault
  BY DEF TransferInv, StartInv, EndInv
<1>2. CASE job = "download"
  <2>1. answers = <<>> /\ answers' = <<code>> /\ at' = "out" /\ rc' = code /\ lines' = <<>>
    BY <1>2, Answered DEF TransferInv, AnswerInv, AnswerDone, GoTo
  <2>2. sent' = 0
    BY <2>1 DEF TransferInv, SentInv
  <2>3. StartInv'
    BY <1>2, <2>1 DEF TransferInv, StartInv
  <2>4. EndInv'
    BY <1>1, <1>2, <2>1 DEF EndInv, NoFault, HTTP_200
  <2> QED BY <1>2, <2>1, <2>2, <2>3, <2>4 DEF TransferInv, AnswerInv, SentInv
<1>3. CASE job = "upload"
  <2>1. at = "header" /\ answers \in {<<>>, <<HTTP_100>>} /\ lines' = <<>>
    BY <1>3 DEF TransferInv, AnswerInv, AnswerDone
  <2>2. StartInv'
    BY <1>3 DEF TransferInv, StartInv, AnswerDone, GoTo
  <2>3. CASE answers = <<>>
    <3>1. answers' = <<code>> /\ sent' = 0
      BY <2>3, Answered DEF TransferInv, SentInv, AnswerDone
    <3>2. \/ at' = "go_on" /\ code = HTTP_100
          \/ at' = "out" /\ rc' = CWMP_ERROR
      BY <1>3, <2>3 DEF AnswerDone, GoTo
    <3>3. AnswerInv'
      BY <1>3, <2>1, <3>1, <3>2 DEF TransferInv, AnswerInv
    <3>4. EndInv'
      BY <1>1, <1>3, <3>2 DEF EndInv, NoFault, CWMP_ERROR, HTTP_200
    <3> QED BY <1>3, <2>1, <2>2, <3>1, <3>2, <3>3, <3>4 DEF TransferInv, SentInv
  <2>4. CASE answers = <<HTTP_100>>
    <3>1. answers' = <<HTTP_100, code>> /\ at' = "out" /\ rc' = code
      BY <1>3, <2>4, Answered DEF AnswerDone, GoTo
    <3>2. EndInv'
      BY <1>1, <1>3, <3>1 DEF EndInv, NoFault
    <3> QED BY <1>3, <2>1, <2>2, <3>1, <3>2 DEF TransferInv, AnswerInv, SentInv
  <2> QED BY <2>1, <2>3, <2>4
<1> QED BY <1>1, <1>2, <1>3

\* The steps before an answer is awaited.
LEMMA StartKeeps ==
  ASSUME TransferInv,
         \/ \E u \in Urls, n \in BodySizes :
               \/ \E m \in BodySizes : cwmp_agent_download_file(u, n, m)
               \/ \E t \in FileTypes : cwmp_agent_upload_file(u, n, t)
         \/ http_socket_create \/ http_socket_connect \/ OpenFile \/ http_write_request
  PROVE  TransferInv'
<1> USE DEF TransferInv, StartInv, AnswerInv, EndInv, SentInv, CountInv, LineInv, Fresh,
            NoFile, NoFault, CWMP_OK, CWMP_ERROR, HTTP_200, GoTo, taskVars
<1>1. ASSUME NEW u \in Urls, NEW n \in BodySizes, NEW m \in BodySizes,
             cwmp_agent_download_file(u, n, m)
      PROVE  TransferInv'
  BY <1>1, TransferAssumption DEF cwmp_agent_download_file
<1>2. ASSUME NEW u \in Urls, NEW n \in BodySizes, NEW t \in FileTypes,
             cwmp_agent_upload_file(u, n, t)
      PROVE  TransferInv'
  BY <1>2, TransferAssumption DEF cwmp_agent_upload_file
<1>3. CASE http_socket_create
  BY <1>3 DEF http_socket_create
<1>4. CASE http_socket_connect
  BY <1>4 DEF http_socket_connect
<1>5. CASE OpenFile
  BY <1>5 DEF OpenFile
<1>6. CASE http_write_request
  BY <1>6 DEF http_write_request
<1> QED BY <1>1, <1>2, <1>3, <1>4, <1>5, <1>6

\* One more line behind those read before.
LEMMA LineReadKeeps ==
  ASSUME TransferInv, http_read_line
  PROVE  TransferInv'
<1>1. PICK l \in HeaderLines :
        /\ lines = <<>> => l \in {"200", "100", "404", "no_message"}
        /\ lines' = Append(lines, l)
  BY DEF http_read_line, HeaderLines, LaterLines
<1>2. lines \in Seq(HeaderLines) /\ at = "header"
  BY DEF http_read_line, TransferInv, LineInv
<1>3. lines' \in Seq(HeaderLines)
  BY <1>1, <1>2
<1>4. lines'[1] = IF lines = <<>> THEN l ELSE lines[1]
  BY <1>1, <1>2
<1>5. UNCHANGED <<job, announced, size, at, rc, request, got, file, sent, body, broken,
                  answers, reported>>
  BY DEF http_read_line, taskVars
<1>6. LineInv'
  BY <1>1, <1>2, <1>3, <1>4, <1>5 DEF TransferInv, LineInv
<1> QED
  BY <1>5, <1>6 DEF TransferInv, StartInv, AnswerInv, EndInv, SentInv, CountInv, Fresh

\* The header is taken apart.
LEMMA HeaderEndsKeeps ==
  ASSUME TransferInv, HeaderEnds
  PROVE  TransferInv'
<1>1. /\ at = "header" /\ got = 0 /\ lines # <<>>
      /\ lines[1] \in {"200", "100", "404", "no_message"}
      /\ UNCHANGED <<job, url, size, announced, request, got, file, sent, body, broken,
                     reported>>
  BY DEF HeaderEnds, TransferInv, AnswerInv, LineInv, taskVars
<1>2. CountInv'
  BY <1>1 DEF TransferInv, CountInv
<1>3. CASE lines[1] = "no_message"
  <2>1. at' = "out" /\ rc' = CWMP_ERROR /\ UNCHANGED <<lines, answers>>
    BY <1>3 DEF HeaderEnds, GoTo
  <2> QED
    BY <1>1, <1>2, <2>1 DEF TransferInv, StartInv, AnswerInv, EndInv, SentInv, LineInv,
       CWMP_ERROR, CWMP_OK, HTTP_200
<1>4. CASE lines[1] # "no_message" /\ ContentLength = 0
  <2>1. AnswerDone(StatusOf(lines[1])) /\ StatusOf(lines[1]) # CWMP_OK
    BY <1>1, <1>4, StatusIsNone DEF HeaderEnds
  <2>2. got' \in Nat /\ got' = 0 /\ announced \in Nat
    BY <1>1 DEF TransferInv, CountInv
  <2>3. StartInv' /\ AnswerInv' /\ EndInv' /\ SentInv' /\ lines' = <<>> /\ at' # "body"
    BY <1>1, <2>1, <2>2, AnswerDoneKeeps
  <2>4. LineInv'
    BY <2>3 DEF LineInv
  <2> QED BY <1>2, <2>3, <2>4 DEF TransferInv
<1>5. CASE lines[1] # "no_message" /\ ContentLength # 0
  <2>1. job = "download" /\ announced # 0
    BY <1>5 DEF ContentLength
  <2>2. at' = "body" /\ rc' = rc /\ UNCHANGED <<lines, answers>>
    BY <1>5 DEF HeaderEnds, GoTo
  <2>3. got < announced
    BY <1>1, <2>1 DEF TransferInv, CountInv
  <2> QED
    BY <1>1, <1>2, <1>5, <2>1, <2>2, <2>3
    DEF TransferInv, StartInv, AnswerInv, EndInv, SentInv, LineInv
<1> QED BY <1>3, <1>4, <1>5

\* A block of the body, or its failure.
LEMMA BodyKeeps ==
  ASSUME TransferInv, http_read_body \/ BodyFails
  PROVE  TransferInv'
<1>1. /\ at = "body" /\ job = "download" /\ file # NoFile /\ got < announced
      /\ lines[1] \in {"200", "100", "404"}
      /\ UNCHANGED <<job, url, size, announced, request, sent, reported>>
  BY DEF http_read_body, BodyFails, TransferInv, AnswerInv, LineInv, taskVars
<1>2. StatusOf(lines[1]) # CWMP_OK
  BY <1>1, StatusIsNone
<1>3. /\ got \in Nat /\ body \in Nat /\ file \in Nat /\ announced \in Nat /\ size \in Nat
      /\ got + body = size /\ file <= got
  BY <1>1 DEF TransferInv, CountInv
<1>4. CASE http_read_body
  <2>1. PICK n \in 1..BlockSize, w \in 0..BlockSize :
          /\ n <= body /\ w <= n
          /\ got' = got + n /\ body' = body - n /\ file' = file + w
          /\ IF got + n >= announced THEN AnswerDone(StatusOf(lines[1]))
             ELSE UNCHANGED <<at, rc, lines, answers>>
    BY <1>4 DEF http_read_body
  <2>2. broken' = broken
    BY <1>4 DEF http_read_body
  <2>3. n \in Nat /\ w \in Nat /\ n # 0 /\ BlockSize \in Nat /\ n <= BlockSize
    BY <2>1, TransferAssumption
  <2>4. /\ got' \in Nat /\ body' \in Nat /\ file' \in Nat /\ got' + body' = size
        /\ file' <= got' /\ got' < announced + BlockSize /\ announced # 0
    BY <1>1, <1>3, <2>1, <2>3
  <2>5. CountInv'
    <3>1. /\ job' = "download" /\ size' = size /\ announced' = announced /\ sent' = sent
          /\ size \in Nat /\ announced \in Nat /\ sent \in Nat
      BY <1>1 DEF TransferInv, CountInv
    <3>2. file' # NoFile
      BY <2>4 DEF NoFile
    <3> QED BY <2>4, <3>1, <3>2 DEF CountInv
  <2>6. CASE got + n >= announced
    <3>1. AnswerDone(StatusOf(lines[1])) /\ got' >= announced
      BY <2>1, <2>6
    <3>2. StartInv' /\ AnswerInv' /\ EndInv' /\ SentInv' /\ lines' = <<>> /\ at' # "body"
      BY <1>1, <1>2, <1>3, <2>4, <3>1, AnswerDoneKeeps
    <3> QED BY <2>5, <3>2 DEF TransferInv, LineInv
  <2>7. CASE ~(got + n >= announced)
    <3>1. UNCHANGED <<at, rc, lines, answers>> /\ got' < announced'
      BY <1>1, <1>3, <2>1, <2>3, <2>7
    <3>2. file' # NoFile
      BY <2>4 DEF NoFile
    <3> QED
      BY <1>1, <2>5, <3>1, <3>2 DEF TransferInv, StartInv, AnswerInv, EndInv, SentInv, LineInv
  <2> QED BY <2>6, <2>7
<1>5. CASE BodyFails
  <2>1. AnswerDone(StatusOf(lines[1])) /\ broken' = TRUE /\ UNCHANGED <<got, body, file>>
    BY <1>5 DEF BodyFails
  <2>2. StartInv' /\ AnswerInv' /\ EndInv' /\ SentInv' /\ lines' = <<>> /\ at' # "body"
    BY <1>1, <1>2, <1>3, <2>1, AnswerDoneKeeps
  <2>3. CountInv'
    BY <1>1, <2>1 DEF TransferInv, CountInv
  <2> QED BY <2>2, <2>3 DEF TransferInv, LineInv
<1> QED BY <1>4, <1>5

\* The steps of http_read_response.
LEMMA ReadKeeps ==
  ASSUME TransferInv,
         http_read_line \/ HeaderEnds \/ HeaderFails \/ http_read_body \/ BodyFails
  PROVE  TransferInv'
<1>1. CASE HeaderFails
  BY <1>1 DEF HeaderFails, GoTo, TransferInv, StartInv, AnswerInv, EndInv, SentInv, CountInv,
     LineInv, CWMP_ERROR, CWMP_OK, HTTP_200, taskVars
<1> QED BY <1>1, LineReadKeeps, HeaderEndsKeeps, BodyKeeps

\* A block that has gone out is no longer to come.
LEMMA BlockCounted ==
  ASSUME NEW s \in Nat, NEW B \in Nat \ {0}, NEW b \in Nat, NEW z \in Nat, b >= B,
         s * B + b <= z
  PROVE  (s + 1) * B + (b - B) <= z /\ s * B + (b - B) <= z /\ b - B \in Nat
<1>1. (s + 1) * B = s * B + B /\ s * B \in Nat
  OBVIOUS
<1> QED BY <1>1

\* The steps that send the file and end the call.
LEMMA EndKeeps ==
  ASSUME TransferInv, SendBlock \/ Out
  PROVE  TransferInv'
<1>1. CASE SendBlock
  <2>1. /\ job = "upload" /\ answers = <<HTTP_100>> /\ at = "go_on" /\ got = 0
        /\ UNCHANGED <<job, size, announced, got, file, answers, reported, lines>>
    BY <1>1 DEF SendBlock, TransferInv, AnswerInv, taskVars
  <2>2. at' \in {"go_on", "header"}
    BY <1>1, <2>1 DEF SendBlock, GoTo
  <2>3. answers # <<>> /\ answers[1] = HTTP_100
    BY <2>1
  <2>4. sent \in Nat /\ body \in Nat /\ size \in Nat /\ sent * BlockSize + body <= size
    BY <2>1 DEF TransferInv, CountInv
  <2>5. sent' \in Nat /\ body' \in Nat /\ sent' * BlockSize + body' <= size
    <3>1. CASE body >= BlockSize
      <4>1. body' = body - BlockSize /\ sent' \in {sent, sent + 1}
        BY <1>1, <3>1 DEF SendBlock
      <4>2. /\ (sent + 1) * BlockSize + (body - BlockSize) <= size
            /\ sent * BlockSize + (body - BlockSize) <= size /\ body - BlockSize \in Nat
        BY <2>4, <3>1, BlockCounted, TransferAssumption
      <4>3. CASE sent' = sent
        BY <2>4, <4>1, <4>2, <4>3
      <4>4. CASE sent' = sent + 1
        BY <2>4, <4>1, <4>2, <4>4
      <4> QED BY <4>1, <4>3, <4>4
    <3>2. CASE ~(body >= BlockSize)
      BY <1>1, <2>4, <3>2 DEF SendBlock
    <3> QED BY <3>1, <3>2
  <2>6. CountInv'
    BY <2>1, <2>5 DEF TransferInv, CountInv
  <2> QED
    BY <2>1, <2>2, <2>3, <2>6 DEF TransferInv, StartInv, AnswerInv, EndInv, SentInv, LineInv
<1>2. CASE Out
  <2>1. UNCHANGED <<job, size, announced, rc, lines, got, file, sent, body, broken, answers>>
        /\ at = "out"
    BY <1>2 DEF Out, taskVars
  <2>2. job # "none" /\ reported = NoFault
    BY <2>1 DEF TransferInv, StartInv, EndInv
  <2>3. (at' = "died" /\ reported' = reported) \/ at' = "idle"
    BY <1>2 DEF Out
  <2>4. /\ job = "upload" /\ reported' = 0 => rc = HTTP_200
        /\ job = "download" /\ reported' = 0 => rc = CWMP_OK
    BY <1>2, <2>2 DEF Out, NoFault, CWMP_OK, CWMP_ERROR, HTTP_200
  <2>5. CountInv'
    BY <2>1 DEF TransferInv, CountInv
  <2> QED
    BY <2>1, <2>2, <2>3, <2>4, <2>5 DEF TransferInv, StartInv, AnswerInv, EndInv, SentInv, LineInv
<1> QED BY <1>1, <1>2

----------------------------------------------------------------------------
(* The theorem.                                                            *)

\* Whatever the server announces, sends and answers, whatever fwrite writes
\* and wherever the connection breaks: status 200 of a download means that the
\* length announced was taken, and less than a block more; a download is
\* reported without a fault only if nothing was asked of the server; an upload
\* counts as done only after "continue" and 200, and one byte for each whole
\* block is all that goes out.
THEOREM TransferIsTrue == TransferSpec => []TransferTruth
<1>1. TransferInit => TransferInv
  BY DEF TransferInit, TransferInv, StartInv, AnswerInv, EndInv, SentInv, CountInv, LineInv,
     Fresh, NoFile, NoFault, CWMP_OK, HTTP_200
<1>2. TransferInv /\ [TransferNext]_transferVars => TransferInv'
  <2> SUFFICES ASSUME TransferInv, [TransferNext]_transferVars PROVE TransferInv'
    OBVIOUS
  <2>1. CASE TransferNext
    BY <2>1, StartKeeps, ReadKeeps, EndKeeps DEF TransferNext
  <2>2. CASE UNCHANGED transferVars
    BY <2>2 DEF transferVars, taskVars, TransferInv, StartInv, AnswerInv, EndInv, SentInv,
       CountInv, LineInv, Fresh
  <2> QED BY <2>1, <2>2
<1>3. TransferInv => TransferTruth
  BY DEF TransferInv, EndInv, SentInv, CountInv, TransferTruth
<1> QED BY <1>1, <1>2, <1>3, PTL DEF TransferSpec

----------------------------------------------------------------------------
(* Recursion over nodes that have a rank: what a node is given is made of  *)
(* what those of lower rank are given.                                     *)

\* What passes from all of lower rank to a node holds for all nodes.
Inherited(D, K, rk, Good) ==
  /\ K \in Nat /\ rk \in [D -> 0..K]
  /\ \A n \in D : (\A m \in D : rk[m] < rk[n] => m \in Good) => n \in Good

LEMMA RankInduction ==
  ASSUME NEW D, NEW K, NEW rk, NEW Good, Inherited(D, K, rk, Good)
  PROVE  \A n \in D : n \in Good
<1>0. /\ K \in Nat /\ rk \in [D -> 0..K]
      /\ \A n \in D : (\A m \in D : rk[m] < rk[n] => m \in Good) => n \in Good
  BY DEF Inherited
<1> DEFINE T == {k \in Nat : \E n \in D : n \notin Good /\ rk[n] = k}
<1>1. SUFFICES ASSUME NEW n \in D, n \notin Good
               PROVE  FALSE
  OBVIOUS
<1>2. \A m \in D : rk[m] \in Nat
  BY <1>0
<1>3. T # {} /\ T \subseteq Nat
  BY <1>1, <1>2
<1>4. PICK k \in T : \A j \in T : k <= j
  <2> HIDE DEF T
  <2> QED BY <1>3, LeastNatural
<1>5. PICK m \in D : m \notin Good /\ rk[m] = k
  BY <1>4
<1>6. PICK x \in D : rk[x] < rk[m] /\ x \notin Good
  BY <1>0, <1>5
<1>7. rk[x] \in T
  BY <1>2, <1>6
<1>8. k <= rk[x]
  <2> HIDE DEF T
  <2> QED BY <1>4, <1>7
<1> QED BY <1>2, <1>5, <1>6, <1>8

\* step[f][n] looks only at what f has for those of lower rank.
Local(D, S, rk, step) ==
  \A f, g \in [D -> S] : \A n \in D :
     (\A m \in D : rk[m] < rk[n] => f[m] = g[m]) => step[f][n] = step[g][n]

RankedBy(D, K, rk, S, x, step) ==
  /\ K \in Nat /\ rk \in [D -> 0..K] /\ x \in S /\ step \in [[D -> S] -> [D -> S]]
  /\ Local(D, S, rk, step)

\* A function of the nodes whose value at each is made of those of lower rank.
LEMMA RankedRecursion ==
  ASSUME NEW D, NEW K, NEW rk, NEW S, NEW x, NEW step, RankedBy(D, K, rk, S, x, step)
  PROVE  \E f \in [D -> S] : \A n \in D : f[n] = step[f][n]
<1>0. /\ K \in Nat /\ rk \in [D -> 0..K] /\ x \in S /\ step \in [[D -> S] -> [D -> S]]
      /\ Local(D, S, rk, step)
  BY DEF RankedBy
<1>1. PICK X : X = [D -> S]
  OBVIOUS
<1>2. step \in [X -> X]
  BY <1>0, <1>1, Zenon
<1> DEFINE first == [n \in D |-> x]
           rounds == [i \in 1..(K + 1) |-> step]
<1>3. first \in X
  BY <1>0, <1>1
<1>4. rounds \in [1..(K + 1) -> [X -> X]] /\ \A i \in 1..(K + 1) : rounds[i] = step
  BY <1>2
<1>5. K + 1 \in Nat
  BY <1>0
<1> HIDE DEF first, rounds
<1>6. PICK h : Recursed(h, K + 1, X, first, rounds)
  BY <1>3, <1>4, <1>5, Recursion
<1>7. h \in [0..(K + 1) -> X] /\ \A i \in 1..(K + 1) : h[i] = step[h[i - 1]]
  BY <1>4, <1>6 DEF Recursed
<1> DEFINE Good == {i \in 0..(K + 1) : \A n \in D : rk[n] < i => h[i][n] = step[h[i]][n]}
<1>8. 0 \in Good
  <2>1. \A n \in D : ~(rk[n] < 0)
    BY <1>0
  <2>2. 0 \in 0..(K + 1)
    BY <1>5
  <2> QED BY <2>1, <2>2
<1>9. ASSUME NEW i \in 1..(K + 1), i - 1 \in Good
      PROVE  i \in Good
  <2>1. i - 1 \in 0..(K + 1) /\ i \in 0..(K + 1)
    BY <1>5
  <2>2. h[i] \in [D -> S] /\ h[i - 1] \in [D -> S] /\ h[i] = step[h[i - 1]]
    BY <1>1, <1>7, <2>1, Zenon
  <2>3. \A m \in D : rk[m] < i - 1 => h[i - 1][m] = h[i][m]
    BY <1>9, <2>2
  <2>4. ASSUME NEW n \in D, rk[n] < i
        PROVE  h[i][n] = step[h[i]][n]
    <3>1. \A m \in D : rk[m] < rk[n] => rk[m] < i - 1
      BY <1>0, <2>4
    <3>2. \A m \in D : rk[m] < rk[n] => h[i - 1][m] = h[i][m]
      BY <2>3, <3>1, Zenon
    <3>3. step[h[i - 1]][n] = step[h[i]][n]
      BY <1>0, <2>2, <3>2, Zenon DEF Local
    <3> QED BY <2>2, <3>3, Zenon
  <2> QED BY <2>1, <2>4
<1>10. \A i \in 0..(K + 1) : i \in Good
  <2> HIDE DEF Good
  <2> QED BY <1>5, <1>8, <1>9, UpTo
<1>11. PICK f : f = h[K + 1]
  OBVIOUS
<1>12. \A n \in D : f[n] = step[f][n]
  <2>1. K + 1 \in 0..(K + 1) /\ \A n \in D : rk[n] < K + 1
    BY <1>0
  <2> QED BY <1>10, <1>11, <2>1
<1>13. f \in [D -> S]
  <2>1. K + 1 \in 0..(K + 1)
    BY <1>0
  <2> QED BY <1>1, <1>7, <1>11, <2>1, Zenon
<1> QED BY <1>12, <1>13

LEMMA ConcatSet ==
  ASSUME NEW S, NEW a \in Seq(S), NEW b \in Seq(S)
  PROVE  ToSet(a \o b) = ToSet(a) \cup ToSet(b)
<1>1. PICK l \in Nat : l = Len(a)
  OBVIOUS
<1>2. PICK m \in Nat : m = Len(b)
  OBVIOUS
<1>3. PICK c : c = a \o b
  OBVIOUS
<1>4. /\ c \in Seq(S) /\ Len(c) = l + m
      /\ \A j \in 1..l : c[j] = a[j]
      /\ \A k \in 1..m : c[l + k] = b[k]
  BY <1>1, <1>2, <1>3, ConcatIs
<1>5. DOMAIN a = 1..l /\ DOMAIN b = 1..m /\ DOMAIN c = 1..(l + m)
  BY <1>1, <1>2, <1>4
<1>6. ToSet(c) \subseteq ToSet(a) \cup ToSet(b)
  <2> SUFFICES ASSUME NEW i \in 1..(l + m)
               PROVE  c[i] \in ToSet(a) \cup ToSet(b)
    BY <1>5 DEF ToSet
  <2>1. CASE i \in 1..l
    <3>1. c[i] = a[i] /\ i \in DOMAIN a
      BY <1>4, <1>5, <2>1
    <3> QED BY <3>1 DEF ToSet
  <2>2. CASE i \notin 1..l
    <3>1. i - l \in 1..m /\ l + (i - l) = i
      BY <2>2
    <3>2. c[i] = b[i - l] /\ i - l \in DOMAIN b
      BY <1>4, <1>5, <3>1
    <3> QED BY <3>2 DEF ToSet
  <2> QED BY <2>1, <2>2
<1>7. ToSet(a) \subseteq ToSet(c)
  <2>1. \A i \in 1..l : i \in 1..(l + m) /\ c[i] = a[i]
    BY <1>4
  <2> QED BY <1>5, <2>1 DEF ToSet
<1>8. ToSet(b) \subseteq ToSet(c)
  <2>1. \A i \in 1..m : l + i \in 1..(l + m) /\ c[l + i] = b[i]
    BY <1>4
  <2> QED BY <1>5, <2>1 DEF ToSet
<1> QED BY <1>3, <1>6, <1>7, <1>8

\* All that is in some sequences, one behind the other.
LEMMA FlattenIs ==
  ASSUME NEW S, NEW q \in Seq(Seq(S))
  PROVE  /\ FlattenSeq(q) \in Seq(S)
         /\ ToSet(FlattenSeq(q)) = UNION {ToSet(q[i]) : i \in DOMAIN q}
<1>1. PICK T : T = Seq(S)
  OBVIOUS
<1>2. PICK N \in Nat : N = Len(q) /\ DOMAIN q = 1..N /\ \A i \in 1..N : q[i] \in T
  <2>1. q \in Seq(T)
    BY <1>1, Zenon
  <2> QED BY <2>1
<1>3. CASE N = 0
  <2>1. q = <<>>
    BY <1>2, <1>3, EmptySeq
  <2>2. FlattenSeq(q) = q
    BY <1>2, <1>3, Zenon DEF FlattenSeq
  <2>3. DOMAIN q = {}
    BY <1>2, <1>3
  <2>4. ToSet(q) = {} /\ UNION {ToSet(q[i]) : i \in DOMAIN q} = {}
    BY <2>3 DEF ToSet
  <2>5. q \in Seq(S)
    BY <2>1
  <2> QED BY <2>2, <2>4, <2>5, Zenon
<1>4. CASE N # 0
  <2> DEFINE Eq(f) == f = [i \in 1..N |-> IF i = 1 THEN q[i] ELSE f[i - 1] \o q[i]]
             F == CHOOSE f : Eq(f)
             step == [i \in 1..N |-> [t \in T |-> IF i = 1 THEN q[i] ELSE t \o q[i]]]
  <2>1. FlattenSeq(q) = F[N]
    BY <1>2, <1>4, Zenon DEF FlattenSeq
  <2>2. \A i \in 1..N : \A t \in T : t \o q[i] \in T
    BY <1>1, <1>2, ConcatIs
  <2>3. step \in [1..N -> [T -> T]]
        /\ \A i \in 1..N : \A t \in T : step[i][t] = IF i = 1 THEN q[i] ELSE t \o q[i]
    BY <1>2, <2>2
  <2> HIDE DEF step
  <2>4. <<>> \in T
    BY <1>1
  <2>5. PICK h : Recursed(h, N, T, <<>>, step)
    BY <2>3, <2>4, Recursion
  <2>6. h \in [0..N -> T] /\ \A i \in 1..N : h[i] = step[i][h[i - 1]]
    BY <2>5 DEF Recursed
  <2>7. \A i \in 1..N : h[i] = IF i = 1 THEN q[i] ELSE h[i - 1] \o q[i]
    <3>1. \A i \in 1..N : i - 1 \in 0..N
      OBVIOUS
    <3> QED BY <2>3, <2>6, <3>1
  <2>8. PICK g : g = [i \in 1..N |-> h[i]]
    OBVIOUS
  <2>9. Eq(g)
    <3>1. \A i \in 1..N : i # 1 => i - 1 \in 1..N
      OBVIOUS
    <3>2. \A i \in 1..N : g[i] = IF i = 1 THEN q[i] ELSE g[i - 1] \o q[i]
      BY <2>7, <2>8, <3>1
    <3> QED BY <2>8, <3>2
  <2>10. Eq(F)
    <3> HIDE DEF Eq
    <3> QED BY <2>9
  <2> HIDE DEF F
  <2>11. \A i \in 1..N : F[i] = IF i = 1 THEN q[i] ELSE F[i - 1] \o q[i]
    BY <2>10
  <2> DEFINE U(i) == UNION {ToSet(q[j]) : j \in 1..i}
             Good == {i \in 0..N : i = 0 \/ (F[i] \in T /\ ToSet(F[i]) = U(i))}
  <2>12. 0 \in Good
    OBVIOUS
  <2>13. ASSUME NEW i \in 1..N, i - 1 \in Good
         PROVE  i \in Good
    <3>1. CASE i = 1
      <4>1. F[i] = q[i] /\ 1..i = {i}
        BY <2>11, <3>1
      <4>2. U(i) = ToSet(q[i])
        BY <4>1
      <4> HIDE DEF U
      <4> QED BY <1>2, <4>1, <4>2
    <3>2. CASE i # 1
      <4>1. i - 1 # 0 /\ 1..i = 1..(i - 1) \cup {i}
        BY <3>2
      <4>2. F[i - 1] \in T /\ ToSet(F[i - 1]) = U(i - 1)
        BY <2>13, <4>1
      <4>3. F[i] = F[i - 1] \o q[i]
        BY <2>11, <3>2
      <4>4. U(i) = U(i - 1) \cup ToSet(q[i])
        BY <4>1
      <4>5. q[i] \in T
        BY <1>2
      <4> HIDE DEF U
      <4>6. F[i] \in T /\ ToSet(F[i]) = ToSet(F[i - 1]) \cup ToSet(q[i])
        BY <1>1, <4>2, <4>3, <4>5, ConcatIs, ConcatSet
      <4>7. ToSet(F[i]) = U(i)
        BY <4>2, <4>4, <4>6, Zenon
      <4>8. i \in 0..N
        OBVIOUS
      <4> QED BY <4>6, <4>7, <4>8
    <3> QED BY <3>1, <3>2
  <2>14. N \in Good
    <3> HIDE DEF Good
    <3>1. \A i \in 0..N : i \in Good
      BY <2>12, <2>13, UpTo
    <3> QED BY <3>1
  <2>15. F[N] \in T /\ ToSet(F[N]) = U(N)
    BY <1>4, <2>14
  <2> QED BY <1>1, <1>2, <2>1, <2>15, Zenon
<1> QED BY <1>3, <1>4

----------------------------------------------------------------------------
(* The parameter tree: pointers lead to nodes, and there is a rank that    *)
(* falls along child and next, so every walk ends.                         *)

NodesOf(ps) == 1..Len(ps)

Falls(ps, K, rk) ==
  /\ K \in Nat /\ rk \in [NodesOf(ps) -> 0..K]
  /\ \A n \in NodesOf(ps) :
       /\ ps[n].child # NoParam => rk[ps[n].child] < rk[n]
       /\ ps[n].next # NoParam => rk[ps[n].next] < rk[n]

PointersIn(ps) ==
  /\ ps \in Seq(ParamRecord)
  /\ \A n \in NodesOf(ps) : {ps[n].child, ps[n].next, ps[n].parent} \subseteq 0..Len(ps)

Walkable(ps) == PointersIn(ps) /\ \E K, rk : Falls(ps, K, rk)

LEMMA PointersAre ==
  ASSUME NEW ps, PointersIn(ps)
  PROVE  /\ Len(ps) \in Nat /\ DOMAIN ps = NodesOf(ps)
         /\ \A n \in NodesOf(ps) :
              /\ ps[n] \in ParamRecord
              /\ ps[n].child \in 0..Len(ps) /\ ps[n].next \in 0..Len(ps) /\ ps[n].parent \in 0..Len(ps)
              /\ ps[n].child # NoParam => ps[n].child \in NodesOf(ps)
              /\ ps[n].next # NoParam => ps[n].next \in NodesOf(ps)
              /\ n # NoParam /\ n \in 0..Len(ps)
<1>1. Len(ps) \in Nat /\ DOMAIN ps = NodesOf(ps)
  BY DEF PointersIn, NodesOf
<1>2. \A n \in NodesOf(ps) : ps[n] \in ParamRecord
  BY DEF PointersIn, NodesOf
<1>3. \A n \in NodesOf(ps) :
         ps[n].child \in 0..Len(ps) /\ ps[n].next \in 0..Len(ps) /\ ps[n].parent \in 0..Len(ps)
  BY DEF PointersIn
<1>4. \A k \in 0..Len(ps) : k # NoParam => k \in NodesOf(ps)
  BY <1>1 DEF NodesOf, NoParam
<1>5. \A n \in NodesOf(ps) : n # NoParam /\ n \in 0..Len(ps)
  BY <1>1 DEF NodesOf, NoParam
<1> QED BY <1>1, <1>2, <1>3, <1>4, <1>5

\* A node and the siblings behind it.
LEMMA SiblingsAre ==
  ASSUME NEW ps, Walkable(ps)
  PROVE  /\ Siblings(ps, NoParam) = <<>>
         /\ \A n \in NodesOf(ps) :
              /\ Siblings(ps, n) = <<n>> \o Siblings(ps, ps[n].next)
              /\ Siblings(ps, n) \in Seq(NodesOf(ps))
         /\ \A n \in 0..Len(ps) : Siblings(ps, n) \in Seq(NodesOf(ps))
<1>1. PICK K, rk : Falls(ps, K, rk)
  BY DEF Walkable
<1>2. PointersIn(ps)
  BY DEF Walkable
<1> DEFINE M == Len(ps)
           D == 0..M
           S == Seq(NodesOf(ps))
           up == [m \in D |-> IF m = NoParam THEN 0 ELSE rk[m] + 1]
           V(f, m) == IF m = NoParam THEN <<>> ELSE <<m>> \o f[ps[m].next]
           Body(f) == [m \in D |-> V(f, m)]
           step == [f \in [D -> S] |-> Body(f)]
           F == CHOOSE f : f = Body(f)
<1>3. \A n : Siblings(ps, n) = F[n]
  BY Zenon DEF Siblings
<1>4. K + 1 \in Nat /\ up \in [D -> 0..(K + 1)]
  <2>1. \A m \in D : m # NoParam => m \in NodesOf(ps)
    BY <1>2, PointersAre DEF NodesOf, NoParam
  <2>2. K \in Nat /\ \A m \in NodesOf(ps) : rk[m] \in 0..K
    BY <1>1 DEF Falls
  <2>3. \A m \in D : m # NoParam => rk[m] + 1 \in 0..(K + 1)
    BY <2>1, <2>2
  <2> QED BY <2>2, <2>3
<1>5. \A m \in D : m # NoParam => m \in NodesOf(ps) /\ ps[m].next \in D /\ up[ps[m].next] < up[m]
  <2> TAKE m \in D
  <2> HAVE m # NoParam
  <2>1. m \in NodesOf(ps)
    BY <1>2, PointersAre DEF NodesOf, NoParam
  <2>2. ps[m].next \in D /\ (ps[m].next # NoParam => ps[m].next \in NodesOf(ps))
    BY <1>2, <2>1, PointersAre
  <2>3. rk[m] \in Nat /\ up[m] = rk[m] + 1
    BY <1>1, <2>1 DEF Falls
  <2>4. CASE ps[m].next = NoParam
    BY <2>1, <2>2, <2>3, <2>4
  <2>5. CASE ps[m].next # NoParam
    <3>1. rk[ps[m].next] < rk[m] /\ rk[ps[m].next] \in Nat
      BY <1>1, <2>1, <2>2, <2>5 DEF Falls
    <3> QED BY <2>1, <2>2, <2>3, <2>5, <3>1
  <2> QED BY <2>4, <2>5
<1> HIDE DEF D, up
<1>6. ASSUME NEW f, NEW m \in D, \A c \in D : up[c] < up[m] => f[c] \in S
      PROVE  V(f, m) \in S
  <2>1. CASE m = NoParam
    BY <2>1
  <2>2. CASE m # NoParam
    <3>1. f[ps[m].next] \in S /\ m \in NodesOf(ps)
      BY <1>5, <1>6, <2>2
    <3> QED BY <2>2, <3>1, ConsIs
  <2> QED BY <2>1, <2>2
<1>7. RankedBy(D, K + 1, up, S, <<>>, step)
  <2>1. ASSUME NEW f \in [D -> S], NEW m \in D
        PROVE  V(f, m) \in S
    <3> HIDE DEF V, S
    <3> QED BY <1>6
  <2>2. \A f \in [D -> S] : Body(f) \in [D -> S]
    <3> HIDE DEF V, S
    <3> QED BY <2>1
  <2>3. step \in [[D -> S] -> [D -> S]]
    <3> HIDE DEF Body, S
    <3> QED BY <2>2
  <2>4. ASSUME NEW f \in [D -> S], NEW g \in [D -> S], NEW n \in D,
               \A m \in D : up[m] < up[n] => f[m] = g[m]
        PROVE  step[f][n] = step[g][n]
    <3>1. step[f][n] = V(f, n) /\ step[g][n] = V(g, n)
      <4> HIDE DEF V, S
      <4> QED OBVIOUS
    <3>2. n # NoParam => f[ps[n].next] = g[ps[n].next]
      BY <1>5, <2>4
    <3>3. V(f, n) = V(g, n)
      BY <3>2, Zenon
    <3> QED BY <3>1, <3>3
  <2>5. Local(D, S, up, step)
    <3> HIDE DEF S, step
    <3> QED BY <2>4 DEF Local
  <2>6. <<>> \in S
    OBVIOUS
  <2> HIDE DEF S, step
  <2> QED BY <1>4, <2>3, <2>5, <2>6 DEF RankedBy
<1>8. PICK f \in [D -> S] : \A n \in D : f[n] = step[f][n]
  <2> HIDE DEF S, step
  <2> QED BY <1>7, RankedRecursion
<1>9. f = Body(f)
  <2>1. \A n \in D : step[f][n] = V(f, n)
    <3> HIDE DEF V, S
    <3> QED OBVIOUS
  <2>2. \A n \in D : f[n] = V(f, n)
    <3> HIDE DEF S, V, step
    <3> QED BY <1>8, <2>1
  <2> HIDE DEF S, V
  <2> QED BY <2>2
<1>10. F = Body(F)
  <2> HIDE DEF Body
  <2> QED BY <1>9
<1> HIDE DEF F
<1>11. \A m \in D : F[m] = V(F, m)
  <2> HIDE DEF V
  <2> QED BY <1>10
<1>12. \A m \in D : F[m] \in S
  <2> DEFINE Good == {m \in D : F[m] \in S}
  <2>1. ASSUME NEW n \in D, \A m \in D : up[m] < up[n] => m \in Good
        PROVE  n \in Good
    <3>1. V(F, n) \in S
      <4> HIDE DEF V, S
      <4> QED BY <1>6, <2>1
    <3> HIDE DEF V, S
    <3> QED BY <1>11, <3>1
  <2>2. \A n \in D : n \in Good
    <3> HIDE DEF Good
    <3>1. Inherited(D, K + 1, up, Good)
      BY <1>4, <2>1 DEF Inherited
    <3> QED BY <3>1, RankInduction
  <2> QED BY <2>2
<1>13. NoParam \in D /\ \A n \in NodesOf(ps) : n \in D /\ n # NoParam
  BY <1>2, PointersAre DEF D, NoParam
<1>14. F[NoParam] = <<>>
  BY <1>11, <1>13
<1>15. \A n \in NodesOf(ps) : F[n] = <<n>> \o F[ps[n].next]
  BY <1>11, <1>13
<1> QED BY <1>3, <1>12, <1>13, <1>14, <1>15 DEF D

LEMMA OneAndMore ==
  ASSUME NEW S, NEW a \in S, NEW q \in Seq(S)
  PROVE  ToSet(<<a>> \o q) = {a} \cup ToSet(q)
<1>1. PICK p : p = <<a>>
  OBVIOUS
<1>2. p \in Seq(S) /\ DOMAIN p = 1..1 /\ p[1] = a
  BY <1>1
<1>3. ToSet(p) = {a}
  BY <1>2 DEF ToSet
<1>4. ToSet(p \o q) = ToSet(p) \cup ToSet(q)
  BY <1>2, ConcatSet
<1> QED BY <1>1, <1>3, <1>4

LEMMA SiblingSet ==
  ASSUME NEW ps, PointersIn(ps), NEW K, NEW rk, Falls(ps, K, rk), NEW n \in NodesOf(ps)
  PROVE  /\ n \in ToSet(Siblings(ps, n)) /\ ToSet(Siblings(ps, n)) \subseteq NodesOf(ps)
         /\ \A x \in ToSet(Siblings(ps, n)) :
              /\ rk[x] <= rk[n]
              /\ ps[x].next # NoParam => ps[x].next \in ToSet(Siblings(ps, n))
<1> DEFINE D == NodesOf(ps)
           W(m) == ToSet(Siblings(ps, m))
           Good == {m \in D : /\ m \in W(m) /\ W(m) \subseteq D
                              /\ \A x \in W(m) : /\ rk[x] <= rk[m]
                                                 /\ ps[x].next # NoParam => ps[x].next \in W(m)}
<1>1. Walkable(ps)
  BY DEF Walkable
<1>2. K \in Nat /\ rk \in [D -> 0..K]
  BY DEF Falls
<1>3. W(NoParam) = {}
  BY <1>1, SiblingsAre DEF ToSet
<1>4. \A m \in D : W(m) = {m} \cup W(ps[m].next)
  <2> TAKE m \in D
  <2>1. PICK t : t = ps[m].next
    OBVIOUS
  <2>2. t \in 0..Len(ps)
    BY <2>1, PointersAre
  <2>3. Siblings(ps, m) = <<m>> \o Siblings(ps, t) /\ Siblings(ps, t) \in Seq(D)
    BY <1>1, <2>1, <2>2, SiblingsAre
  <2>4. W(m) = {m} \cup W(t)
    BY <2>3, OneAndMore
  <2> QED BY <2>1, <2>4
<1> HIDE DEF W
<1>5. ASSUME NEW m \in D, \A x \in D : rk[x] < rk[m] => x \in Good
      PROVE  m \in Good
  <2>1. PICK t : t = ps[m].next
    OBVIOUS
  <2>2. rk[m] \in Nat
    BY <1>2
  <2>3. CASE t = NoParam
    <3>1. W(m) = {m}
      BY <1>3, <1>4, <2>1, <2>3, ZenonT(60)
    <3>2. rk[m] <= rk[m]
      BY <2>2
    <3>3. ps[m].next = NoParam
      BY <2>1, <2>3
    <3>4. \A x \in W(m) : x = m
      BY <3>1
    <3> HIDE DEF D
    <3> QED BY <3>1, <3>2, <3>3, <3>4, <1>5
  <2>4. CASE t # NoParam
    <3>1. t \in D
      BY <2>1, <2>4, PointersAre
    <3>2. rk[t] < rk[m]
      BY <2>1, <2>4 DEF Falls
    <3>3. t \in Good
      BY <1>5, <3>1, <3>2
    <3>4. W(m) = {m} \cup W(t)
      BY <1>4, <2>1
    <3>5. ASSUME NEW x \in W(m)
          PROVE  /\ rk[x] <= rk[m]
                 /\ ps[x].next # NoParam => ps[x].next \in W(m)
      <4>1. CASE x = m
        BY <2>1, <2>2, <3>3, <3>4, <4>1
      <4>2. CASE x \in W(t)
        <5>1. rk[x] <= rk[t] /\ x \in D
          BY <3>3, <4>2
        <5>2. rk[x] \in Nat /\ rk[t] \in Nat
          BY <1>2, <3>1, <5>1
        <5>3. rk[x] <= rk[m]
          BY <2>2, <3>2, <5>1, <5>2
        <5> QED BY <3>3, <3>4, <4>2, <5>3
      <4> QED BY <3>4, <4>1, <4>2
    <3> QED BY <3>3, <3>4, <3>5
  <2> QED BY <2>3, <2>4
<1>6. Inherited(D, K, rk, Good)
  <2> HIDE DEF Good
  <2> QED BY <1>2, <1>5 DEF Inherited
<1>7. n \in Good
  <2> HIDE DEF Good
  <2> QED BY <1>6, RankInduction
<1> QED BY <1>7 DEF W

LEMMA ChildrenAre ==
  ASSUME NEW ps, PointersIn(ps), NEW K, NEW rk, Falls(ps, K, rk), NEW n \in NodesOf(ps)
  PROVE  /\ ChildrenOf(ps, n) \in Seq(NodesOf(ps))
         /\ \A c \in ToSet(ChildrenOf(ps, n)) :
              /\ c \in NodesOf(ps) /\ rk[c] < rk[n]
              /\ ps[c].next # NoParam => ps[c].next \in ToSet(ChildrenOf(ps, n))
         /\ ps[n].child # NoParam => ps[n].child \in ToSet(ChildrenOf(ps, n))
<1>1. PICK t : t = ps[n].child
  OBVIOUS
<1>2. t \in 0..Len(ps) /\ (t # NoParam => t \in NodesOf(ps))
  BY <1>1, PointersAre
<1>3. Walkable(ps)
  BY DEF Walkable
<1>4. ChildrenOf(ps, n) = Siblings(ps, t) /\ Siblings(ps, t) \in Seq(NodesOf(ps))
  BY <1>1, <1>2, <1>3, SiblingsAre DEF ChildrenOf
<1>5. CASE t = NoParam
  <2>1. ToSet(Siblings(ps, t)) = {}
    BY <1>3, <1>5, SiblingsAre DEF ToSet
  <2> QED BY <1>1, <1>4, <1>5, <2>1
<1>6. CASE t # NoParam
  <2>1. t \in NodesOf(ps)
    BY <1>2, <1>6
  <2>2. rk[t] < rk[n] /\ rk[t] \in Nat /\ rk[n] \in Nat
    BY <1>1, <1>6, <2>1 DEF Falls
  <2>3. /\ t \in ToSet(Siblings(ps, t)) /\ ToSet(Siblings(ps, t)) \subseteq NodesOf(ps)
        /\ \A x \in ToSet(Siblings(ps, t)) :
             /\ rk[x] <= rk[t]
             /\ ps[x].next # NoParam => ps[x].next \in ToSet(Siblings(ps, t))
    BY <2>1, SiblingSet
  <2>4. \A x \in NodesOf(ps) : rk[x] \in Nat
    BY DEF Falls
  <2>5. \A x \in ToSet(Siblings(ps, t)) : rk[x] < rk[n]
    BY <2>2, <2>3, <2>4
  <2> QED BY <1>1, <1>4, <2>3, <2>5
<1> QED BY <1>5, <1>6

LEMMA BelowAre ==
  ASSUME NEW ps, Walkable(ps)
  PROVE  \A n \in NodesOf(ps) :
           /\ Below(ps, n) \in Seq(NodesOf(ps))
           /\ Below(ps, n) = <<n>> \o FlattenSeq([i \in DOMAIN ChildrenOf(ps, n) |-> Below(ps, ChildrenOf(ps, n)[i])])
<1>1. PICK K, rk : Falls(ps, K, rk)
  BY DEF Walkable
<1>2. PointersIn(ps)
  BY DEF Walkable
<1> DEFINE D == NodesOf(ps)
           S == Seq(D)
           C(m) == ChildrenOf(ps, m)
           V(f, m) == <<m>> \o FlattenSeq([i \in DOMAIN C(m) |-> f[C(m)[i]]])
           Body(f) == [m \in D |-> V(f, m)]
           step == [f \in [D -> S] |-> Body(f)]
           F == CHOOSE f : f = Body(f)
<1>3. \A n : Below(ps, n) = F[n]
  <2>1. DOMAIN ps = D
    BY <1>2, PointersAre
  <2> QED BY <2>1 DEF Below
<1>4. K \in Nat /\ rk \in [D -> 0..K]
  BY <1>1 DEF Falls
<1>5. \A m \in D : /\ C(m) \in Seq(D)
                   /\ \A i \in DOMAIN C(m) : C(m)[i] \in D /\ rk[C(m)[i]] < rk[m]
  <2> TAKE m \in D
  <2>1. C(m) \in Seq(D) /\ \A c \in ToSet(C(m)) : c \in D /\ rk[c] < rk[m]
    BY <1>1, <1>2, ChildrenAre
  <2> QED BY <2>1 DEF ToSet
<1> HIDE DEF D, C
<1>6. ASSUME NEW f, NEW m \in D, \A c \in D : rk[c] < rk[m] => f[c] \in S
      PROVE  V(f, m) \in S
  <2>1. PICK c : c = C(m)
    OBVIOUS
  <2>2. PICK N \in Nat : N = Len(c) /\ DOMAIN c = 1..N
    <3>1. c \in Seq(D)
      BY <1>5, <2>1
    <3> QED BY <3>1
  <2>3. PICK T : T = S
    OBVIOUS
  <2>4. \A i \in 1..N : f[c[i]] \in T
    <3> HIDE DEF S
    <3> QED BY <1>5, <1>6, <2>1, <2>2, <2>3
  <2>5. [i \in 1..N |-> f[c[i]]] \in Seq(T)
    BY <2>2, <2>4
  <2>6. PICK q : q = [i \in DOMAIN c |-> f[c[i]]]
    OBVIOUS
  <2>7. FlattenSeq(q) \in Seq(D)
    BY <2>2, <2>3, <2>5, <2>6, FlattenIs
  <2>8. <<m>> \o FlattenSeq(q) \in Seq(D)
    BY <2>7, ConsIs
  <2> QED BY <2>1, <2>6, <2>8
<1>7. RankedBy(D, K, rk, S, <<>>, step)
  <2>1. ASSUME NEW f \in [D -> S], NEW m \in D
        PROVE  V(f, m) \in S
    <3> HIDE DEF V, S
    <3> QED BY <1>6
  <2>2. \A f \in [D -> S] : Body(f) \in [D -> S]
    <3> HIDE DEF V, S
    <3> QED BY <2>1
  <2>3. step \in [[D -> S] -> [D -> S]]
    <3> HIDE DEF Body, S
    <3> QED BY <2>2
  <2>4. ASSUME NEW f \in [D -> S], NEW g \in [D -> S], NEW n \in D,
               \A m \in D : rk[m] < rk[n] => f[m] = g[m]
        PROVE  step[f][n] = step[g][n]
    <3>1. step[f][n] = V(f, n) /\ step[g][n] = V(g, n)
      <4> HIDE DEF V, S
      <4> QED OBVIOUS
    <3>2. \A i \in DOMAIN C(n) : f[C(n)[i]] = g[C(n)[i]]
      BY <1>5, <2>4
    <3>3. [i \in DOMAIN C(n) |-> f[C(n)[i]]] = [i \in DOMAIN C(n) |-> g[C(n)[i]]]
      BY <3>2
    <3>4. V(f, n) = V(g, n)
      BY <3>3, Zenon
    <3> QED BY <3>1, <3>4
  <2>5. Local(D, S, rk, step)
    <3> HIDE DEF S, step
    <3> QED BY <2>4 DEF Local
  <2>6. <<>> \in S
    OBVIOUS
  <2> HIDE DEF S, step
  <2> QED BY <1>4, <2>3, <2>5, <2>6 DEF RankedBy
<1>8. PICK f \in [D -> S] : \A n \in D : f[n] = step[f][n]
  <2> HIDE DEF S, step
  <2> QED BY <1>7, RankedRecursion
<1>9. f = Body(f)
  <2>1. \A n \in D : step[f][n] = V(f, n)
    <3> HIDE DEF V, S
    <3> QED OBVIOUS
  <2>2. \A n \in D : f[n] = V(f, n)
    <3> HIDE DEF S, V, step
    <3> QED BY <1>8, <2>1
  <2> HIDE DEF S, V
  <2> QED BY <2>2
<1>10. F = Body(F)
  <2> HIDE DEF Body
  <2> QED BY <1>9
<1> HIDE DEF F
<1>11. \A m \in D : F[m] = V(F, m)
  <2> HIDE DEF V
  <2> QED BY <1>10
<1>12. \A m \in D : F[m] \in S
  <2> DEFINE Good == {m \in D : F[m] \in S}
  <2>1. ASSUME NEW n \in D, \A m \in D : rk[m] < rk[n] => m \in Good
        PROVE  n \in Good
    <3>1. V(F, n) \in S
      <4> HIDE DEF V, S
      <4> QED BY <1>6, <2>1
    <3> HIDE DEF V, S
    <3> QED BY <1>11, <3>1
  <2>2. \A n \in D : n \in Good
    <3> HIDE DEF Good
    <3>1. Inherited(D, K, rk, Good)
      BY <1>4, <2>1 DEF Inherited
    <3> QED BY <3>1, RankInduction
  <2> QED BY <2>2
<1>13. \A n \in D : Below(ps, n) = <<n>> \o FlattenSeq([i \in DOMAIN C(n) |-> Below(ps, C(n)[i])])
  <2> TAKE n \in D
  <2>1. [i \in DOMAIN C(n) |-> Below(ps, C(n)[i])] = [i \in DOMAIN C(n) |-> F[C(n)[i]]]
    BY <1>3
  <2> QED BY <1>3, <1>11, <2>1, Zenon
<1> QED BY <1>3, <1>12, <1>13 DEF D, C

LEMMA BelowSet ==
  ASSUME NEW ps, Walkable(ps), NEW n \in NodesOf(ps)
  PROVE  ToSet(Below(ps, n)) =
           {n} \cup UNION {ToSet(Below(ps, c)) : c \in ToSet(ChildrenOf(ps, n))}
<1> DEFINE D == NodesOf(ps)
<1>1. PICK K, rk : Falls(ps, K, rk)
  BY DEF Walkable
<1>2. PICK c : c = ChildrenOf(ps, n)
  OBVIOUS
<1>3. c \in Seq(D)
  BY <1>1, <1>2, ChildrenAre DEF Walkable
<1>4. PICK N \in Nat : N = Len(c) /\ DOMAIN c = 1..N /\ \A i \in 1..N : c[i] \in D
  <2> HIDE DEF D
  <2> QED BY <1>3
<1>5. PICK q : q = [i \in DOMAIN c |-> Below(ps, c[i])]
  OBVIOUS
<1>6. PICK T : T = Seq(D)
  OBVIOUS
<1>7. \A i \in 1..N : Below(ps, c[i]) \in T
  BY <1>4, <1>6, BelowAre
<1>8. q \in Seq(T) /\ DOMAIN q = 1..N /\ \A i \in 1..N : q[i] = Below(ps, c[i])
  BY <1>4, <1>5, <1>7
<1>9. PICK r : r = FlattenSeq(q)
  OBVIOUS
<1>10. r \in Seq(D) /\ ToSet(r) = UNION {ToSet(q[i]) : i \in 1..N}
  <2> HIDE DEF D
  <2> QED BY <1>6, <1>8, <1>9, FlattenIs
<1>11. Below(ps, n) = <<n>> \o r
  BY <1>2, <1>5, <1>9, BelowAre, SMTT(60)
<1>12. ToSet(Below(ps, n)) = {n} \cup ToSet(r)
  BY <1>10, <1>11, OneAndMore
<1>13. UNION {ToSet(q[i]) : i \in 1..N} = UNION {ToSet(Below(ps, x)) : x \in ToSet(c)}
  <2>1. \A i \in 1..N : c[i] \in ToSet(c) /\ q[i] = Below(ps, c[i])
    BY <1>4, <1>8 DEF ToSet
  <2>2. \A x \in ToSet(c) : \E i \in 1..N : x = c[i] /\ q[i] = Below(ps, x)
    BY <1>4, <1>8 DEF ToSet
  <2> QED BY <2>1, <2>2
<1> QED BY <1>2, <1>10, <1>12, <1>13

LEMMA BelowClosed ==
  ASSUME NEW ps, Walkable(ps), NEW n \in NodesOf(ps)
  PROVE  /\ n \in ToSet(Below(ps, n)) /\ ToSet(Below(ps, n)) \subseteq NodesOf(ps)
         /\ \A x \in ToSet(Below(ps, n)) :
              /\ ToSet(ChildrenOf(ps, x)) \subseteq ToSet(Below(ps, n))
              /\ x # n => \E u \in ToSet(Below(ps, n)) : x \in ToSet(ChildrenOf(ps, u))
<1> DEFINE D == NodesOf(ps)
           W(m) == ToSet(Below(ps, m))
           C(m) == ToSet(ChildrenOf(ps, m))
           Good == {m \in D : /\ m \in W(m) /\ W(m) \subseteq D
                              /\ \A x \in W(m) : /\ C(x) \subseteq W(m)
                                                 /\ x # m => \E u \in W(m) : x \in C(u)}
<1>1. PICK K, rk : Falls(ps, K, rk)
  BY DEF Walkable
<1>2. \A m \in D : \A c \in C(m) : c \in D /\ rk[c] < rk[m]
  BY <1>1, ChildrenAre DEF Walkable
<1>3. \A m \in D : W(m) = {m} \cup UNION {W(c) : c \in C(m)}
  BY BelowSet
<1> HIDE DEF W, C
<1>4. ASSUME NEW m \in D, \A x \in D : rk[x] < rk[m] => x \in Good
      PROVE  m \in Good
  <2>1. \A c \in C(m) : c \in Good
    BY <1>2, <1>4
  <2>2. \A c \in C(m) : c \in W(c) /\ W(c) \subseteq W(m)
    BY <1>3, <2>1
  <2>3. m \in W(m) /\ W(m) \subseteq D
    BY <1>3, <2>1
  <2>4. ASSUME NEW x \in W(m)
        PROVE  C(x) \subseteq W(m) /\ (x # m => \E u \in W(m) : x \in C(u))
    <3>1. CASE x = m
      BY <2>2, <3>1
    <3>2. CASE x # m
      <4>1. PICK c \in C(m) : x \in W(c)
        BY <1>3, <3>2
      <4>2. C(x) \subseteq W(c) /\ (x # c => \E u \in W(c) : x \in C(u))
        BY <2>1, <4>1
      <4>3. C(x) \subseteq W(m)
        BY <2>2, <4>2
      <4>4. \E u \in W(m) : x \in C(u)
        BY <2>2, <2>3, <4>1, <4>2
      <4> QED BY <4>3, <4>4
    <3> QED BY <3>1, <3>2
  <2> QED BY <2>3, <2>4
<1>5. Inherited(D, K, rk, Good)
  <2>1. K \in Nat /\ rk \in [D -> 0..K]
    BY <1>1 DEF Falls
  <2> HIDE DEF Good
  <2> QED BY <1>4, <2>1 DEF Inherited
<1>6. n \in Good
  <2> HIDE DEF Good
  <2> QED BY <1>5, RankInduction
<1> QED BY <1>6 DEF W, C

----------------------------------------------------------------------------
(* What making an instance does to the nodes.                              *)

\* p, a pointer in the copy, is to the copy of m.
ToCopy(p, m, M, L, of) ==
  IF m = NoParam THEN p = NoParam ELSE \E j \in 1..L : p = M + j /\ of[j] = m

\* q is ps with next of the node last set, and L nodes of its own behind, each
\* the copy of a node of ps, of[i] for the i-th.
CopyFields(ps, q, last, M, L, of) ==
  /\ M = Len(ps) /\ M \in Nat
  /\ q \in Seq(ParamRecord) /\ Len(q) = M + L
  /\ L \in Nat /\ of \in [1..L -> NodesOf(ps)] /\ last \in NodesOf(ps) /\ L >= 1
  /\ \A j \in 1..M : /\ q[j].child = ps[j].child /\ q[j].parent = ps[j].parent
                     /\ q[j].next = IF j = last THEN M + 1 ELSE ps[j].next
  /\ \A i \in 1..L :
       /\ ToCopy(q[M + i].child, ps[of[i]].child, M, L, of)
       /\ q[M + i].next = NoParam \/ ToCopy(q[M + i].next, ps[of[i]].next, M, L, of)
       /\ q[M + i].parent \in 0..(M + L)

\* Such a copy leaves a tree whose walks end: what is new ranks below what is old.
LEMMA CopyWalks ==
  ASSUME NEW ps, Walkable(ps), NEW q, NEW last, NEW M, NEW L, NEW of,
         CopyFields(ps, q, last, M, L, of)
  PROVE  Walkable(q)
<1>1. PICK K, rk : Falls(ps, K, rk)
  BY DEF Walkable
<1>2. PointersIn(ps)
  BY DEF Walkable
<1> DEFINE D == NodesOf(ps)
<1>3. /\ M \in Nat /\ L \in Nat /\ L >= 1 /\ D = 1..M /\ NodesOf(q) = 1..(M + L)
      /\ of \in [1..L -> D] /\ M = Len(ps) /\ Len(q) = M + L
  BY DEF CopyFields, NodesOf
<1>4. /\ \A j \in 1..M : /\ q[j].child = ps[j].child /\ q[j].parent = ps[j].parent
                         /\ q[j].next = IF j = last THEN M + 1 ELSE ps[j].next
      /\ \A i \in 1..L : q[M + i].parent \in 0..(M + L)
      /\ q \in Seq(ParamRecord)
  BY Zenon DEF CopyFields
<1>5. K \in Nat /\ rk \in [D -> 0..K]
  BY <1>1 DEF Falls
<1>6. \A n \in D : /\ ps[n].child # NoParam => ps[n].child \in D /\ rk[ps[n].child] < rk[n]
                   /\ ps[n].next # NoParam => ps[n].next \in D /\ rk[ps[n].next] < rk[n]
                   /\ ps[n].child \in 0..M /\ ps[n].next \in 0..M /\ ps[n].parent \in 0..M
  BY <1>1, <1>2, <1>3, PointersAre DEF Falls
<1> DEFINE up == [m \in 1..(M + L) |-> IF m \in 1..M THEN rk[m] + K + 1 ELSE rk[of[m - M]]]
<1>0. \A m \in 1..M : m \in 1..(M + L)
  BY <1>3
<1>7. \A m \in 1..M : up[m] = rk[m] + K + 1 /\ rk[m] \in 0..K
  <2>1. \A m \in 1..M : up[m] = rk[m] + K + 1
    BY <1>0
  <2>2. \A m \in D : rk[m] \in 0..K
    BY <1>5, Zenon
  <2>3. \A m \in 1..M : rk[m] \in 0..K
    BY <1>3, <2>2, Zenon
  <2> QED BY <2>1, <2>3
<1>8. \A i \in 1..L : /\ M + i \in 1..(M + L) /\ up[M + i] = rk[of[i]] /\ of[i] \in D /\ rk[of[i]] \in 0..K
  <2> TAKE i \in 1..L
  <2>1. M + i \in 1..(M + L) /\ M + i \notin 1..M /\ M + i - M = i
    BY <1>3
  <2>2. of[i] \in D
    BY <1>3, Zenon
  <2>3. up[M + i] = rk[of[i]]
    <3>1. PICK m : m = M + i
      OBVIOUS
    <3>2. m \in 1..(M + L) /\ m \notin 1..M /\ m - M = i
      <4>1. M \in Nat /\ i \in Nat
        BY <1>3
      <4>2. m - M = i
        BY <3>1, <4>1
      <4>3. m \in 1..(M + L) /\ m \notin 1..M
        BY <2>1, <3>1, Zenon
      <4> QED BY <4>2, <4>3
    <3>3. up[m] = rk[of[m - M]]
      BY <3>2
    <3> QED BY <3>1, <3>2, <3>3
  <2>4. rk[of[i]] \in 0..K
    BY <1>5, <2>2, Zenon
  <2> QED BY <2>1, <2>2, <2>3, <2>4
<1>9. \A m \in 1..(M + L) : m \in 1..M \/ \E i \in 1..L : m = M + i
  <2> TAKE m \in 1..(M + L)
  <2>1. m \notin 1..M => m - M \in 1..L /\ m = M + (m - M)
    BY <1>3
  <2> QED BY <2>1
<1>10. up \in [1..(M + L) -> 0..(K + K + 1)]
  <2>1. \A m \in 1..(M + L) : up[m] \in 0..(K + K + 1)
    <3> TAKE m \in 1..(M + L)
    <3>1. CASE m \in 1..M
      <4>1. up[m] = rk[m] + K + 1 /\ rk[m] \in 0..K
        BY <1>7, <3>1, Zenon
      <4>2. K \in Nat
        BY <1>5
      <4>3. PICK r \in 0..K : r = rk[m]
        BY <4>1
      <4>4. r + K + 1 \in 0..(K + K + 1)
        BY <4>2
      <4> QED BY <4>1, <4>3, <4>4, Zenon
    <3>2. CASE \E i \in 1..L : m = M + i
      <4>1. PICK i \in 1..L : m = M + i
        BY <3>2
      <4>2. up[m] \in 0..K
        BY <1>8, <4>1, Zenon
      <4> QED BY <1>5, <4>2
    <3> QED BY <1>9, <3>1, <3>2
  <2> QED BY <2>1
<1> HIDE DEF up, D
<1>11. ASSUME NEW p, NEW i \in 1..L, NEW m, m = NoParam \/ (m \in D /\ rk[m] < rk[of[i]]),
              ToCopy(p, m, M, L, of)
       PROVE  p \in 0..(M + L) /\ (p # NoParam => up[p] < up[M + i])
  <2>1. CASE m = NoParam
    BY <1>3, <1>11, <2>1 DEF ToCopy, NoParam
  <2>2. CASE m # NoParam
    <3>1. PICK j \in 1..L : p = M + j /\ of[j] = m
      BY <1>11, <2>2 DEF ToCopy
    <3>2. up[p] = rk[m] /\ up[M + i] = rk[of[i]]
      BY <1>8, <3>1
    <3>3. p \in 0..(M + L)
      BY <1>3, <3>1
    <3> QED BY <1>11, <2>2, <3>2, <3>3
  <2> QED BY <2>1, <2>2
<1>12. ASSUME NEW n \in 1..(M + L)
       PROVE  /\ q[n].child \in 0..(M + L) /\ q[n].next \in 0..(M + L) /\ q[n].parent \in 0..(M + L)
              /\ q[n].child # NoParam => up[q[n].child] < up[n]
              /\ q[n].next # NoParam => up[q[n].next] < up[n]
  <2>1. CASE n \in 1..M
    <3>1. \A k \in 0..M : k \in 0..(M + L)
      BY <1>3
    <3>2. q[n].child \in 0..(M + L) /\ q[n].parent \in 0..(M + L)
      BY <1>3, <1>4, <1>6, <2>1, <3>1
    <3>3. ASSUME NEW k \in D, rk[k] < rk[n]
          PROVE  up[k] < up[n]
      <4>1. up[k] = rk[k] + K + 1 /\ up[n] = rk[n] + K + 1 /\ rk[k] \in Nat /\ rk[n] \in Nat
        BY <1>3, <1>7, <2>1, <3>3
      <4> QED BY <1>5, <3>3, <4>1
    <3>4. q[n].child # NoParam => up[q[n].child] < up[n]
      BY <1>3, <1>4, <1>6, <2>1, <3>3
    <3>5. CASE n = last
      <4>1. q[n].next = M + 1 /\ 1 \in 1..L /\ M + 1 \in 0..(M + L)
        BY <1>3, <1>4, <2>1, <3>5
      <4>2. up[M + 1] \in 0..K
        BY <1>8, <4>1
      <4>3. up[n] >= K + 1
        BY <1>5, <1>7, <2>1
      <4>4. up[M + 1] < up[n]
        BY <1>5, <1>7, <2>1, <4>2, <4>3
      <4> QED BY <3>2, <3>4, <4>1, <4>4
    <3>6. CASE n # last
      <4>1. q[n].next = ps[n].next
        BY <1>4, <2>1, <3>6
      <4>2. q[n].next \in 0..(M + L) /\ (q[n].next # NoParam => up[q[n].next] < up[n])
        BY <1>3, <1>6, <2>1, <3>1, <3>3, <4>1
      <4> QED BY <3>2, <3>4, <4>2
    <3> QED BY <3>5, <3>6
  <2>2. CASE \E i \in 1..L : n = M + i
    <3>1. PICK i \in 1..L : n = M + i
      BY <2>2
    <3>2. of[i] \in D
      BY <1>8
    <3>3. ToCopy(q[n].child, ps[of[i]].child, M, L, of)
      BY <3>1, Zenon DEF CopyFields
    <3>4. q[n].child \in 0..(M + L) /\ (q[n].child # NoParam => up[q[n].child] < up[n])
      BY <1>6, <1>11, <3>1, <3>2, <3>3
    <3>5. q[n].next = NoParam \/ ToCopy(q[n].next, ps[of[i]].next, M, L, of)
      BY <3>1, Zenon DEF CopyFields
    <3>6. q[n].next \in 0..(M + L) /\ (q[n].next # NoParam => up[q[n].next] < up[n])
      <4>1. CASE q[n].next = NoParam
        BY <1>3, <4>1 DEF NoParam
      <4>2. CASE ToCopy(q[n].next, ps[of[i]].next, M, L, of)
        BY <1>6, <1>11, <3>1, <3>2, <4>2
      <4> QED BY <3>5, <4>1, <4>2
    <3>7. q[n].parent \in 0..(M + L)
      BY <1>4, <3>1
    <3> QED BY <3>4, <3>6, <3>7
  <2> QED BY <1>9, <2>1, <2>2
<1>13. PointersIn(q)
  BY <1>3, <1>4, <1>12 DEF PointersIn
<1>14. Falls(q, K + K + 1, up)
  BY <1>3, <1>5, <1>10, <1>12 DEF Falls
<1> QED BY <1>13, <1>14 DEF Walkable

LEMMA CutIs ==
  ASSUME NEW S, NEW q \in Seq(S), q # <<>>
  PROVE  Last(q) \in S /\ Len(q) \in Nat \ {0} /\ Last(q) \in ToSet(q)
<1>1. Len(q) \in Nat /\ Len(q) # 0
  BY EmptySeq
<1>2. Len(q) \in DOMAIN q
  BY <1>1
<1> QED BY <1>1, <1>2 DEF Last, ToSet

\* cwmp_model_copy_parameter leaves a tree whose walks end.
LEMMA InstanceIs ==
  ASSUME NEW ps, Walkable(ps), NEW n \in NodesOf(ps), ps[n].child # NoParam,
         NEW k \in Seq(STRING), Len(ps) + Len(Below(ps, ps[n].child)) <= MaxParams
  PROVE  /\ Walkable(Copied(ps, n, k))
         /\ Len(Copied(ps, n, k)) = Len(ps) + Len(Below(ps, ps[n].child))
<1>1. PointersIn(ps)
  BY DEF Walkable
<1>2. PICK K, rk : Falls(ps, K, rk)
  BY DEF Walkable
<1> DEFINE s == ps[n].child
           M == Len(ps)
           old == Below(ps, s)
           last == Last(Siblings(ps, s))
           new(m) == IF m = NoParam THEN NoParam ELSE M + (CHOOSE i \in DOMAIN old : old[i] = m)
           above(m) == CHOOSE u \in ToSet(old) : m \in ToSet(ChildrenOf(ps, u))
           copy(m) == IF m = s
                      THEN [ps[m] EXCEPT !.name = k, !.child = new(ps[m].child), !.next = NoParam]
                      ELSE [name |-> ps[m].name, object |-> TRUE, rw |-> 0,
                            parent |-> new(above(m)),
                            child |-> new(ps[m].child), next |-> new(ps[m].next)]
           a == [ps EXCEPT ![last].next = M + 1]
           b == [i \in DOMAIN old |-> copy(old[i])]
<1>15. Copied(ps, n, k) = a \o b
  BY DEF Copied
<1>3. s = ps[n].child
  OBVIOUS
<1>4. PICK D : D = NodesOf(ps)
  OBVIOUS
<1>5. M = Len(ps)
  OBVIOUS
<1>7. old = Below(ps, s)
  OBVIOUS
<1>11. last = Last(Siblings(ps, s))
  OBVIOUS
<1>13. a = [ps EXCEPT ![last].next = M + 1]
  OBVIOUS
<1>14. b = [i \in DOMAIN old |-> copy(old[i])]
  OBVIOUS
<1> HIDE DEF s, M, old, last, copy, a, b
<1>6. /\ M \in Nat /\ D = 1..M /\ DOMAIN ps = D /\ s \in D
      /\ \A m \in D : /\ ps[m] \in ParamRecord
                      /\ ps[m].child \in 0..M /\ ps[m].next \in 0..M /\ ps[m].parent \in 0..M
  BY <1>1, <1>3, <1>4, <1>5, PointersAre DEF NodesOf
<1>8. /\ old \in Seq(D) /\ s \in ToSet(old) /\ ToSet(old) \subseteq D
      /\ \A x \in ToSet(old) :
           /\ ToSet(ChildrenOf(ps, x)) \subseteq ToSet(old)
           /\ x # s => \E u \in ToSet(old) : x \in ToSet(ChildrenOf(ps, u))
  BY <1>4, <1>6, <1>7, BelowAre, BelowClosed
<1>9. PICK L \in Nat : L = Len(old) /\ DOMAIN old = 1..L
  BY <1>8
<1>10. L >= 1 /\ M + L <= MaxParams
  <2>1. \E j \in 1..L : TRUE
    BY <1>8, <1>9 DEF ToSet
  <2>2. Len(ps) + Len(old) <= MaxParams
    BY <1>3, <1>7
  <2> QED BY <1>5, <1>9, <2>1, <2>2
<1>12. last \in D
  <2>1. Siblings(ps, s) \in Seq(D) /\ Siblings(ps, s) = <<s>> \o Siblings(ps, ps[s].next)
        /\ Siblings(ps, ps[s].next) \in Seq(D)
    BY <1>4, <1>5, <1>6, SiblingsAre
  <2>2. PICK r : r = Siblings(ps, ps[s].next)
    OBVIOUS
  <2>3. ToSet(<<s>> \o r) = {s} \cup ToSet(r)
    <3>1. r \in Seq(D) /\ s \in D
      BY <1>6, <2>1, <2>2
    <3> QED BY <3>1, OneAndMore
  <2>4. ToSet(<<>>) = {}
    BY DEF ToSet
  <2>5. Siblings(ps, s) # <<>>
    BY <2>1, <2>2, <2>3, <2>4
  <2> QED BY <1>11, <2>1, <2>5, CutIs
<1>16. MaxParams \in Nat
  BY TreeAssumption
<1>17. PICK R : R = ParamRecord
  OBVIOUS
<1>18. /\ a \in Seq(R) /\ Len(a) = M
       /\ \A j \in 1..M : /\ a[j].child = ps[j].child /\ a[j].parent = ps[j].parent
                          /\ a[j].next = IF j = last THEN M + 1 ELSE ps[j].next
  <2>1. M + 1 \in 0..MaxParams
    BY <1>6, <1>9, <1>10, <1>16
  <2>2. [ps[last] EXCEPT !.next = M + 1] \in R
    <3>1. ps[last] \in ParamRecord
      BY <1>6, <1>12
    <3> QED BY <1>17, <2>1, <3>1 DEF ParamRecord
  <2>3. ps \in Seq(R)
    BY <1>1, <1>17 DEF PointersIn
  <2>4. a = [ps EXCEPT ![last] = [ps[last] EXCEPT !.next = M + 1]]
    BY <1>6, <1>12, <1>13
  <2>5. a \in Seq(R) /\ Len(a) = M
    <3>1. PICK x \in R : x = [ps[last] EXCEPT !.next = M + 1]
      BY <2>2
    <3>2. a = [ps EXCEPT ![last] = x]
      BY <2>4, <3>1
    <3>3. last \in 1..Len(ps)
      BY <1>5, <1>6, <1>12
    <3>4. [ps EXCEPT ![last] = x] \in Seq(R) /\ Len([ps EXCEPT ![last] = x]) = Len(ps)
      BY <2>3, <3>3
    <3> QED BY <1>5, <3>2, <3>4
  <2>6. \A j \in 1..M : a[j] = IF j = last THEN [ps[last] EXCEPT !.next = M + 1] ELSE ps[j]
    BY <1>6, <2>4
  <2>7. \A j \in 1..M : ps[j] \in ParamRecord
    BY <1>6
  <2>8. \A j \in 1..M : /\ a[j].child = ps[j].child /\ a[j].parent = ps[j].parent
                        /\ a[j].next = IF j = last THEN M + 1 ELSE ps[j].next
    BY <1>6, <1>12, <2>6, <2>7 DEF ParamRecord
  <2> QED BY <2>5, <2>8
<1>19. \A m : m = NoParam \/ m \in ToSet(old) => ToCopy(new(m), m, M, L, old)
  <2> TAKE m
  <2>1. CASE m = NoParam
    BY <2>1 DEF ToCopy
  <2>2. CASE m # NoParam /\ m \in ToSet(old)
    <3>1. \E i \in DOMAIN old : old[i] = m
      BY <2>2 DEF ToSet
    <3>2. PICK i \in DOMAIN old : i = (CHOOSE j \in DOMAIN old : old[j] = m) /\ old[i] = m
      BY <3>1
    <3>3. new(m) = M + i
      BY <2>2, <3>2
    <3> QED BY <1>9, <2>2, <3>2, <3>3 DEF ToCopy
  <2> QED BY <2>1, <2>2
<1>20. \A p, m : ToCopy(p, m, M, L, old) => p \in 0..(M + L)
  BY <1>6, <1>9 DEF ToCopy, NoParam
<1>21. \A u \in ToSet(old) :
          /\ u \in D /\ (ps[u].child = NoParam \/ ps[u].child \in ToSet(old))
          /\ u # s => /\ ps[u].next = NoParam \/ ps[u].next \in ToSet(old)
                      /\ above(u) \in ToSet(old)
  <2> TAKE u \in ToSet(old)
  <2>1. u \in D
    BY <1>8
  <2>2. ps[u].child = NoParam \/ ps[u].child \in ToSet(old)
    BY <1>1, <1>2, <1>4, <1>8, <2>1, ChildrenAre
  <2>3. ASSUME u # s
        PROVE  /\ ps[u].next = NoParam \/ ps[u].next \in ToSet(old)
               /\ above(u) \in ToSet(old)
    <3>1. PICK w \in ToSet(old) : u \in ToSet(ChildrenOf(ps, w))
      BY <1>8, <2>3
    <3>2. ps[u].next = NoParam \/ ps[u].next \in ToSet(ChildrenOf(ps, w))
      BY <1>1, <1>2, <1>4, <1>8, <3>1, ChildrenAre
    <3>3. above(u) \in ToSet(old)
      BY <3>1
    <3> QED BY <1>8, <3>2, <3>3
  <2> QED BY <2>1, <2>2, <2>3
<1> HIDE DEF new, above
<1>22. ASSUME NEW u \in ToSet(old)
       PROVE  /\ copy(u) \in R
              /\ ToCopy(copy(u).child, ps[u].child, M, L, old)
              /\ copy(u).next = NoParam \/ ToCopy(copy(u).next, ps[u].next, M, L, old)
              /\ copy(u).parent \in 0..(M + L)
  <2>1. u \in D /\ ps[u] \in ParamRecord /\ ps[u].parent \in 0..M
    BY <1>6, <1>21
  <2>2. ToCopy(new(ps[u].child), ps[u].child, M, L, old)
    BY <1>19, <1>21
  <2>3. \A x \in 0..(M + L) : x \in 0..MaxParams
    BY <1>6, <1>9, <1>10, <1>16
  <2>4. 0 \in 0..(M + L) /\ ps[u].parent \in 0..(M + L)
    BY <1>6, <1>9, <2>1
  <2>5. PICK x \in 0..(M + L) : x = new(ps[u].child)
    BY <1>20, <2>2
  <2>6. CASE u = s
    <3>1. PICK c : c = [ps[u] EXCEPT !.name = k, !.child = x, !.next = NoParam]
      OBVIOUS
    <3>2. c \in ParamRecord /\ c.child = x /\ c.next = NoParam /\ c.parent = ps[u].parent
      BY <2>1, <2>3, <2>4, <3>1 DEF ParamRecord, NoParam
    <3>3. copy(u) = c
      BY <2>5, <2>6, <3>1 DEF copy
    <3> QED BY <1>17, <2>2, <2>4, <2>5, <3>2, <3>3
  <2>7. CASE u # s
    <3>1. ToCopy(new(ps[u].next), ps[u].next, M, L, old)
      BY <1>19, <1>21, <2>7
    <3>2. PICK y \in 0..(M + L) : y = new(ps[u].next)
      BY <1>20, <3>1
    <3>3. PICK z \in 0..(M + L) : z = new(above(u))
      BY <1>19, <1>20, <1>21, <2>7
    <3>4. PICK c : c = [name |-> ps[u].name, object |-> TRUE, rw |-> 0,
                        parent |-> z, child |-> x, next |-> y]
      OBVIOUS
    <3>5. c \in ParamRecord /\ c.child = x /\ c.next = y /\ c.parent = z
      BY <2>1, <2>3, <3>4 DEF ParamRecord
    <3>6. copy(u) = c
      BY <2>5, <2>7, <3>2, <3>3, <3>4 DEF copy
    <3> QED BY <1>17, <2>2, <2>5, <3>1, <3>2, <3>5, <3>6
  <2> QED BY <2>6, <2>7
<1>23. \A i \in 1..L : old[i] \in ToSet(old) /\ old[i] \in D
  BY <1>8, <1>9 DEF ToSet
<1>24. b \in Seq(R) /\ Len(b) = L /\ \A i \in 1..L : b[i] = copy(old[i])
  <2>1. \A i \in 1..L : copy(old[i]) \in R
    BY <1>22, <1>23
  <2>2. b = [i \in 1..L |-> copy(old[i])]
    BY <1>9, <1>14
  <2> QED BY <1>9, <2>1, <2>2
<1>25. PICK q : q = a \o b
  OBVIOUS
<1>26. /\ q \in Seq(R) /\ Len(q) = M + L
       /\ \A j \in 1..M : q[j] = a[j]
       /\ \A i \in 1..L : q[M + i] = b[i]
  <2>1. PICK A \in Seq(R) : A = a /\ Len(A) = M
    BY <1>18
  <2>2. PICK B \in Seq(R) : B = b /\ Len(B) = L
    BY <1>24
  <2>3. /\ A \o B \in Seq(R) /\ Len(A \o B) = Len(A) + Len(B)
        /\ \A j \in 1..Len(A) : (A \o B)[j] = A[j]
        /\ \A i \in 1..Len(B) : (A \o B)[Len(A) + i] = B[i]
    BY ConcatIs
  <2> QED BY <1>25, <2>1, <2>2, <2>3, Zenon
<1>27. PICK of : of = [i \in 1..L |-> old[i]]
  OBVIOUS
<1>28. \A p, m : ToCopy(p, m, M, L, old) => ToCopy(p, m, M, L, of)
  BY <1>27 DEF ToCopy
<1>29. \A i \in 1..L :
         /\ ToCopy(q[M + i].child, ps[of[i]].child, M, L, of)
         /\ q[M + i].next = NoParam \/ ToCopy(q[M + i].next, ps[of[i]].next, M, L, of)
         /\ q[M + i].parent \in 0..(M + L)
  <2> TAKE i \in 1..L
  <2>1. q[M + i] = copy(old[i]) /\ of[i] = old[i] /\ old[i] \in ToSet(old)
    BY <1>23, <1>24, <1>26, <1>27
  <2> QED BY <1>22, <1>28, <2>1
<1>30. \A j \in 1..M : /\ q[j].child = ps[j].child /\ q[j].parent = ps[j].parent
                       /\ q[j].next = IF j = last THEN M + 1 ELSE ps[j].next
  BY <1>18, <1>26
<1>31. of \in [1..L -> NodesOf(ps)]
  BY <1>4, <1>23, <1>27
<1>32. CopyFields(ps, q, last, M, L, of)
  BY <1>4, <1>5, <1>6, <1>9, <1>10, <1>12, <1>17, <1>26, <1>29, <1>30, <1>31, Zenon DEF CopyFields
<1>33. Walkable(q)
  BY <1>32, CopyWalks
<1> QED BY <1>3, <1>5, <1>7, <1>9, <1>15, <1>25, <1>26, <1>33

\* The first loop of cwmp_model_delete_parameter only shortens a walk.
LEMMA UnlinkedIs ==
  ASSUME NEW ps, Walkable(ps), NEW p \in NodesOf(ps)
  PROVE  Walkable(Unlinked(ps, p)) /\ Len(Unlinked(ps, p)) = Len(ps)
<1> DEFINE row == IF ps[p].parent = NoParam THEN <<>> ELSE ChildrenOf(ps, ps[p].parent)
           W == ToSet(row)
           q == [m \in DOMAIN ps |-> IF m \in W /\ ps[m].next = p
                                     THEN [ps[m] EXCEPT !.next = ps[p].next] ELSE ps[m]]
<1>1. Unlinked(ps, p) = q
  BY DEF Unlinked
<1> HIDE DEF W
<1>2. PointersIn(ps)
  BY DEF Walkable
<1>3. PICK K, rk : Falls(ps, K, rk)
  BY DEF Walkable
<1>4. PICK D : D = NodesOf(ps)
  OBVIOUS
<1>5. PICK M \in Nat : M = Len(ps) /\ D = 1..M /\ DOMAIN ps = D
  BY <1>2, <1>4, PointersAre DEF NodesOf
<1>6. \A m \in D : /\ ps[m] \in ParamRecord
                   /\ ps[m].child \in 0..M /\ ps[m].next \in 0..M /\ ps[m].parent \in 0..M
                   /\ ps[m].child # NoParam => ps[m].child \in D
                   /\ ps[m].next # NoParam => ps[m].next \in D
  BY <1>2, <1>4, <1>5, PointersAre
<1>7. PICK R : R = ParamRecord
  OBVIOUS
<1>8. \A m \in D : q[m] = IF m \in W /\ ps[m].next = p
                          THEN [ps[m] EXCEPT !.next = ps[p].next] ELSE ps[m]
  BY <1>5
<1>9. \A m \in D : /\ q[m] \in R
                   /\ q[m].child = ps[m].child /\ q[m].parent = ps[m].parent
                   /\ \/ q[m].next = ps[m].next
                      \/ ps[m].next = p /\ q[m].next = ps[p].next
  <2> TAKE m \in D
  <2>1. ps[m] \in ParamRecord /\ ps[p] \in ParamRecord
    BY <1>4, <1>6
  <2>2. CASE m \in W /\ ps[m].next = p
    <3>1. q[m] = [ps[m] EXCEPT !.next = ps[p].next]
      BY <1>8, <2>2
    <3>2. [ps[m] EXCEPT !.next = ps[p].next] \in ParamRecord
      BY <2>1 DEF ParamRecord
    <3>3. /\ [ps[m] EXCEPT !.next = ps[p].next].child = ps[m].child
          /\ [ps[m] EXCEPT !.next = ps[p].next].parent = ps[m].parent
          /\ [ps[m] EXCEPT !.next = ps[p].next].next = ps[p].next
      BY <2>1 DEF ParamRecord
    <3> HIDE DEF q
    <3> QED BY <1>7, <2>2, <3>1, <3>2, <3>3
  <2>3. CASE ~(m \in W /\ ps[m].next = p)
    <3>1. q[m] = ps[m]
      BY <1>8, <2>3
    <3> HIDE DEF q
    <3> QED BY <1>7, <2>1, <3>1
  <2> QED BY <2>2, <2>3
<1>10. q \in Seq(R) /\ Len(q) = M
  <2>1. DOMAIN q = 1..M
    BY <1>5
  <2>2. q = [m \in 1..M |-> q[m]]
    BY <1>5
  <2> HIDE DEF q
  <2>3. \A m \in 1..M : q[m] \in R
    BY <1>5, <1>9
  <2> QED BY <2>2, <2>3
<1> HIDE DEF q
<1>11. NodesOf(q) = D
  BY <1>5, <1>10 DEF NodesOf
<1>12. K \in Nat /\ rk \in [D -> 0..K] /\ \A m \in D : rk[m] \in Nat
  <2>1. K \in Nat /\ rk \in [D -> 0..K]
    BY <1>3, <1>4 DEF Falls
  <2> QED BY <2>1
<1>13. \A m \in D : /\ ps[m].child # NoParam => rk[ps[m].child] < rk[m]
                    /\ ps[m].next # NoParam => rk[ps[m].next] < rk[m]
  BY <1>3, <1>4 DEF Falls
<1>14. ASSUME NEW m \in D
       PROVE  /\ q[m].child \in 0..M /\ q[m].next \in 0..M /\ q[m].parent \in 0..M
              /\ q[m].child # NoParam => rk[q[m].child] < rk[m]
              /\ q[m].next # NoParam => rk[q[m].next] < rk[m]
  <2>1. q[m].child \in 0..M /\ q[m].parent \in 0..M
        /\ (q[m].child # NoParam => rk[q[m].child] < rk[m])
    BY <1>6, <1>9, <1>13
  <2>2. CASE q[m].next = ps[m].next
    BY <1>6, <1>13, <2>1, <2>2
  <2>3. CASE ps[m].next = p /\ q[m].next = ps[p].next
    <3>1. p \in D /\ p # NoParam
      BY <1>2, <1>4, PointersAre
    <3>2. rk[p] < rk[m]
      BY <1>13, <2>3, <3>1
    <3>3. ps[p].next # NoParam => rk[ps[p].next] < rk[p] /\ ps[p].next \in D
      BY <1>6, <1>13, <3>1
    <3>4. ps[p].next # NoParam => rk[ps[p].next] < rk[m]
      BY <1>12, <3>1, <3>2, <3>3
    <3> QED BY <1>6, <2>1, <2>3, <3>1, <3>4
  <2> QED BY <1>9, <2>2, <2>3
<1>15. PointersIn(q)
  BY <1>7, <1>10, <1>11, <1>14 DEF PointersIn
<1>16. Falls(q, K, rk)
  BY <1>11, <1>12, <1>14 DEF Falls
<1> QED BY <1>1, <1>5, <1>10, <1>15, <1>16 DEF Walkable

\* cwmp_model_delete_parameter leaves a tree whose walks end.
LEMMA DeletedIs ==
  ASSUME NEW ps, Walkable(ps), NEW p \in NodesOf(ps)
  PROVE  Walkable(Deleted(ps, p)) /\ Len(Deleted(ps, p)) = Len(ps)
<1> DEFINE gone == Below(ps, p)
           L == Len(gone)
           Body(f) == [k \in 0..L |-> IF k = 0 THEN ps ELSE Unlinked(f[k - 1], gone[k])]
           F == CHOOSE f : f = Body(f)
<1>1. Deleted(ps, p) = F[L]
  BY DEF Deleted
<1>2. PICK D : D = NodesOf(ps)
  OBVIOUS
<1>3. L \in Nat /\ \A k \in 1..L : gone[k] \in D
  <2>1. gone \in Seq(D)
    BY <1>2, BelowAre
  <2> HIDE DEF gone
  <2> QED BY <2>1
<1> HIDE DEF gone, L
<1> DEFINE S == {q \in Seq(ParamRecord) : Walkable(q) /\ Len(q) = Len(ps)}
           step == [k \in 1..L |-> [q \in S |-> Unlinked(q, gone[k])]]
<1>4. ps \in S
  BY DEF Walkable, PointersIn
<1>5. \A q \in S : \A k \in 1..L : Unlinked(q, gone[k]) \in S
  <2> TAKE q \in S
  <2> TAKE k \in 1..L
  <2>1. PICK r : r = Unlinked(q, gone[k])
    OBVIOUS
  <2>2. gone[k] \in NodesOf(q)
    BY <1>2, <1>3 DEF NodesOf
  <2>3. Walkable(r) /\ Len(r) = Len(q)
    BY <2>1, <2>2, UnlinkedIs
  <2>4. r \in Seq(ParamRecord)
    BY <2>3 DEF Walkable, PointersIn
  <2> QED BY <2>1, <2>3, <2>4
<1> HIDE DEF S
<1>6. step \in [1..L -> [S -> S]] /\ \A k \in 1..L : \A q \in S : step[k][q] = Unlinked(q, gone[k])
  BY <1>5
<1> HIDE DEF step
<1>7. PICK h : Recursed(h, L, S, ps, step)
  BY <1>3, <1>4, <1>6, Recursion
<1>8. h \in [0..L -> S] /\ h[0] = ps /\ \A k \in 1..L : h[k] = step[k][h[k - 1]]
  BY <1>7 DEF Recursed
<1>9. \A k \in 1..L : k - 1 \in 0..L /\ k \in 0..L /\ k # 0
  BY <1>3
<1>10. \A k \in 1..L : h[k] = Unlinked(h[k - 1], gone[k])
  BY <1>6, <1>8, <1>9
<1>11. \A k \in 0..L : h[k] = IF k = 0 THEN ps ELSE Unlinked(h[k - 1], gone[k])
  <2>1. \A k \in 0..L : k = 0 \/ k \in 1..L
    BY <1>3
  <2> QED BY <1>8, <1>9, <1>10, <2>1
<1>12. h = Body(h)
  <2>1. h = [k \in 0..L |-> h[k]]
    BY <1>8
  <2> QED BY <1>11, <2>1
<1>13. F = Body(F)
  <2> HIDE DEF Body
  <2> QED BY <1>12
<1> HIDE DEF F
<1>14. F[0] = ps /\ \A k \in 1..L : F[k] = Unlinked(F[k - 1], gone[k])
  <2>1. \A k \in 0..L : F[k] = IF k = 0 THEN ps ELSE Unlinked(F[k - 1], gone[k])
    BY <1>13
  <2>2. 0 \in 0..L
    BY <1>3
  <2> QED BY <1>9, <2>1, <2>2
<1> DEFINE Good == {k \in 0..L : F[k] \in S}
<1>15. 0 \in Good
  BY <1>3, <1>4, <1>14
<1>16. \A k \in 1..L : k - 1 \in Good => k \in Good
  BY <1>5, <1>9, <1>14
<1>17. L \in Good
  <2> HIDE DEF Good
  <2>1. \A k \in 0..L : k \in Good
    BY <1>3, <1>15, <1>16, UpTo
  <2>2. L \in 0..L
    BY <1>3
  <2> QED BY <2>1, <2>2
<1>18. F[L] \in S
  BY <1>17
<1> QED BY <1>1, <1>18 DEF S

LEMMA PartsAre ==
  ASSUME NEW S, NEW path \in Seq(S)
  PROVE  Parts(path) \in Seq(S)
<1>1. CASE path # <<>> /\ Last(path) = EmptyPart
  <2>1. PICK l \in Nat \ {0} : l = Len(path)
    BY <1>1, EmptySeq
  <2>2. 1 \in 1..(Len(path) + 1) /\ l - 1 \in (1 - 1)..Len(path)
    BY <2>1
  <2>3. SubSeq(path, 1, l - 1) \in Seq(S)
    BY <2>2, PartIs
  <2>4. Parts(path) = SubSeq(path, 1, l - 1)
    BY <1>1, <2>1 DEF Parts, Front
  <2> QED BY <2>3, <2>4
<1>2. CASE ~(path # <<>> /\ Last(path) = EmptyPart)
  BY <1>2 DEF Parts
<1> QED BY <1>1, <1>2

\* cwmp_get_parameter_path_node comes to an end, at a node or at none.
LEMMA SearchEnds ==
  ASSUME NEW ps, Walkable(ps), Len(ps) >= 1, NEW X, NEW path \in Seq(X)
  PROVE  cwmp_get_parameter_path_node(ps, path) \in 0..Len(ps)
<1> DEFINE M == Len(ps)
           parts == Parts(path)
           Q == Len(parts)
           row(n) == Siblings(ps, n)
           hits(k, n) == {i \in DOMAIN row(n) : /\ ps[row(n)[i]].name # Template
                                                /\ ps[row(n)[i]].name \in {Nameless, <<parts[k]>>}}
           hit(k, n) == row(n)[CHOOSE i \in hits(k, n) : \A j \in hits(k, n) : i <= j]
           V(f, k, n) == IF hits(k, n) # {}
                         THEN IF k = Q \/ ps[hit(k, n)].child = NoParam THEN hit(k, n)
                              ELSE f[k + 1][ps[hit(k, n)].child]
                         ELSE IF row(n) = <<>> \/ ps[Last(row(n))].name = Template \/ k < Q
                              THEN NoParam ELSE ps[Last(row(n))].parent
           W(f, k) == [n \in 0..M |-> V(f, k, n)]
           Body(f) == [k \in 1..Q |-> W(f, k)]
           F == CHOOSE f : f = Body(f)
<1>1. cwmp_get_parameter_path_node(ps, path) = IF parts = <<>> THEN Root(ps) ELSE F[1][Root(ps)]
  BY DEF cwmp_get_parameter_path_node
<1>2. PointersIn(ps)
  BY DEF Walkable
<1>3. PICK D : D = NodesOf(ps)
  OBVIOUS
<1>4. M \in Nat /\ D = 1..M /\ 1 \in D /\ (\A n \in D : n \in 0..M)
  BY <1>2, <1>3, PointersAre DEF NodesOf
<1>5. Q \in Nat /\ (parts # <<>> => Q # 0)
  <2>1. parts \in Seq(X)
    BY PartsAre
  <2> HIDE DEF parts
  <2> QED BY <2>1, EmptySeq
<1>6. \A n \in D : ps[n].child \in 0..M /\ ps[n].parent \in 0..M
  BY <1>2, <1>3, PointersAre
<1>7. \A n \in 0..M : row(n) \in Seq(D)
  BY <1>3, SiblingsAre
<1>8. Root(ps) \in 0..M
  BY <1>4, <1>6 DEF Root, RootParam
<1> HIDE DEF M, parts, Q, row
<1>9. ASSUME NEW k, NEW n \in 0..M, hits(k, n) # {}
      PROVE  hit(k, n) \in D
  <2>1. PICK q \in Seq(D) : q = row(n)
    BY <1>7
  <2>2. hits(k, n) \subseteq DOMAIN q /\ DOMAIN q \subseteq Nat
    BY <2>1
  <2>3. PICK H : H = hits(k, n)
    OBVIOUS
  <2>4. \E i \in H : \A j \in H : i <= j
    BY <1>9, <2>2, <2>3, LeastNatural
  <2>5. PICK i \in H : i = (CHOOSE x \in H : \A j \in H : x <= j)
    BY <2>4
  <2>6. hit(k, n) = q[i] /\ i \in DOMAIN q
    BY <2>1, <2>2, <2>3, <2>5
  <2>7. q[i] \in D
    BY <2>6
  <2> QED BY <2>6, <2>7
<1>10. ASSUME NEW n \in 0..M, row(n) # <<>>
       PROVE  Last(row(n)) \in D
  BY <1>7, <1>10, CutIs
<1> HIDE DEF hits, hit
<1>11. ASSUME NEW f, NEW k \in 1..Q, k # Q => f[k + 1] \in [0..M -> 0..M]
       PROVE  W(f, k) \in [0..M -> 0..M]
  <2>1. ASSUME NEW n \in 0..M
        PROVE  V(f, k, n) \in 0..M
    <3>1. CASE hits(k, n) # {}
      <4>1. hit(k, n) \in D
        BY <1>9, <3>1
      <4>2. hit(k, n) \in 0..M /\ ps[hit(k, n)].child \in 0..M
        BY <1>4, <1>6, <4>1
      <4>3. k # Q => f[k + 1][ps[hit(k, n)].child] \in 0..M
        BY <1>11, <4>2
      <4> QED BY <3>1, <4>2, <4>3, Zenon
    <3>2. CASE ~(hits(k, n) # {})
      <4>1. NoParam \in 0..M
        BY <1>4 DEF NoParam
      <4>2. row(n) # <<>> => ps[Last(row(n))].parent \in 0..M
        BY <1>6, <1>10
      <4> QED BY <3>2, <4>1, <4>2, Zenon
    <3> QED BY <3>1, <3>2
  <2> HIDE DEF V
  <2> QED BY <2>1
<1>12. \A k \in 1..Q : k # Q => k + 1 \in 1..Q
  BY <1>5
<1> DEFINE T == [0..M -> 0..M]
           rk == [k \in 1..Q |-> Q - k]
           step == [f \in [1..Q -> T] |-> Body(f)]
<1>13. /\ rk \in [1..Q -> 0..Q]
       /\ \A k \in 1..Q : k # Q => rk[k + 1] < rk[k]
  <2>1. \A k \in 1..Q : Q - k \in 0..Q
    BY <1>5
  <2>2. \A k \in 1..Q : k # Q => Q - (k + 1) < Q - k
    BY <1>5
  <2> QED BY <1>12, <2>1, <2>2
<1> HIDE DEF rk
<1>14. PICK z \in T : TRUE
  <2>1. [n \in 0..M |-> 0] \in T
    BY <1>4
  <2> QED BY <2>1
<1>15. RankedBy(1..Q, Q, rk, T, z, step)
  <2>1. ASSUME NEW f \in [1..Q -> T], NEW k \in 1..Q
        PROVE  W(f, k) \in T
    <3>1. k # Q => f[k + 1] \in T
      <4> HIDE DEF T
      <4> QED BY <1>12
    <3> HIDE DEF W
    <3> QED BY <1>11, <3>1
  <2>2. \A f \in [1..Q -> T] : Body(f) \in [1..Q -> T]
    <3> HIDE DEF W, T
    <3> QED BY <2>1
  <2>3. step \in [[1..Q -> T] -> [1..Q -> T]]
    <3> HIDE DEF Body, T
    <3> QED BY <2>2
  <2>4. ASSUME NEW f \in [1..Q -> T], NEW g \in [1..Q -> T], NEW k \in 1..Q,
               \A m \in 1..Q : rk[m] < rk[k] => f[m] = g[m]
        PROVE  step[f][k] = step[g][k]
    <3>1. step[f][k] = W(f, k) /\ step[g][k] = W(g, k)
      <4> HIDE DEF W, T
      <4> QED OBVIOUS
    <3>2. k # Q => f[k + 1] = g[k + 1]
      BY <1>12, <1>13, <2>4
    <3>3. \A n \in 0..M : V(f, k, n) = V(g, k, n)
      BY <3>2, Zenon
    <3>4. W(f, k) = W(g, k)
      <4> HIDE DEF V
      <4> QED BY <3>3
    <3> QED BY <3>1, <3>4
  <2>5. Local(1..Q, T, rk, step)
    <3> HIDE DEF T, step
    <3> QED BY <2>4 DEF Local
  <2> HIDE DEF T, step
  <2> QED BY <1>5, <1>13, <1>14, <2>3, <2>5 DEF RankedBy
<1>16. PICK f \in [1..Q -> T] : \A k \in 1..Q : f[k] = step[f][k]
  <2> HIDE DEF T, step
  <2>1. PICK E : E = 1..Q
    OBVIOUS
  <2>2. RankedBy(E, Q, rk, T, z, step)
    BY <1>15, <2>1, Zenon
  <2>3. PICK R : R = rk
    OBVIOUS
  <2>4. PICK q : q = Q
    OBVIOUS
  <2>5. PICK st : st = step
    OBVIOUS
  <2>6. PICK TT : TT = T
    OBVIOUS
  <2>7. RankedBy(E, q, R, TT, z, st)
    BY <2>2, <2>3, <2>4, <2>5, <2>6
  <2>8. \E f \in [E -> TT] : \A k \in E : f[k] = st[f][k]
    BY <2>7, RankedRecursion
  <2>9. \E f \in [E -> T] : \A k \in E : f[k] = step[f][k]
    BY <2>5, <2>6, <2>8
  <2> QED BY <2>1, <2>9, Zenon
<1>17. f = Body(f)
  <2>1. \A k \in 1..Q : step[f][k] = W(f, k)
    <3> HIDE DEF W, T
    <3> QED OBVIOUS
  <2>2. \A k \in 1..Q : f[k] = W(f, k)
    <3> HIDE DEF T, W, step
    <3> QED BY <1>16, <2>1
  <2> HIDE DEF T, W
  <2> QED BY <2>2
<1>18. F = Body(F)
  <2> HIDE DEF Body
  <2> QED BY <1>17
<1> HIDE DEF F
<1>19. \A k \in 1..Q : F[k] = W(F, k)
  <2> HIDE DEF W
  <2> QED BY <1>18
<1>20. \A k \in 1..Q : F[k] \in T
  <2> DEFINE Good == {k \in 1..Q : F[k] \in T}
  <2>1. ASSUME NEW k \in 1..Q, \A m \in 1..Q : rk[m] < rk[k] => m \in Good
        PROVE  k \in Good
    <3>1. k # Q => F[k + 1] \in T
      BY <1>12, <1>13, <2>1
    <3>2. W(F, k) \in T
      <4> HIDE DEF W
      <4> QED BY <1>11, <3>1
    <3> HIDE DEF W, T
    <3> QED BY <1>19, <3>2
  <2>2. \A k \in 1..Q : k \in Good
    <3> HIDE DEF Good
    <3>1. Inherited(1..Q, Q, rk, Good)
      BY <1>5, <1>13, <2>1 DEF Inherited
    <3> QED BY <3>1, RankInduction
  <2> QED BY <2>2
<1>21. parts # <<>> => F[1][Root(ps)] \in 0..M
  <2>1. parts # <<>> => 1 \in 1..Q
    BY <1>5
  <2> QED BY <1>8, <1>20, <2>1
<1> QED BY <1>1, <1>8, <1>21 DEF M

----------------------------------------------------------------------------
(* The tree as it is loaded and edited.                                    *)

LEMMA OneLong ==
  ASSUME NEW S, NEW x \in S
  PROVE  <<x>> \in Seq(S)
OBVIOUS

\* cwmp_model_load_xml makes a tree whose walks end: they go on in the document.
LEMMA LoadedIs ==
  ASSUME NEW doc \in ParamDocs, NEW ps, ps = [i \in DOMAIN doc |-> Loaded(doc, i)]
  PROVE  Walkable(ps) /\ Len(ps) \in 1..MaxParams
<1>1. PICK R : R = [name : Seq(STRING), up : Nat, rw : {0, 1}, obj : BOOLEAN]
  OBVIOUS
<1>2. doc \in Seq(R) /\ Len(doc) \in 1..MaxParams /\ MaxParams \in Nat
      /\ \A i \in DOMAIN doc : doc[i].up < i
  BY <1>1, TreeAssumption
<1>3. PICK N : N = Len(doc)
  OBVIOUS
<1>4. N \in 1..MaxParams /\ DOMAIN doc = 1..N /\ \A i \in 1..N : doc[i] \in R
  BY <1>2, <1>3
<1>5. \A i \in 1..N : /\ doc[i].up \in 0..N /\ doc[i].up < i
                      /\ doc[i].name \in Seq(STRING) /\ doc[i].rw \in {0, 1}
  <2> TAKE i \in 1..N
  <2>1. doc[i].up < i
    BY <1>2, <1>4
  <2>2. doc[i].up \in Nat /\ doc[i].name \in Seq(STRING) /\ doc[i].rw \in {0, 1}
    BY <1>1, <1>4
  <2>3. doc[i].up \in 0..N
    BY <1>2, <1>4, <2>1, <2>2
  <2> QED BY <2>1, <2>2, <2>3
<1> DEFINE least(S) == IF S = {} THEN NoParam ELSE CHOOSE j \in S : \A k \in S : j <= k
           kids(i) == {j \in DOMAIN doc : doc[j].up = i}
           peers(i) == {j \in DOMAIN doc : doc[j].up = doc[i].up}
           later(i) == {j \in peers(i) : j > i}
           node(i) == [name   |-> doc[i].name,
                       object |-> doc[i].name = Nameless \/ Last(doc[i].name) = EmptyPart \/ doc[i].obj,
                       rw     |-> doc[i].rw,
                       parent |-> IF i = least(peers(i)) THEN doc[i].up ELSE least(peers(i)),
                       child  |-> least(kids(i)),
                       next   |-> least(later(i))]
<1>6. \A i : Loaded(doc, i) = node(i)
  BY DEF Loaded
<1>7. ASSUME NEW S, S \subseteq 1..N
      PROVE  least(S) \in S \/ least(S) = NoParam
  <2>1. CASE S = {}
    BY <2>1
  <2>2. CASE S # {}
    <3>1. \E j \in S : \A k \in S : j <= k
      <4>1. S \subseteq Nat
        BY <1>4, <1>7
      <4> QED BY <2>2, <4>1, LeastNatural
    <3> QED BY <2>2, <3>1
  <2> QED BY <2>1, <2>2
<1> HIDE DEF least
<1>8. \A i \in 1..N : /\ least(kids(i)) = NoParam \/ (least(kids(i)) \in 1..N /\ least(kids(i)) > i)
                      /\ least(later(i)) = NoParam \/ (least(later(i)) \in 1..N /\ least(later(i)) > i)
                      /\ least(peers(i)) = NoParam \/ least(peers(i)) \in 1..N
  <2> TAKE i \in 1..N
  <2>1. kids(i) \subseteq 1..N /\ \A j \in kids(i) : j > i
    BY <1>4, <1>5
  <2>2. peers(i) \subseteq 1..N /\ later(i) \subseteq 1..N /\ \A j \in later(i) : j > i
    BY <1>4
  <2> HIDE DEF kids, later, peers
  <2> QED BY <1>7, <2>1, <2>2
<1>9. \A x : x = NoParam \/ x \in 1..N => x \in 0..N /\ x \in 0..MaxParams
  BY <1>2, <1>4 DEF NoParam
<1> HIDE DEF kids, later, peers
<1>10. ASSUME NEW i \in 1..N
       PROVE  /\ node(i) \in ParamRecord
              /\ node(i).child \in 0..N /\ node(i).next \in 0..N /\ node(i).parent \in 0..N
              /\ node(i).child # NoParam => node(i).child \in 1..N /\ node(i).child > i
              /\ node(i).next # NoParam => node(i).next \in 1..N /\ node(i).next > i
  <2>1. PICK c : c = least(kids(i))
    OBVIOUS
  <2>2. PICK x : x = least(later(i))
    OBVIOUS
  <2>3. PICK p : p = IF i = least(peers(i)) THEN doc[i].up ELSE least(peers(i))
    OBVIOUS
  <2>4. PICK o \in BOOLEAN : o = (doc[i].name = Nameless \/ Last(doc[i].name) = EmptyPart \/ doc[i].obj)
    OBVIOUS
  <2>5. node(i) = [name |-> doc[i].name, object |-> o, rw |-> doc[i].rw,
                   parent |-> p, child |-> c, next |-> x]
    BY <2>1, <2>2, <2>3, <2>4
  <2>6. c \in 0..N /\ x \in 0..N /\ p \in 0..N
        /\ c \in 0..MaxParams /\ x \in 0..MaxParams /\ p \in 0..MaxParams
    <3>1. \A y \in 0..N : y \in 0..MaxParams
      BY <1>2, <1>4
    <3> QED BY <1>5, <1>8, <1>9, <2>1, <2>2, <2>3, <3>1
  <2>7. /\ c # NoParam => c \in 1..N /\ c > i
        /\ x # NoParam => x \in 1..N /\ x > i
    BY <1>8, <2>1, <2>2
  <2>8. node(i) \in ParamRecord
    BY <1>5, <2>5, <2>6 DEF ParamRecord
  <2>9. node(i).child = c /\ node(i).next = x /\ node(i).parent = p
    BY <2>5
  <2> HIDE DEF node
  <2> QED BY <2>6, <2>7, <2>8, <2>9
<1> HIDE DEF node
<1>11. PICK Q : Q = ParamRecord
  OBVIOUS
<1>12. ps \in Seq(Q) /\ Len(ps) = N /\ \A i \in 1..N : ps[i] = node(i)
  <2>1. ps = [i \in 1..N |-> node(i)]
    BY <1>4, <1>6
  <2>2. \A i \in 1..N : node(i) \in Q
    BY <1>10, <1>11
  <2>3. N \in Nat
    BY <1>2, <1>4
  <2> QED BY <2>1, <2>2, <2>3
<1>13. NodesOf(ps) = 1..N
  BY <1>12 DEF NodesOf
<1>14. PointersIn(ps)
  BY <1>10, <1>11, <1>12, <1>13 DEF PointersIn
<1> DEFINE rk == [i \in 1..N |-> N - i]
<1>15. N \in Nat /\ rk \in [1..N -> 0..N] /\ \A i \in 1..N : rk[i] = N - i
  <2>1. N \in Nat
    BY <1>2, <1>4
  <2>2. \A i \in 1..N : N - i \in 0..N
    BY <2>1
  <2> QED BY <2>1, <2>2
<1> HIDE DEF rk
<1>16. \A i, j \in 1..N : j > i => rk[j] < rk[i]
  BY <1>15
<1>17. Falls(ps, N, rk)
  <2>1. \A i \in 1..N : /\ ps[i].child # NoParam => rk[ps[i].child] < rk[i]
                        /\ ps[i].next # NoParam => rk[ps[i].next] < rk[i]
    BY <1>10, <1>12, <1>16
  <2> QED BY <1>13, <1>15, <2>1, Zenon DEF Falls
<1> QED BY <1>4, <1>12, <1>14, <1>17 DEF Walkable

TreeInv == Walkable(params) /\ Len(params) \in 1..MaxParams

LEMMA TreeStarts == TreeInit => TreeInv
<1> SUFFICES ASSUME TreeInit PROVE TreeInv
  OBVIOUS
<1>1. PICK doc \in ParamDocs : LoadParams(doc)
  BY DEF TreeInit
<1>2. params = [i \in DOMAIN doc |-> Loaded(doc, i)]
  BY <1>1, Zenon DEF LoadParams
<1> QED BY <1>2, LoadedIs DEF TreeInv

\* The node that is found in the tree of now.
LEMMA NodeFound ==
  ASSUME TreeInv, NEW S, NEW path \in Seq(S), NEW n, n = cwmp_get_parameter_path_node(params, path)
  PROVE  n # NoParam => n \in NodesOf(params)
<1>1. PICK ps : ps = params
  OBVIOUS
<1>2. Walkable(ps) /\ Len(ps) >= 1 /\ Len(ps) \in Nat
  BY <1>1, TreeAssumption DEF TreeInv
<1>3. n \in 0..Len(ps)
  BY <1>1, <1>2, SearchEnds
<1> QED BY <1>1, <1>2, <1>3 DEF NodesOf, NoParam

LEMMA InstanceKeeps ==
  ASSUME TreeInv, NEW path \in Seq(STRING), NEW k \in Seq(STRING),
         cwmp_model_copy_parameter(path, k)
  PROVE  TreeInv'
<1>1. PICK n : n = cwmp_get_parameter_path_node(params, path)
  OBVIOUS
<1>2. /\ n # NoParam /\ params[n].child # NoParam
      /\ Len(params) + Len(Below(params, params[n].child)) <= MaxParams
      /\ params' = Copied(params, n, k)
  BY <1>1, Zenon DEF cwmp_model_copy_parameter
<1>3. n \in NodesOf(params)
  BY <1>1, <1>2, NodeFound
<1>4. PICK ps : ps = params
  OBVIOUS
<1>5. PICK q : q = params'
  OBVIOUS
<1>6. PICK b : b = Below(ps, ps[n].child)
  OBVIOUS
<1>7. Walkable(ps) /\ Len(ps) \in 1..MaxParams /\ MaxParams \in Nat
  BY <1>4, TreeAssumption DEF TreeInv
<1>8. Walkable(q) /\ Len(q) = Len(ps) + Len(b) /\ Len(ps) + Len(b) <= MaxParams
  BY <1>2, <1>3, <1>4, <1>5, <1>6, <1>7, InstanceIs
<1>9. Len(b) \in Nat
  <2>1. ps[n].child \in NodesOf(ps)
    BY <1>2, <1>3, <1>4, <1>7, PointersAre DEF Walkable
  <2>2. PICK D : D = NodesOf(ps)
    OBVIOUS
  <2>3. b \in Seq(D)
    BY <1>6, <1>7, <2>1, <2>2, BelowAre
  <2> QED BY <2>3
<1>10. Len(q) \in 1..MaxParams
  BY <1>7, <1>8, <1>9
<1> QED BY <1>5, <1>8, <1>10 DEF TreeInv

LEMMA DeleteKeeps ==
  ASSUME TreeInv, NEW path \in Seq(STRING), cwmp_model_delete_parameter(path)
  PROVE  TreeInv'
<1>1. PICK p : p = cwmp_get_parameter_path_node(params, path)
  OBVIOUS
<1>2. p # NoParam /\ params' = Deleted(params, p)
  BY <1>1, Zenon DEF cwmp_model_delete_parameter
<1>3. p \in NodesOf(params)
  BY <1>1, <1>2, NodeFound
<1>4. PICK ps : ps = params
  OBVIOUS
<1>5. PICK q : q = params'
  OBVIOUS
<1>6. Walkable(ps) /\ Len(ps) \in 1..MaxParams
  BY <1>4, SMTT(60) DEF TreeInv
<1>7. Walkable(q) /\ Len(q) = Len(ps)
  BY <1>2, <1>3, <1>4, <1>5, <1>6, DeletedIs
<1> QED BY <1>5, <1>6, <1>7 DEF TreeInv

LEMMA TreeSteps == TreeInv /\ (TreeNext \/ UNCHANGED treeVars) => TreeInv'
<1> SUFFICES ASSUME TreeInv, TreeNext \/ UNCHANGED treeVars PROVE TreeInv'
  OBVIOUS
<1>1. CASE UNCHANGED treeVars
  <2>1. params' = params
    BY <1>1 DEF treeVars
  <2> QED BY <2>1, Zenon DEF TreeInv
<1>2. CASE TreeNext
  <2>1. PICK path \in SearchPaths : \/ \E k \in Numbers : cwmp_model_copy_parameter(path, k)
                                    \/ cwmp_model_delete_parameter(path)
    BY <1>2, Zenon DEF TreeNext
  <2>2. path \in Seq(STRING)
    BY TreeAssumption
  <2>3. CASE \E k \in Numbers : cwmp_model_copy_parameter(path, k)
    <3>1. PICK k \in Numbers : cwmp_model_copy_parameter(path, k)
      BY <2>3
    <3>2. PICK x \in InstanceNames : k = <<x>>
      BY <3>1 DEF Numbers
    <3>3. x \in STRING
      BY TreeAssumption
    <3>4. k \in Seq(STRING)
      BY <3>2, <3>3, OneLong
    <3> QED BY <2>2, <3>1, <3>4, InstanceKeeps
  <2>4. CASE cwmp_model_delete_parameter(path)
    BY <2>2, <2>4, DeleteKeeps
  <2> QED BY <2>1, <2>3, <2>4
<1> QED BY <1>1, <1>2

----------------------------------------------------------------------------
(* What SetParameterValues tells.                                          *)

\* What SetsTold says of one step.
SetsToldNow ==
  served' # served /\ asked'.method = "SetParameterValues" =>
        /\ asked'.names # NoList /\ Found(asked') => AsSent(asked')
        /\ \A n \in Params : paramText'[n] # paramText[n] =>
             ~params[n].object /\ paramText'[n] \in ToSet(asked'.texts)
        /\ answer'.kind = "Fault" /\ asked'.names # NoList /\ Len(asked'.names) < RenewSize =>
             \E j \in 2..Len(answer'.list) : answer'.list[j][2] = 9008
        /\ answer'.kind = "SetParameterValuesResponse" =>
             /\ answer'.list = <<0>>
             /\ \A i \in DOMAIN asked'.way : asked'.way[i] = NoParam \/ HasHandler(asked'.way[i])

\* The codes after k entries: no more than entries, each of them 0 or 9008, and
\* 9008 among them if a node without a function was met.
CodeLists(Q, pick, k) ==
  {c \in Seq(Q \X {0, 9008}) :
     /\ Len(c) <= k
     /\ (\E i \in 1..k : pick[i] # NoParam /\ ~HasHandler(pick[i])) =>
          \E j \in 1..Len(c) : c[j][2] = 9008}

LEMMA CodesAre ==
  ASSUME NEW Q, NEW P, NEW items \in Seq(Q \X P), NEW pick
  PROVE  SetCodes(items, pick) \in CodeLists(Q, pick, Len(items))
<1> DEFINE N == Len(items)
           S == Seq(Q \X {0, 9008})
           Next1(k, c) == IF pick[k] = NoParam THEN c
                          ELSE Append(c, <<items[k][1], IF HasHandler(pick[k]) THEN 0 ELSE 9008>>)
           step == [k \in 1..N |-> [c \in S |-> Next1(k, c)]]
           Eq(f) == f = [k \in 0..N |-> IF k = 0 THEN <<>> ELSE Next1(k, f[k - 1])]
           F == CHOOSE f : Eq(f)
<1>1. N \in Nat /\ N \in 0..N /\ 0 \in 0..N
  OBVIOUS
<1>2. ASSUME NEW k \in 1..N, NEW c \in S
      PROVE  /\ Next1(k, c) \in S /\ Len(Next1(k, c)) <= Len(c) + 1
             /\ (\E j \in 1..Len(c) : c[j][2] = 9008)
                   \/ (pick[k] # NoParam /\ ~HasHandler(pick[k])) =>
                  \E j \in 1..Len(Next1(k, c)) : Next1(k, c)[j][2] = 9008
  <2>1. CASE pick[k] = NoParam
    BY <2>1
  <2>2. CASE pick[k] # NoParam
    <3>1. PICK x \in 0..9008 : x = IF HasHandler(pick[k]) THEN 0 ELSE 9008
      OBVIOUS
    <3>2. x \in {0, 9008}
      BY <3>1
    <3>3. items[k][1] \in Q
      OBVIOUS
    <3> DEFINE D == {0, 9008}
               e == <<items[k][1], x>>
    <3>5. Next1(k, c) = Append(c, e)
      BY <2>2, <3>1
    <3>7. S = Seq(Q \X D) /\ x \in D
      BY <3>2
    <3> HIDE DEF D, S, Next1
    <3>8. e \in Q \X D
      BY <3>3, <3>7
    <3>10. e[2] = x
      OBVIOUS
    <3> HIDE DEF e
    <3>9. c \in Seq(Q \X D)
      BY <3>7
    <3>6. /\ Append(c, e) \in S /\ Len(Append(c, e)) = Len(c) + 1 /\ Len(c) \in Nat
          /\ \A j \in 1..Len(c) : Append(c, e)[j] = c[j]
          /\ Append(c, e)[Len(c) + 1] = e
      BY <3>7, <3>8, <3>9, AppendProperties
    <3>11. CASE \E j \in 1..Len(c) : c[j][2] = 9008
      <4>1. PICK j \in 1..Len(c) : c[j][2] = 9008
        BY <3>11
      <4>2. j \in 1..(Len(c) + 1) /\ Append(c, e)[j][2] = 9008
        BY <3>6, <4>1
      <4> QED BY <3>5, <3>6, <4>2
    <3>12. CASE ~HasHandler(pick[k])
      <4>1. e[2] = 9008
        BY <3>1, <3>10, <3>12
      <4>2. Len(c) + 1 \in 1..(Len(c) + 1)
        BY <3>6
      <4> QED BY <3>5, <3>6, <4>1, <4>2
    <3>13. CASE HasHandler(pick[k]) /\ ~(\E j \in 1..Len(c) : c[j][2] = 9008)
      BY <3>5, <3>6, <3>13
    <3> QED BY <3>11, <3>12, <3>13
  <2> QED BY <2>1, <2>2
<1>10. SetCodes(items, pick) = F[N]
  BY DEF SetCodes
<1>3. <<>> \in S /\ Len(<<>>) = 0
  OBVIOUS
<1>9. \A c \in S : Len(c) \in Nat
  OBVIOUS
<1> HIDE DEF N, S, Next1
<1>4. step \in [1..N -> [S -> S]]
  BY <1>2
<1>5. \A k \in 1..N : \A c \in S : step[k][c] = Next1(k, c)
  BY <1>2
<1> HIDE DEF step
<1>6. PICK f : Recursed(f, N, S, <<>>, step)
  BY <1>1, <1>3, <1>4, Recursion
<1>7. f \in [0..N -> S] /\ f[0] = <<>> /\ \A i \in 1..N : f[i] = Next1(i, f[i - 1])
  <2>1. f \in [0..N -> S] /\ f[0] = <<>> /\ \A i \in 1..N : f[i] = step[i][f[i - 1]]
    BY <1>6 DEF Recursed
  <2>2. \A i \in 1..N : i - 1 \in 0..N
    BY <1>1
  <2> QED BY <1>5, <2>1, <2>2
<1>8. Eq(f)
  <2>1. \A k \in 0..N : k = 0 \/ k \in 1..N
    BY <1>1
  <2> QED BY <1>7, <2>1
<1>11. Eq(F)
  <2> HIDE DEF Eq
  <2> QED BY <1>8
<1> HIDE DEF F
<1>12. F[0] = <<>> /\ \A i \in 1..N : F[i] = Next1(i, F[i - 1])
  <2>1. \A k \in 0..N : F[k] = IF k = 0 THEN <<>> ELSE Next1(k, F[k - 1])
    BY <1>11
  <2>2. \A k \in 1..N : k # 0 /\ k \in 0..N
    BY <1>1
  <2> QED BY <1>1, <2>1, <2>2
<1> DEFINE Bad(i) == pick[i] # NoParam /\ ~HasHandler(pick[i])
           Lists(c) == \E j \in 1..Len(c) : c[j][2] = 9008
<1>17. ASSUME NEW k \in 1..N, NEW c \in S
       PROVE  /\ Next1(k, c) \in S /\ Len(Next1(k, c)) <= Len(c) + 1
              /\ Lists(c) \/ Bad(k) => Lists(Next1(k, c))
  BY <1>2
<1> HIDE DEF Bad, Lists
<1> DEFINE Good == {i \in 0..N : /\ F[i] \in S /\ Len(F[i]) <= i
                                 /\ (\E m \in 1..i : Bad(m)) => Lists(F[i])}
<1>13. 0 \in Good
  BY <1>1, <1>3, <1>12
<1>14. ASSUME NEW i \in 1..N, i - 1 \in Good
       PROVE  i \in Good
  <2>1. PICK c \in S : c = F[i - 1] /\ Len(c) <= i - 1
                        /\ ((\E m \in 1..(i - 1) : Bad(m)) => Lists(c))
    BY <1>14
  <2>2. PICK d : d = Next1(i, c)
    OBVIOUS
  <2>3. d \in S /\ Len(d) <= Len(c) + 1 /\ (Lists(c) \/ Bad(i) => Lists(d))
    BY <1>17, <2>2
  <2>4. F[i] = d
    BY <1>12, <2>1, <2>2
  <2>5. Len(c) \in Nat /\ Len(d) \in Nat
    BY <1>9, <2>3
  <2>6. Len(d) <= i
    BY <2>1, <2>3, <2>5
  <2>7. i \in 0..N
    BY <1>1
  <2>8. ASSUME NEW m \in 1..i, Bad(m)
        PROVE  Lists(d)
    <3>1. m = i \/ m \in 1..(i - 1)
      BY <1>1
    <3> QED BY <2>1, <2>3, <2>8, <3>1
  <2> QED BY <2>3, <2>4, <2>6, <2>7, <2>8
<1>15. \A i \in 0..N : i \in Good
  <2> HIDE DEF Good
  <2> QED BY <1>1, <1>13, <1>14, UpTo
<1>16. F[N] \in S /\ Len(F[N]) <= N /\ ((\E m \in 1..N : Bad(m)) => Lists(F[N]))
  BY <1>1, <1>15
<1> QED BY <1>10, <1>16 DEF CodeLists, N, S, Bad, Lists

\* What Checked leaves as it is.
LEMMA CheckedIs ==
  ASSUME NEW a, a.kind # "nothing"
  PROVE  Checked(a) = a
BY DEF Checked

\* A fault: its list names an entry without a set function, as long as the
\* list could be read to its end. Status 0: there was no such entry.
Tells(a, pick, n) ==
  /\ a.kind # "nothing"
  /\ a.kind = "Fault" /\ n < RenewSize => \E j \in 2..Len(a.list) : a.list[j][2] = 9008
  /\ a.kind = "SetParameterValuesResponse" =>
       /\ a.list = <<0>>
       /\ \A i \in 1..n : pick[i] = NoParam \/ HasHandler(pick[i])

LEMMA SetAnswerTells ==
  ASSUME NEW header, NEW Q, NEW P, NEW items \in Seq(Q \X P), NEW pick
  PROVE  Tells(SetAnswer(header, items, pick), pick, Len(items))
<1>0. PICK a : a = SetAnswer(header, items, pick)
  OBVIOUS
<1> DEFINE named == \E j \in 2..Len(a.list) : a.list[j][2] = 9008
           clean == a.list = <<0>> /\ \A i \in 1..Len(items) : pick[i] = NoParam \/ HasHandler(pick[i])
<1> SUFFICES /\ a.kind # "nothing"
             /\ a.kind = "Fault" /\ Len(items) < RenewSize => named
             /\ a.kind = "SetParameterValuesResponse" => clean
  BY <1>0 DEF Tells
<1>1. PICK codes : codes = SetCodes(items, pick)
  OBVIOUS
<1>2. /\ codes \in Seq(Q \X {0, 9008}) /\ Len(codes) <= Len(items)
      /\ (\E i \in 1..Len(items) : pick[i] # NoParam /\ ~HasHandler(pick[i])) =>
           \E j \in 1..Len(codes) : codes[j][2] = 9008
  <2>1. codes \in CodeLists(Q, pick, Len(items))
    BY <1>1, CodesAre, Zenon
  <2> QED BY <2>1 DEF CodeLists
<1>3. CASE ~(\E j \in DOMAIN codes : codes[j][2] # 0)
  <2>1. a = StatusAnswer(header, 0)
    BY <1>0, <1>1, <1>3 DEF SetAnswer
  <2>2. a = [kind |-> "SetParameterValuesResponse", id |-> header, list |-> <<0>>]
    BY <2>1 DEF StatusAnswer, Answer, IdOf
  <2>3. ~(\E j \in 1..Len(codes) : codes[j][2] = 9008)
    <3>1. DOMAIN codes = 1..Len(codes)
      BY <1>2
    <3> QED BY <1>3, <3>1
  <2>4. \A i \in 1..Len(items) : pick[i] = NoParam \/ HasHandler(pick[i])
    <3>1. ASSUME NEW i \in 1..Len(items), ~(pick[i] = NoParam \/ HasHandler(pick[i]))
          PROVE  FALSE
      <4>1. pick[i] # NoParam /\ ~HasHandler(pick[i])
        BY <3>1
      <4> QED BY <1>2, <2>3, <4>1
    <3> QED BY <3>1
  <2>5. a.kind = "SetParameterValuesResponse" /\ a.list = <<0>>
    BY <2>2
  <2>6. clean
    BY <2>4, <2>5
  <2> HIDE DEF clean, named
  <2> QED BY <2>5, <2>6
<1>4. CASE \E j \in DOMAIN codes : codes[j][2] # 0
  <2> DEFINE first == <<NoPath, 9003>>
             T == {first} \cup (Q \X {0, 9008})
  <2>1. PICK rest : rest = SubSeq(codes, 1, Readable(Len(codes)))
    OBVIOUS
  <2>2. a = [kind |-> "Fault", id |-> header, list |-> <<first>> \o rest]
    BY <1>0, <1>1, <1>4, <2>1 DEF SetAnswer, Answer, IdOf
  <2>5. codes \in Seq(T)
    BY <1>2
  <2> HIDE DEF first
  <2>6. first \in T
    OBVIOUS
  <2> HIDE DEF T
  <2>3. a.kind = "Fault" /\ a.list = <<first>> \o rest
    BY <2>2
  <2>4. ASSUME Len(items) < RenewSize
        PROVE  named
    <3>1. Len(codes) \in Nat /\ Len(items) \in Nat /\ RenewSize \in Nat
      BY <1>2, RpcAssumption
    <3>2. Readable(Len(codes)) = Len(codes)
      BY <1>2, <2>4, <3>1 DEF Readable
    <3>3. rest = codes
      BY <1>2, <2>1, <3>2, SubSeqFull
    <3>4. PICK j \in 1..Len(codes) : codes[j][2] # 0
      BY <1>2, <1>4
    <3>5. codes[j][2] = 9008
      <4>1. codes[j] \in Q \X {0, 9008}
        BY <1>2
      <4> QED BY <3>4, <4>1
    <3>7. <<first>> \in Seq(T) /\ Len(<<first>>) = 1
      BY <2>6
    <3>8. codes \in Seq(T)
      BY <2>5
    <3>9. PICK all : all = <<first>> \o codes
      OBVIOUS
    <3>10. Len(all) = 1 + Len(codes) /\ all[1 + j] = codes[j]
      <4>1. \A k \in 1..Len(codes) : (<<first>> \o codes)[Len(<<first>>) + k] = codes[k]
        BY <3>7, <3>8, ConcatIs
      <4>2. Len(<<first>> \o codes) = Len(<<first>>) + Len(codes)
        BY <3>7, <3>8, ConcatIs
      <4> QED BY <3>7, <3>9, <4>1, <4>2
    <3>11. a.list = all
      BY <2>3, <3>3, <3>9
    <3>12. 1 + j \in 2..Len(all)
      BY <3>1, <3>10
    <3>13. all[1 + j][2] = 9008
      BY <3>5, <3>10
    <3> QED BY <3>11, <3>12, <3>13
  <2>7. a.kind # "nothing" /\ a.kind # "SetParameterValuesResponse"
    BY <2>3
  <2> HIDE DEF clean, named
  <2> QED BY <2>4, <2>7
<1> HIDE DEF clean, named
<1> QED BY <1>3, <1>4, Zenon

\* A text that changed is one of the request, sent for that node, and its node a
\* parameter.
OfRequest(items, pick, t, n) ==
  \E i \in 1..Len(items) : pick[i] = n /\ HasHandler(n) /\ t = items[i][2]

\* The last text sent for a node is in it.
LastSent(items, pick, n, k) ==
  /\ k \in 1..Len(items) /\ pick[k] = n /\ HasHandler(n)
  /\ \A l \in 1..Len(items) : l > k => pick[l] # n

\* What is in a node after the list.
SetsDone(items, pick, n) ==
  /\ AfterSets(items, pick)[n] # paramText[n] =>
       OfRequest(items, pick, AfterSets(items, pick)[n], n)
  /\ \A k : LastSent(items, pick, n, k) => AfterSets(items, pick)[n] = items[k][2]

LEMMA AfterSetsTell ==
  ASSUME NEW Q, NEW P, NEW items \in Seq(Q \X P), NEW pick, NEW n \in Params
  PROVE  SetsDone(items, pick, n)
<1> DEFINE to == {i \in DOMAIN items : pick[i] = n /\ HasHandler(n)}
<1>1. AfterSets(items, pick)[n] = IF to = {} THEN paramText[n]
        ELSE items[CHOOSE i \in to : \A j \in to : j <= i][2]
  BY DEF AfterSets
<1>2. DOMAIN items = 1..Len(items) /\ Len(items) \in Nat
  OBVIOUS
<1>3. to \subseteq 1..Len(items) /\ \A i \in to : pick[i] = n /\ HasHandler(n)
  BY <1>2
<1>7. \A i \in 1..Len(items) : pick[i] = n /\ HasHandler(n) => i \in to
  BY <1>2
<1> HIDE DEF to
<1>4. to # {} => \E i \in to : \A j \in to : j <= i
  BY <1>2, <1>3, GreatestUpTo
<1>5. PICK i : i = CHOOSE k \in to : \A j \in to : j <= k
  OBVIOUS
<1>6. to # {} => i \in to /\ \A j \in to : j <= i
  BY <1>4, <1>5
<1>8. to # {} => AfterSets(items, pick)[n] = items[i][2]
  BY <1>1, <1>5
<1>9. AfterSets(items, pick)[n] # paramText[n] =>
        OfRequest(items, pick, AfterSets(items, pick)[n], n)
  <2> SUFFICES ASSUME AfterSets(items, pick)[n] # paramText[n]
               PROVE  OfRequest(items, pick, AfterSets(items, pick)[n], n)
    OBVIOUS
  <2>1. to # {}
    BY <1>1
  <2> QED BY <1>3, <1>6, <1>8, <2>1, Zenon DEF OfRequest
<1>10. ASSUME NEW k, LastSent(items, pick, n, k)
       PROVE  AfterSets(items, pick)[n] = items[k][2]
  <2>1. k \in 1..Len(items) /\ k \in to /\ \A l \in 1..Len(items) : l > k => pick[l] # n
    BY <1>7, <1>10, Zenon DEF LastSent
  <2>2. i \in to /\ k <= i /\ i \in 1..Len(items) /\ pick[i] = n
    BY <1>3, <1>6, <2>1
  <2>3. i = k
    BY <1>2, <2>1, <2>2
  <2> QED BY <1>8, <2>1, <2>3
<1> QED BY <1>9, <1>10, Zenon DEF SetsDone

\* SetParameterValues with a list.
LEMMA SetTells ==
  ASSUME NEW h, NEW items \in SetLists, AnalyseSet(h, items)
  PROVE  SetsToldNow
<1>1. PICK pick \in Picks(Len(items)) :
        /\ Told("SetParameterValues", h,
                Args(NoPath, FALSE, [i \in DOMAIN items |-> items[i][1]],
                     [i \in DOMAIN items |-> items[i][2]], pick),
                SetAnswer(h, items, pick))
        /\ paramText' = AfterSets(items, pick)
  BY DEF AnalyseSet
<1>2. PICK Q : items \in Seq(Q \X ParamValues)
  BY RpcAssumption
<1>3. PICK a : a = SetAnswer(h, items, pick)
  OBVIOUS
<1>4. /\ a.kind # "nothing"
      /\ a.kind = "Fault" /\ Len(items) < RenewSize => \E j \in 2..Len(a.list) : a.list[j][2] = 9008
      /\ a.kind = "SetParameterValuesResponse" =>
           a.list = <<0>> /\ \A i \in 1..Len(items) : pick[i] = NoParam \/ HasHandler(pick[i])
  <2>1. Tells(a, pick, Len(items))
    BY <1>2, <1>3, SetAnswerTells
  <2> QED BY <2>1 DEF Tells
<1>5. PICK names, texts : names = [i \in DOMAIN items |-> items[i][1]] /\ texts = [i \in DOMAIN items |-> items[i][2]]
  OBVIOUS
<1>6. answer' = a /\ asked'.names = names /\ asked'.texts = texts /\ asked'.way = pick
  <2>1. Told("SetParameterValues", h, Args(NoPath, FALSE, names, texts, pick), a)
    BY <1>1, <1>3, <1>5
  <2>2. asked' = [method |-> "SetParameterValues", header |-> h, path |-> NoPath,
                  next |-> FALSE, names |-> names, texts |-> texts, way |-> pick]
    BY <2>1 DEF Told, Args
  <2>3. answer' = Checked(a)
    BY <2>1 DEF Told
  <2> QED BY <1>4, <2>2, <2>3, CheckedIs
<1>7. Len(names) = Len(items) /\ texts \in Seq(ParamValues) /\ Len(texts) = Len(items)
      /\ \A i \in 1..Len(items) : texts[i] = items[i][2]
  BY <1>2, <1>5
<1>12. DOMAIN names = 1..Len(items) /\ DOMAIN pick = 1..Len(items)
  <2>1. DOMAIN items = 1..Len(items)
    BY <1>2
  <2>2. DOMAIN names = DOMAIN items
    BY <1>5, Zenon
  <2>3. pick \in [1..Len(items) -> FoundNodes]
    BY Zenon DEF Picks
  <2> QED BY <2>1, <2>2, <2>3
<1>8. ASSUME NEW n \in Params, paramText'[n] # paramText[n]
      PROVE  \E i \in 1..Len(items) : pick[i] = n /\ HasHandler(n) /\ paramText'[n] = texts[i]
  <2>1. OfRequest(items, pick, AfterSets(items, pick)[n], n)
    <3>1. AfterSets(items, pick)[n] # paramText[n]
      BY <1>1, <1>8
    <3>2. SetsDone(items, pick, n)
      BY <1>2, AfterSetsTell
    <3> QED BY <3>1, <3>2, Zenon DEF SetsDone
  <2>2. \E i \in 1..Len(items) : pick[i] = n /\ HasHandler(n) /\ AfterSets(items, pick)[n] = items[i][2]
    BY <2>1 DEF OfRequest
  <2> QED BY <1>1, <1>7, <2>2
<1>11. \A n \in Params : paramText'[n] # paramText[n] =>
          ~params[n].object /\ paramText'[n] \in ToSet(asked'.texts)
  <2> TAKE n \in Params
  <2> HAVE paramText'[n] # paramText[n]
  <2>1. PICK i \in 1..Len(items) : HasHandler(n) /\ paramText'[n] = texts[i]
    BY <1>8
  <2>2. i \in DOMAIN texts
    BY <1>7
  <2>3. paramText'[n] \in ToSet(texts)
    BY <2>1, <2>2 DEF ToSet
  <2> QED BY <1>6, <2>1, <2>3 DEF HasHandler
<1>9. answer'.kind = "Fault" /\ asked'.names # NoList /\ Len(asked'.names) < RenewSize =>
        \E j \in 2..Len(answer'.list) : answer'.list[j][2] = 9008
  BY <1>4, <1>6, <1>7
<1>10. answer'.kind = "SetParameterValuesResponse" =>
         /\ answer'.list = <<0>>
         /\ \A i \in DOMAIN asked'.way : asked'.way[i] = NoParam \/ HasHandler(asked'.way[i])
  BY <1>4, <1>6, <1>12
<1>13. ASSUME Found(asked')
       PROVE  AsSent(asked')
  <2> DEFINE Named(k) == NamedBy(names[k])
  <2>1. \A k \in 1..Len(items) : pick[k] \in Named(k)
    <3>1. \A k \in DOMAIN asked'.names : asked'.way[k] \in NamedBy(asked'.names[k])
      BY <1>13, Zenon DEF Found
    <3> QED BY <1>6, <1>12, <3>1
  <2>2. \A k : Named(k) \subseteq Params
    BY DEF NamedBy
  <2> HIDE DEF Named
  <2>3. \A n \in Params : paramText'[n] # paramText[n] =>
          \E k \in 1..Len(items) : n \in Named(k) /\ paramText'[n] = texts[k]
    <3> TAKE n \in Params
    <3> HAVE paramText'[n] # paramText[n]
    <3>1. PICK i \in 1..Len(items) : pick[i] = n /\ paramText'[n] = texts[i]
      BY <1>8
    <3> QED BY <2>1, <3>1
  <2>4. ASSUME NEW k \in 1..Len(items),
               \A l \in 1..Len(items) : l > k => Named(l) \cap Named(k) = {}
        PROVE  \E n \in Named(k) : HasHandler(n) => paramText'[n] = texts[k]
    <3>1. PICK n : n = pick[k]
      OBVIOUS
    <3>2. n \in Named(k) /\ n \in Params
      BY <2>1, <2>2, <3>1
    <3>3. ASSUME HasHandler(n)
          PROVE  paramText'[n] = texts[k]
      <4>1. \A l \in 1..Len(items) : l > k => pick[l] # n
        BY <2>1, <2>4, <3>2
      <4>2. LastSent(items, pick, n, k)
        BY <3>1, <3>3, <4>1, Zenon DEF LastSent
      <4>3. AfterSets(items, pick)[n] = items[k][2]
        <5>1. SetsDone(items, pick, n)
          BY <1>2, <3>2, AfterSetsTell
        <5> QED BY <4>2, <5>1, Zenon DEF SetsDone
      <4>4. texts[k] = items[k][2]
        BY <1>7, Zenon
      <4> QED BY <1>1, <4>3, <4>4, Zenon
    <3> QED BY <3>2, <3>3
  <2>5. /\ \A n \in Params : paramText'[n] # paramText[n] =>
             \E k \in DOMAIN names : n \in Named(k) /\ paramText'[n] = texts[k]
        /\ \A k \in DOMAIN names :
             (\A l \in DOMAIN names : l > k => Named(l) \cap Named(k) = {}) =>
               \E n \in Named(k) : HasHandler(n) => paramText'[n] = texts[k]
    BY <1>12, <2>3, <2>4, Zenon
  <2> QED BY <1>6, <2>5, Zenon DEF AsSent, Named
<1> QED BY <1>9, <1>10, <1>11, <1>13, SMT DEF SetsToldNow

\* And without one.
LEMMA NoListTells ==
  ASSUME NEW h, NEW m, AnalyseNoList(m, h)
  PROVE  SetsToldNow
<1>1. PICK a \in {Died, Answer(IF m = "SetParameterValues" THEN "Fault"
                               ELSE "GetParameterValuesResponse", h, <<>>)} :
        Told(m, h, Args(NoPath, FALSE, NoList, <<>>, <<>>), a)
  BY DEF AnalyseNoList
<1>2. paramText' = paramText
  BY DEF AnalyseNoList
<1>3. asked'.names = NoList
  BY <1>1, Zenon DEF Told, Args
<1>4. a.kind # "nothing" /\ a.kind # "SetParameterValuesResponse"
  <2>1. CASE a = Died
    BY <2>1 DEF Died
  <2>2. CASE a # Died
    <3>1. \E k \in {"Fault", "GetParameterValuesResponse"} : a = [kind |-> k, id |-> h, list |-> <<>>]
      BY <1>1, <2>2 DEF Answer, IdOf
    <3> QED BY <3>1
  <2> QED BY <2>1, <2>2
<1>5. answer' = a
  BY <1>1, <1>4, CheckedIs DEF Told
<1> QED BY <1>2, <1>3, <1>4, <1>5, SMTT(60) DEF SetsToldNow

LEMMA OthersTell ==
  ASSUME NEW m, NEW h, NEW args, NEW a, Told(m, h, args, a), m # "SetParameterValues"
  PROVE  SetsToldNow
<1>1. asked' = [method |-> m, header |-> h, path |-> args.path,
                next |-> args.next, names |-> args.names, texts |-> args.texts,
                way |-> args.way]
  BY DEF Told
<1>2. asked'.method = m
  BY <1>1
<1> QED BY <1>2, Zenon DEF SetsToldNow

LEMMA SetsToldStep == RpcNext \/ UNCHANGED rpcVars => SetsToldNow
<1> SUFFICES ASSUME RpcNext \/ UNCHANGED rpcVars
             PROVE  SetsToldNow
  OBVIOUS
<1>1. CASE UNCHANGED rpcVars
  BY <1>1, Zenon DEF rpcVars, SetsToldNow
<1>2. ASSUME NEW h, NEW m \in OneOff, NEW address, AnalyseOneOff(m, h, address)
      PROVE  SetsToldNow
  <2>1. m # "SetParameterValues"
    BY DEF OneOff
  <2>2. PICK args, a : Told(m, h, args, a)
    BY <1>2, Zenon DEF AnalyseOneOff
  <2> QED BY <2>1, <2>2, OthersTell
<1>3. ASSUME NEW h, NEW m \in Silent, AnalyseSilent(m, h)
      PROVE  SetsToldNow
  <2>1. m # "SetParameterValues"
    BY DEF Silent
  <2> QED BY <1>3, <2>1, OthersTell, Zenon DEF AnalyseSilent
<1>4. ASSUME NEW h, NEW p, NEW next, AnalyseNames(h, p, next)
      PROVE  SetsToldNow
  <2>1. "GetParameterNames" # "SetParameterValues"
    OBVIOUS
  <2> QED BY <1>4, <2>1, OthersTell, Zenon DEF AnalyseNames
<1>5. ASSUME NEW h, NEW p, AnalyseObject(h, p)
      PROVE  SetsToldNow
  <2>1. "AddObject" # "SetParameterValues" /\ "DeleteObject" # "SetParameterValues"
    OBVIOUS
  <2> QED BY <1>5, <2>1, OthersTell, Zenon DEF AnalyseObject
<1>6. ASSUME NEW h, NEW l, AnalyseGet(h, l)
      PROVE  SetsToldNow
  <2>1. "GetParameterValues" # "SetParameterValues"
    OBVIOUS
  <2> QED BY <1>6, <2>1, OthersTell, Zenon DEF AnalyseGet
<1>7. ASSUME NEW evs, AgentInforms(evs)
      PROVE  SetsToldNow
  <2>1. "Inform" # "SetParameterValues"
    OBVIOUS
  <2> QED BY <1>7, <2>1, OthersTell, Zenon DEF AgentInforms
<1>8. ASSUME NEW code, TransferEnds(code)
      PROVE  SetsToldNow
  BY <1>8, Zenon DEF TransferEnds, SetsToldNow
<1>9. CASE EditTree
  BY <1>9, Zenon DEF EditTree, SetsToldNow
<1>10. CASE RpcNext
  <2>1. \/ \E h \in Headers :
             \/ \E m \in OneOff, address \in FileUrls : AnalyseOneOff(m, h, address)
             \/ \E m \in Silent : AnalyseSilent(m, h)
             \/ \E p \in SearchPaths \cup {NoPath} :
                  (\E next \in BOOLEAN : AnalyseNames(h, p, next)) \/ AnalyseObject(h, p)
             \/ \E l \in AskedLists : AnalyseGet(h, l)
             \/ \E l \in SetLists : AnalyseSet(h, l)
             \/ \E m \in {"GetParameterValues", "SetParameterValues"} : AnalyseNoList(m, h)
        \/ \E evs \in EventLists : AgentInforms(evs)
        \/ \E code \in {0, 9001} : TransferEnds(code)
        \/ EditTree
    BY <1>10 DEF RpcNext
  <2>2. CASE \E evs \in EventLists : AgentInforms(evs)
    BY <1>7, <2>2, Zenon
  <2>3. CASE \E code \in {0, 9001} : TransferEnds(code)
    <3>1. PICK code : TransferEnds(code)
      BY <2>3
    <3> QED BY <1>8, <3>1, Zenon
  <2>4. ASSUME NEW h \in Headers,
             \/ \E m \in OneOff, address \in FileUrls : AnalyseOneOff(m, h, address)
             \/ \E m \in Silent : AnalyseSilent(m, h)
             \/ \E p \in SearchPaths \cup {NoPath} :
                  (\E next \in BOOLEAN : AnalyseNames(h, p, next)) \/ AnalyseObject(h, p)
             \/ \E l \in AskedLists : AnalyseGet(h, l)
             \/ \E l \in SetLists : AnalyseSet(h, l)
             \/ \E m \in {"GetParameterValues", "SetParameterValues"} : AnalyseNoList(m, h)
        PROVE  SetsToldNow
    <3>1. CASE \E m \in OneOff, address \in FileUrls : AnalyseOneOff(m, h, address)
      BY <1>2, <3>1, Zenon
    <3>2. CASE \E m \in Silent : AnalyseSilent(m, h)
      BY <1>3, <3>2, Zenon
    <3>3. CASE \E p \in SearchPaths \cup {NoPath} :
                  (\E next \in BOOLEAN : AnalyseNames(h, p, next)) \/ AnalyseObject(h, p)
      BY <1>4, <1>5, <3>3, Zenon
    <3>4. CASE \E l \in AskedLists : AnalyseGet(h, l)
      BY <1>6, <3>4, Zenon
    <3>5. CASE \E l \in SetLists : AnalyseSet(h, l)
      BY <3>5, SetTells, Zenon
    <3>6. CASE \E m \in {"GetParameterValues", "SetParameterValues"} : AnalyseNoList(m, h)
      BY <3>6, NoListTells, Zenon
    <3> QED BY <2>4, <3>1, <3>2, <3>3, <3>4, <3>5, <3>6, Zenon
  <2> QED BY <1>9, <2>1, <2>2, <2>3, <2>4
<1> QED BY <1>1, <1>10

----------------------------------------------------------------------------
(* What the agent answers and queues.                                      *)

Methods == OneOff \cup Silent
             \cup {"GetParameterNames", "GetParameterValues", "SetParameterValues",
                   "AddObject", "DeleteObject", "Inform"}
ServedDoc == Methods \X (FileUrls \cup {EmptyText})

\* What one more document adds to what is promised.
Promises(f, d) == IF d[1] \in DOMAIN Tags THEN Append(f, d) ELSE f

PromiseSteps(h, s, N) ==
  /\ h \in [0..N -> Seq(ServedDoc)] /\ h[0] = <<>>
  /\ \A k \in 1..N : h[k] = Promises(h[k - 1], s[k])

LEMMA PromisesTyped ==
  ASSUME NEW f \in Seq(ServedDoc), NEW d \in ServedDoc
  PROVE  Promises(f, d) \in Seq(ServedDoc)
<1>1. PICK D : D = ServedDoc
  OBVIOUS
<1>2. Append(f, d) \in Seq(D)
  BY <1>1, AppendProperties
<1> QED BY <1>1, <1>2 DEF Promises

LEMMA PromisedBySteps ==
  ASSUME NEW s \in Seq(ServedDoc), NEW N, N = Len(s)
  PROVE  N \in Nat /\ \E h : PromiseSteps(h, s, N) /\ Promised(s) = h[N]
<1> DEFINE Body(f) == [k \in 0..N |-> IF k = 0 THEN <<>>
                                      ELSE IF s[k][1] \in DOMAIN Tags
                                           THEN Append(f[k - 1], s[k]) ELSE f[k - 1]]
           F == CHOOSE f : f = Body(f)
<1>1. Promised(s) = F[N]
  BY DEF Promised
<1>2. PICK D : D = ServedDoc
  OBVIOUS
<1>3. N \in Nat /\ \A k \in 1..N : s[k] \in D
  <2>1. s \in Seq(D)
    BY <1>2
  <2> QED BY <2>1
<1> DEFINE S == Seq(ServedDoc)
           step == [k \in 1..N |-> [f \in S |-> Promises(f, s[k])]]
<1>4. <<>> \in S
  OBVIOUS
<1>5. \A f \in S : \A k \in 1..N : Promises(f, s[k]) \in S
  BY <1>2, <1>3, PromisesTyped
<1> HIDE DEF S
<1>6. step \in [1..N -> [S -> S]] /\ \A k \in 1..N : \A f \in S : step[k][f] = Promises(f, s[k])
  BY <1>5
<1> HIDE DEF step
<1>7. PICK h : Recursed(h, N, S, <<>>, step)
  BY <1>3, <1>4, <1>6, Recursion
<1>8. h \in [0..N -> S] /\ h[0] = <<>> /\ \A k \in 1..N : h[k] = step[k][h[k - 1]]
  BY <1>7 DEF Recursed
<1>9. \A k \in 1..N : k - 1 \in 0..N /\ k \in 0..N /\ k # 0
  BY <1>3
<1>10. \A k \in 1..N : h[k] = Promises(h[k - 1], s[k])
  BY <1>6, <1>8, <1>9
<1>11. h = Body(h)
  <2>1. \A k \in 0..N : k = 0 \/ k \in 1..N
    BY <1>3
  <2>2. \A k \in 0..N : h[k] = IF k = 0 THEN <<>>
                               ELSE IF s[k][1] \in DOMAIN Tags
                                    THEN Append(h[k - 1], s[k]) ELSE h[k - 1]
    BY <1>8, <1>9, <1>10, <2>1 DEF Promises
  <2>3. h = [k \in 0..N |-> h[k]]
    BY <1>8
  <2> QED BY <2>2, <2>3
<1>12. F = Body(F)
  <2> HIDE DEF Body
  <2> QED BY <1>11
<1> HIDE DEF F
<1>13. 0 \in 0..N
  BY <1>3
<1>14. F[0] = <<>> /\ \A k \in 1..N : F[k] = Promises(F[k - 1], s[k])
  <2>1. \A k \in 0..N : F[k] = IF k = 0 THEN <<>>
                               ELSE IF s[k][1] \in DOMAIN Tags
                                    THEN Append(F[k - 1], s[k]) ELSE F[k - 1]
    BY <1>12
  <2> QED BY <1>9, <1>13, <2>1 DEF Promises
<1> DEFINE Good == {k \in 0..N : F[k] = h[k]}
<1>15. 0 \in Good
  BY <1>8, <1>13, <1>14
<1>16. \A k \in 1..N : k - 1 \in Good => k \in Good
  BY <1>9, <1>10, <1>14
<1>17. F[N] = h[N]
  <2>1. \A k \in 0..N : k \in Good
    <3> HIDE DEF Good
    <3> QED BY <1>3, <1>15, <1>16, UpTo
  <2>2. N \in 0..N
    BY <1>3
  <2> QED BY <2>1, <2>2
<1>18. PromiseSteps(h, s, N)
  BY <1>8, <1>10 DEF PromiseSteps, S
<1> QED BY <1>1, <1>3, <1>17, <1>18

\* What is promised is documents, and one more document adds at the end.
LEMMA PromisedIs ==
  ASSUME NEW s \in Seq(ServedDoc)
  PROVE  /\ Promised(s) \in Seq(ServedDoc)
         /\ \A d \in ServedDoc : Promised(Append(s, d)) = Promises(Promised(s), d)
<1>1. PICK N \in Nat : N = Len(s)
  OBVIOUS
<1>2. PICK h : PromiseSteps(h, s, N) /\ Promised(s) = h[N]
  BY <1>1, PromisedBySteps
<1>3. N \in 0..N
  BY <1>1
<1>4. Promised(s) \in Seq(ServedDoc)
  BY <1>2, <1>3 DEF PromiseSteps
<1>5. ASSUME NEW d \in ServedDoc
      PROVE  Promised(Append(s, d)) = Promises(Promised(s), d)
  <2>1. PICK D : D = ServedDoc
    OBVIOUS
  <2>2. PICK t : t = Append(s, d)
    OBVIOUS
  <2>3. t \in Seq(D) /\ Len(t) = N + 1 /\ t[N + 1] = d /\ \A k \in 1..N : t[k] = s[k]
    <3>1. s \in Seq(D) /\ d \in D
      BY <2>1
    <3> QED BY <1>1, <2>2, <3>1, AppendProperties
  <2>4. PICK g : PromiseSteps(g, t, N + 1) /\ Promised(t) = g[N + 1]
    BY <2>1, <2>3, PromisedBySteps
  <2>5. /\ g[0] = <<>> /\ \A k \in 1..(N + 1) : g[k] = Promises(g[k - 1], t[k])
        /\ h[0] = <<>> /\ \A k \in 1..N : h[k] = Promises(h[k - 1], s[k])
    BY <1>2, <2>4, Zenon DEF PromiseSteps
  <2> DEFINE Good == {k \in 0..N : g[k] = h[k]}
  <2>6. 0 \in Good
    BY <1>1, <2>5
  <2>7. \A k \in 1..N : k - 1 \in Good => k \in Good
    <3>1. \A k \in 1..N : k \in 1..(N + 1) /\ k \in 0..N
      BY <1>1
    <3> QED BY <2>3, <2>5, <3>1
  <2>8. g[N] = h[N]
    <3>1. \A k \in 0..N : k \in Good
      <4> HIDE DEF Good
      <4> QED BY <1>1, <2>6, <2>7, UpTo
    <3> QED BY <1>3, <3>1
  <2>9. N + 1 \in 1..(N + 1) /\ N + 1 - 1 = N
    BY <1>1
  <2>10. g[N + 1] = Promises(h[N], d)
    BY <2>3, <2>5, <2>8, <2>9
  <2> QED BY <1>2, <2>2, <2>4, <2>10
<1> QED BY <1>4, <1>5

LEMMA NothingPromised == Promised(<<>>) = <<>>
<1>1. <<>> \in Seq(ServedDoc) /\ Len(<<>>) = 0
  OBVIOUS
<1>2. PICK h : PromiseSteps(h, <<>>, 0) /\ Promised(<<>>) = h[0]
  BY <1>1, PromisedBySteps
<1> QED BY <1>2, Zenon DEF PromiseSteps

\* The queue holds what was promised.
Task == {"download", "reboot", "factoryreset"} \X (FileUrls \cup {NoUrl})

TaskOf(d) == <<Tags[d[1]], IF d[2] = EmptyText THEN NoUrl ELSE d[2]>>

Backed(ts, s) ==
  /\ Len(ts) = Len(Promised(s))
  /\ \A i \in DOMAIN ts : ts[i] = TaskOf(Promised(s)[i])

LEMMA BackedOn ==
  ASSUME NEW ts \in Seq(Task), NEW s \in Seq(ServedDoc), Backed(ts, s), NEW d \in ServedDoc,
         NEW more, more = IF d[1] \in DOMAIN Tags THEN <<TaskOf(d)>> ELSE <<>>,
         d[1] \in DOMAIN Tags => TaskOf(d) \in Task
  PROVE  ts \o more \in Seq(Task) /\ Append(s, d) \in Seq(ServedDoc) /\ Backed(ts \o more, Append(s, d))
<1>1. PICK D : D = ServedDoc
  OBVIOUS
<1>2. PICK T : T = Task
  OBVIOUS
<1>3. PICK f : f = Promised(s)
  OBVIOUS
<1>4. PICK g : g = Promised(Append(s, d))
  OBVIOUS
<1>5. f \in Seq(D) /\ g = Promises(f, d)
  BY <1>1, <1>3, <1>4, PromisedIs
<1>6. Append(s, d) \in Seq(D)
  BY <1>1, AppendProperties
<1>7. ts \in Seq(T) /\ Len(ts) = Len(f) /\ \A i \in DOMAIN ts : ts[i] = TaskOf(f[i])
  BY <1>2, <1>3, Zenon DEF Backed
<1>8. CASE d[1] \notin DOMAIN Tags
  <2>1. more = <<>> /\ g = f
    BY <1>5, <1>8 DEF Promises
  <2>2. ts \o <<>> = ts
    BY <1>7, ConcatEmptySeq
  <2>3. ts \o more = ts
    BY <2>1, <2>2
  <2> QED BY <1>1, <1>2, <1>3, <1>4, <1>6, <1>7, <2>1, <2>3, Zenon DEF Backed
<1>9. CASE d[1] \in DOMAIN Tags
  <2>1. PICK x \in T : x = TaskOf(d)
    BY <1>2, <1>9
  <2>2. more = <<x>> /\ g = Append(f, d)
    BY <1>5, <1>9, <2>1 DEF Promises
  <2>3. PICK N \in Nat : N = Len(ts) /\ N = Len(f)
    BY <1>7
  <2>4. PICK r : r = ts \o more
    OBVIOUS
  <2>5. r \in Seq(T) /\ Len(r) = N + 1 /\ r[N + 1] = x /\ \A i \in 1..N : r[i] = ts[i]
    <3>1. PICK y \in Seq(T) : y = <<x>> /\ Len(y) = 1 /\ y[1] = x
      <4>1. <<x>> \in Seq(T) /\ Len(<<x>>) = 1 /\ <<x>>[1] = x
        BY <2>1
      <4> QED BY <4>1
    <3>2. PICK A \in Seq(T) : A = ts
      BY <1>7
    <3>3. /\ A \o y \in Seq(T) /\ Len(A \o y) = Len(A) + Len(y)
          /\ \A j \in 1..Len(A) : (A \o y)[j] = A[j]
          /\ \A k \in 1..Len(y) : (A \o y)[Len(A) + k] = y[k]
      BY ConcatIs
    <3>4. 1 \in 1..Len(y)
      BY <3>1
    <3>5. r = A \o y /\ Len(A) = N /\ A = ts
      BY <2>2, <2>3, <2>4, <3>1, <3>2
    <3> QED BY <3>1, <3>3, <3>4, <3>5
  <2>6. Len(g) = N + 1 /\ g[N + 1] = d /\ \A i \in 1..N : g[i] = f[i]
    <3>1. d \in D
      BY <1>1
    <3> QED BY <1>5, <2>2, <2>3, <3>1, AppendProperties
  <2>7. DOMAIN ts = 1..N /\ DOMAIN r = 1..(N + 1) /\ \A i \in 1..(N + 1) : i \in 1..N \/ i = N + 1
    BY <1>7, <2>3, <2>5
  <2>8. \A i \in DOMAIN r : r[i] = TaskOf(g[i])
    BY <1>7, <2>1, <2>5, <2>6, <2>7
  <2> QED BY <1>1, <1>2, <1>4, <1>6, <2>4, <2>5, <2>6, <2>8, Zenon DEF Backed
<1> QED BY <1>8, <1>9

\* The list of an Inform has every name in its place, and room to spare,
\* however often it grew.
LEMMA InformListed ==
  /\ InformParameters.entries \in Seq(STRING \X {EmptyText})
  /\ Len(InformParameters.entries) = Len(InformNames)
  /\ Len(InformParameters.entries) < InformParameters.size
  /\ \A i \in 1..Len(InformNames) : InformParameters.entries[i] = <<InformNames[i], EmptyText>>
<1> DEFINE N == Len(InformNames)
           E == STRING \X {EmptyText}
           e(k) == <<InformNames[k], EmptyText>>
           V(f, k) == IF k = 0 THEN NewList ELSE cwmp_add_parameter_to_list(f[k - 1], e(k))
           Body(f) == [k \in 0..N |-> V(f, k)]
           F == CHOOSE f : f = Body(f)
           S == [size : Nat, entries : Seq(E)]
           step == [k \in 1..N |-> [t \in S |-> cwmp_add_parameter_to_list(t, e(k))]]
<1>1. InformParameters = F[N]
  BY DEF InformParameters
<1>2. N \in Nat /\ \A k \in 1..N : e(k) \in E
  <2>1. InformNames \in Seq(STRING)
    BY RpcAssumption
  <2>2. N \in Nat /\ \A k \in 1..N : InformNames[k] \in STRING
    BY <2>1
  <2> QED BY <2>2
<1>3. RenewSize \in Nat /\ RenewSize >= 1
  BY RpcAssumption
<1> HIDE DEF N, E, e
<1>4. NewList \in S /\ NewList.size = RenewSize /\ NewList.entries = <<>>
  <2>1. <<>> \in Seq(E)
    OBVIOUS
  <2> QED BY <1>3, <2>1 DEF NewList
<1>5. ASSUME NEW t \in S, NEW k \in 1..N
      PROVE  LET u == cwmp_add_parameter_to_list(t, e(k)) IN
             /\ u \in S
             /\ u.size = IF Len(t.entries) >= t.size - 1 THEN t.size + RenewSize ELSE t.size
             /\ Len(u.entries) = Len(t.entries) + 1
             /\ u.entries[Len(t.entries) + 1] = e(k)
             /\ \A i \in 1..Len(t.entries) : u.entries[i] = t.entries[i]
  <2>1. PICK q \in Seq(E) : q = t.entries
    OBVIOUS
  <2>2. PICK x \in E : x = e(k)
    BY <1>2
  <2>3. PICK r : r = Append(q, x)
    OBVIOUS
  <2>4. r \in Seq(E) /\ Len(r) = Len(q) + 1 /\ r[Len(q) + 1] = x /\ \A i \in 1..Len(q) : r[i] = q[i]
    BY <2>3, AppendProperties
  <2>5. PICK z \in Nat : z = IF Len(q) >= t.size - 1 THEN t.size + RenewSize ELSE t.size
    BY <1>3
  <2>6. cwmp_add_parameter_to_list(t, e(k)) = [size |-> z, entries |-> r]
    BY <2>1, <2>2, <2>3, <2>5 DEF cwmp_add_parameter_to_list
  <2> QED BY <2>1, <2>2, <2>4, <2>5, <2>6
<1> HIDE DEF S
<1>6. step \in [1..N -> [S -> S]]
      /\ \A k \in 1..N : \A t \in S : step[k][t] = cwmp_add_parameter_to_list(t, e(k))
  BY <1>5
<1> HIDE DEF step
<1>7. PICK h : Recursed(h, N, S, NewList, step)
  BY <1>2, <1>4, <1>6, Recursion
<1>8. h \in [0..N -> S] /\ h[0] = NewList /\ \A k \in 1..N : h[k] = step[k][h[k - 1]]
  BY <1>7 DEF Recursed
<1>9. 0 \in 0..N /\ \A k \in 1..N : k - 1 \in 0..N /\ k \in 0..N /\ k # 0
  BY <1>2
<1>10. \A k \in 1..N : h[k] = cwmp_add_parameter_to_list(h[k - 1], e(k))
  BY <1>6, <1>8, <1>9
<1>11. h = Body(h)
  <2>1. \A k \in 0..N : k = 0 \/ k \in 1..N
    BY <1>2
  <2>2. \A k \in 0..N : h[k] = V(h, k)
    BY <1>8, <1>9, <1>10, <2>1
  <2>3. h = [k \in 0..N |-> h[k]]
    BY <1>8
  <2> HIDE DEF V
  <2> QED BY <2>2, <2>3
<1>12. F = Body(F)
  <2> HIDE DEF Body
  <2> QED BY <1>11
<1> HIDE DEF F
<1>13. F[0] = NewList /\ \A k \in 1..N : F[k] = cwmp_add_parameter_to_list(F[k - 1], e(k))
  <2>1. \A k \in 0..N : F[k] = V(F, k)
    <3> HIDE DEF V
    <3> QED BY <1>12
  <2> QED BY <1>9, <2>1
<1> DEFINE Fits(t, k) == /\ t \in S /\ Len(t.entries) = k /\ k < t.size
                         /\ \A i \in 1..k : t.entries[i] = e(i)
           Good == {k \in 0..N : Fits(F[k], k)}
<1>14. 0 \in Good
  <2>1. Len(NewList.entries) = 0
    BY <1>4
  <2>2. Fits(NewList, 0)
    BY <1>3, <1>4, <2>1
  <2> HIDE DEF Fits
  <2> QED BY <1>9, <1>13, <2>2
<1>15. ASSUME NEW k \in 1..N, k - 1 \in Good
       PROVE  k \in Good
  <2>1. PICK t \in S : t = F[k - 1] /\ Fits(t, k - 1)
    BY <1>15
  <2>2. PICK u : u = cwmp_add_parameter_to_list(t, e(k))
    OBVIOUS
  <2>3. F[k] = u
    BY <1>13, <2>1, <2>2
  <2>4. /\ u \in S
        /\ u.size = IF Len(t.entries) >= t.size - 1 THEN t.size + RenewSize ELSE t.size
        /\ Len(u.entries) = Len(t.entries) + 1
        /\ u.entries[Len(t.entries) + 1] = e(k)
        /\ \A i \in 1..Len(t.entries) : u.entries[i] = t.entries[i]
    BY <1>5, <2>2
  <2>5. Len(t.entries) = k - 1 /\ k - 1 < t.size /\ k - 1 + 1 = k /\ k \in Nat
    BY <1>2, <2>1
  <2>6. t.size \in Nat
    BY DEF S
  <2>7. u.entries[k] = e(k) /\ Len(u.entries) = k
    BY <2>4, <2>5
  <2>8. \A i \in 1..k : u.entries[i] = e(i)
    <3>1. \A i \in 1..(k - 1) : u.entries[i] = e(i)
      BY <2>1, <2>4, <2>5
    <3>2. \A i \in 1..k : i = k \/ i \in 1..(k - 1)
      BY <2>5
    <3> QED BY <2>7, <3>1, <3>2
  <2>9. k < u.size
    BY <1>3, <2>4, <2>5, <2>6
  <2>10. Fits(u, k)
    BY <2>4, <2>7, <2>8, <2>9
  <2> HIDE DEF Fits
  <2> QED BY <1>9, <2>3, <2>10
<1>16. N \in Good
  <2> HIDE DEF Good
  <2>1. \A k \in 0..N : k \in Good
    BY <1>2, <1>14, <1>15, UpTo
  <2>2. N \in 0..N
    BY <1>2
  <2> QED BY <2>1, <2>2
<1>17. Fits(InformParameters, N)
  BY <1>1, <1>16
<1>18. InformParameters.entries \in Seq(E)
  BY <1>17 DEF S
<1> QED BY <1>17, <1>18 DEF N, E, e

----------------------------------------------------------------------------
\* What may end the agent.
Deadly(ps, q) ==
  \/ q.method = "Upload"
  \/ q.names = NoList
  \/ q.method = "GetParameterNames" /\ q.path = NoPath
  \/ q.method = "AddObject" /\ \E n \in DOMAIN ps : ps[n].rw = 1 /\ ps[n].child = NoParam
  \/ q.method = "GetParameterValues" /\ Len(q.names) >= RenewSize

InformTrue(list) ==
  /\ Len(InformParameters.entries) < InformParameters.size
  /\ \A i \in DOMAIN InformNames : list[Len(list) - Len(InformNames) + i][1] = InformNames[i]
  /\ \A i \in DOMAIN list : list[i][2] # EmptyText => list[i][1] = "M Reboot"

Own == {"TransferComplete", "Inform"}
Apart == {"nothing", "died", "TransferComplete", "Inform"}

\* The answer a to the document q, in the tree ps.
Answers(ps, q, a) ==
  /\ a.id = "own" <=> a.kind \in Own
  /\ a.kind \notin Apart => a.id = q.header /\ a.kind \in {ResponseTo[q.method], "Fault"}
  /\ a.kind = "TransferComplete" => q.method \in Silent \cup {"GetParameterNames"}
  /\ a.kind = "Inform" => InformTrue(a.list)
  /\ a.kind = "GetParameterValuesResponse" /\ q.names # NoList =>
       IsPrefix([i \in DOMAIN a.list |-> a.list[i][1]], q.names)
  /\ a.kind = "died" => Deadly(ps, q)

\* Before the transfer that is due is looked at.
AnswersAtFirst(ps, q, a) ==
  /\ Answers(ps, q, a) /\ a.kind # "TransferComplete"
  /\ a.kind = "nothing" => q.method \in Silent \cup {"GetParameterNames"}

LEMMA CheckedAnswers ==
  ASSUME NEW ps, NEW q, NEW a, AnswersAtFirst(ps, q, a)
  PROVE  Answers(ps, q, Checked(a))
<1>1. CASE a.kind = "nothing" /\ transfer # NotDue
  <2>1. PICK l : l = IF transfer = 0 THEN <<>> ELSE <<transfer>>
    OBVIOUS
  <2>2. PICK c : c = [kind |-> "TransferComplete", id |-> "own", list |-> l]
    OBVIOUS
  <2>3. Checked(a) = c
    BY <1>1, <2>1, <2>2 DEF Checked
  <2>4. c.kind = "TransferComplete" /\ c.id = "own"
    BY <2>2
  <2>5. q.method \in Silent \cup {"GetParameterNames"}
    BY <1>1, Zenon DEF AnswersAtFirst
  <2>6. Answers(ps, q, c)
    BY <2>4, <2>5 DEF Answers, Own, Apart
  <2> QED BY <2>3, <2>6
<1>2. CASE ~(a.kind = "nothing" /\ transfer # NotDue)
  <2>1. Checked(a) = a
    BY <1>2, Zenon DEF Checked
  <2> QED BY <2>1, Zenon DEF AnswersAtFirst
<1> QED BY <1>1, <1>2

LEMMA HeaderNotOwn == "own" \notin Headers
BY RpcAssumption DEF Headers, NoHeader, NoId

\* An answer that names its method.
LEMMA KindAnswers ==
  ASSUME NEW ps, NEW q, q.header \in Headers, NEW kind, NEW list,
         kind \in {ResponseTo[q.method], "Fault"},
         kind \notin Apart, kind # "GetParameterValuesResponse"
  PROVE  AnswersAtFirst(ps, q, Answer(kind, q.header, list))
<1>1. PICK a : a = [kind |-> kind, id |-> q.header, list |-> list]
  OBVIOUS
<1>2. Answer(kind, q.header, list) = a
  BY <1>1 DEF Answer, IdOf
<1>3. a.kind = kind /\ a.id = q.header
  BY <1>1
<1>4. a.id # "own"
  BY <1>3, HeaderNotOwn
<1>5. kind \notin Own /\ kind # "TransferComplete" /\ kind # "Inform" /\ kind # "died" /\ kind # "nothing"
  BY DEF Own, Apart
<1>6. Answers(ps, q, a)
  BY <1>3, <1>4, <1>5, Zenon DEF Answers
<1> QED BY <1>2, <1>3, <1>5, <1>6, Zenon DEF AnswersAtFirst

LEMMA DiedAnswers ==
  ASSUME NEW ps, NEW q, Deadly(ps, q)
  PROVE  AnswersAtFirst(ps, q, Died)
<1>1. Died.kind = "died" /\ Died.id = "no id"
  BY DEF Died, NoId
<1>2. Answers(ps, q, Died)
  BY <1>1 DEF Answers, Own, Apart
<1> QED BY <1>1, <1>2 DEF AnswersAtFirst

LEMMA NothingAnswers ==
  ASSUME NEW ps, NEW q
  PROVE  /\ Answers(ps, q, Nothing)
         /\ q.method \in Silent \cup {"GetParameterNames"} => AnswersAtFirst(ps, q, Nothing)
<1>1. Nothing.kind = "nothing" /\ Nothing.id = "no id"
  BY DEF Nothing, NoId
<1>2. Answers(ps, q, Nothing)
  BY <1>1 DEF Answers, Own, Apart
<1> QED BY <1>1, <1>2 DEF AnswersAtFirst

LEMMA ValuesAnswers ==
  ASSUME NEW ps, NEW q, q.header \in Headers, q.method = "GetParameterValues", NEW list,
         q.names # NoList => IsPrefix([i \in DOMAIN list |-> list[i][1]], q.names)
  PROVE  AnswersAtFirst(ps, q, ValuesAnswer(q.header, list))
<1>1. PICK a : a = [kind |-> "GetParameterValuesResponse", id |-> q.header, list |-> list]
  OBVIOUS
<1>2. ValuesAnswer(q.header, list) = a
  BY <1>1 DEF ValuesAnswer, Answer, IdOf
<1>3. a.kind = "GetParameterValuesResponse" /\ a.id = q.header /\ a.list = list
  BY <1>1
<1>4. a.id # "own"
  BY <1>3, HeaderNotOwn
<1>5. ResponseTo[q.method] = "GetParameterValuesResponse"
  BY DEF ResponseTo
<1>6. a.kind \notin Own /\ a.kind # "TransferComplete" /\ a.kind # "Inform" /\ a.kind # "died" /\ a.kind # "nothing"
  BY <1>3 DEF Own
<1>7. Answers(ps, q, a)
  BY <1>3, <1>4, <1>5, <1>6, Zenon DEF Answers
<1> QED BY <1>2, <1>6, <1>7, Zenon DEF AnswersAtFirst

LEMMA PrefixIs ==
  ASSUME NEW S, NEW s \in Seq(S), NEW k \in 0..Len(s), NEW p, p = [i \in 1..k |-> s[i]]
  PROVE  IsPrefix(p, s)
<1>1. k \in Nat /\ k <= Len(s) /\ Len(s) \in Nat /\ \A i \in 1..k : s[i] \in S
  OBVIOUS
<1>2. p \in Seq(S) /\ Len(p) = k /\ \A i \in 1..k : p[i] = s[i]
  BY <1>1
<1>3. PICK x : x = SubSeq(s, 1, k)
  OBVIOUS
<1>4. PICK y : y = SubSeq(p, 1, k)
  OBVIOUS
<1>5. 1 \in 1..(Len(s) + 1) /\ k \in (1 - 1)..Len(s) /\ 1 \in 1..(Len(p) + 1) /\ k \in (1 - 1)..Len(p)
      /\ k - 1 + 1 = k /\ \A i \in 1..k : 1 + i - 1 = i
  BY <1>1, <1>2
<1>6. x \in Seq(S) /\ Len(x) = k - 1 + 1 /\ \A i \in 1..(k - 1 + 1) : x[i] = s[1 + i - 1]
  BY <1>3, <1>5, PartIs
<1>7. y \in Seq(S) /\ Len(y) = k - 1 + 1 /\ \A i \in 1..(k - 1 + 1) : y[i] = p[1 + i - 1]
  BY <1>2, <1>4, <1>5, PartIs
<1>8. Len(x) = k /\ Len(y) = k /\ \A i \in 1..k : x[i] = y[i]
  BY <1>2, <1>5, <1>6, <1>7
<1>9. x = y
  BY <1>6, <1>7, <1>8, SeqEqual
<1> QED BY <1>1, <1>2, <1>3, <1>4, <1>9, Zenon DEF IsPrefix

\* Where the answer of GetParameterValues ends: before the first name no node
\* was met for.
CutAt(names, pick) ==
  LET ends == {i \in DOMAIN names : pick[i] = NoParam}
  IN  IF ends = {} THEN Len(names) ELSE (CHOOSE i \in ends : \A j \in ends : i <= j) - 1

LEMMA CutEnds ==
  ASSUME NEW S, NEW s \in Seq(S), NEW pick
  PROVE  /\ CutAt(s, pick) \in 0..Len(s)
         /\ \A i \in 1..CutAt(s, pick) : pick[i] # NoParam
         /\ CutAt(s, pick) < Len(s) => pick[CutAt(s, pick) + 1] = NoParam
<1> DEFINE ends == {i \in DOMAIN s : pick[i] = NoParam}
<1>1. PICK l \in Nat : l = Len(s) /\ DOMAIN s = 1..l
  OBVIOUS
<1>2. PICK e : e = ends
  OBVIOUS
<1>3. PICK n : n = CutAt(s, pick)
  OBVIOUS
<1>4. n = IF e = {} THEN l ELSE (CHOOSE i \in e : \A j \in e : i <= j) - 1
  <2>1. n = IF ends = {} THEN Len(s) ELSE (CHOOSE i \in ends : \A j \in ends : i <= j) - 1
    BY <1>3 DEF CutAt
  <2> HIDE DEF ends
  <2> QED BY <1>1, <1>2, <2>1
<1>5. e \subseteq 1..l /\ \A i \in 1..l : i \in e <=> pick[i] = NoParam
  BY <1>1, <1>2
<1> HIDE DEF ends
<1>6. n \in 0..l /\ (\A i \in 1..n : i \notin e) /\ (n < l => n + 1 \in e)
  <2>1. CASE e = {}
    BY <1>4, <2>1
  <2>2. CASE e # {}
    <3>1. e \subseteq Nat
      BY <1>5
    <3>2. \E i \in e : \A j \in e : i <= j
      BY <2>2, <3>1, LeastNatural
    <3>3. PICK x \in e : x = (CHOOSE i \in e : \A j \in e : i <= j) /\ \A j \in e : x <= j
      BY <3>2
    <3>4. x \in 1..l /\ n = x - 1
      BY <1>4, <1>5, <2>2, <3>3
    <3>5. n \in 0..l /\ n + 1 = x
      BY <3>4
    <3>6. ASSUME NEW i \in 1..n, i \in e
          PROVE  FALSE
      <4>1. x <= i
        BY <3>3, <3>6
      <4> QED BY <3>4, <4>1
    <3> QED BY <3>3, <3>5, <3>6
  <2> QED BY <2>1, <2>2
<1>7. \A i \in 1..n : pick[i] # NoParam
  BY <1>1, <1>5, <1>6
<1>8. n < l => pick[n + 1] = NoParam
  BY <1>1, <1>5, <1>6
<1> QED BY <1>1, <1>3, <1>6, <1>7, <1>8

\* cwmp_parse_getparametervalues_message: the list answered is the beginning of
\* the list asked for.
LEMMA GetAnswers ==
  ASSUME NEW q, q.header \in Headers, q.method = "GetParameterValues",
         NEW S, q.names \in Seq(S), NEW pick
  PROVE  AnswersAtFirst(params, q, GetParameterValues(q.header, q.names, pick))
<1> DEFINE names == q.names
           ends == {i \in DOMAIN names : pick[i] = NoParam}
           k == IF ends = {} THEN Len(names) ELSE (CHOOSE i \in ends : \A j \in ends : i <= j) - 1
           list == [i \in 1..k |-> <<names[i], paramText[pick[i]]>>]
           a == GetParameterValues(q.header, q.names, pick)
<1>1. a = IF Readable(k) < k THEN Died ELSE ValuesAnswer(q.header, list)
  BY DEF GetParameterValues
<1>2. PICK s \in Seq(S) : s = names
  OBVIOUS
<1>4. k \in 0..Len(s)
  <2>1. k = CutAt(s, pick)
    BY <1>2 DEF CutAt
  <2> QED BY <2>1, CutEnds
<1> HIDE DEF k
<1>5. DOMAIN list = 1..k /\ \A i \in 1..k : list[i][1] = names[i]
  OBVIOUS
<1> HIDE DEF list, a
<1>6. CASE Readable(k) < k
  <2>1. RenewSize \in Nat
    BY RpcAssumption
  <2>2. k >= RenewSize
    BY <1>4, <1>6, <2>1 DEF Readable
  <2>3. Len(q.names) >= RenewSize
    BY <1>2, <1>4, <2>1, <2>2
  <2>4. Deadly(params, q)
    BY <2>3 DEF Deadly
  <2>5. a = Died
    BY <1>1, <1>6, Zenon
  <2>6. AnswersAtFirst(params, q, Died)
    BY <2>4, DiedAnswers
  <2> QED BY <2>5, <2>6 DEF a
<1>7. CASE ~(Readable(k) < k)
  <2>1. PICK p : p = [i \in DOMAIN list |-> list[i][1]]
    OBVIOUS
  <2>2. p = [i \in 1..k |-> s[i]]
    BY <1>2, <1>5, <2>1
  <2>3. IsPrefix(p, s)
    BY <1>4, <2>2, PrefixIs
  <2>4. IsPrefix([i \in DOMAIN list |-> list[i][1]], q.names)
    BY <1>2, <2>1, <2>3
  <2>5. AnswersAtFirst(params, q, ValuesAnswer(q.header, list))
    BY <2>4, ValuesAnswers
  <2>6. a = ValuesAnswer(q.header, list)
    BY <1>1, <1>7, Zenon
  <2> QED BY <2>5, <2>6 DEF a
<1> QED BY <1>6, <1>7

\* cwmp_session_create_inform_message: all parameters, whatever the events.
LEMMA InformAnswers ==
  ASSUME NEW ps, NEW q, NEW events \in EventLists
  PROVE  AnswersAtFirst(ps, q, InformMessage(events))
<1> DEFINE Texts == STRING \cup {EmptyText}
           E == STRING \X Texts
<1>1. PICK M : M = Len(events)
  OBVIOUS
<1>2. M \in Nat /\ DOMAIN events = 1..M
      /\ \A i \in 1..M : events[i][1] \in STRING /\ events[i][2] \in STRING
  <2>1. events \in Seq(STRING \X STRING)
    BY RpcAssumption
  <2> QED BY <1>1, <2>1
<1>3. PICK A : A = EventNode(events)
  OBVIOUS
<1>4. A \in Seq(E) /\ Len(A) = M
      /\ \A i \in 1..M : A[i][2] # EmptyText => A[i][1] = "M Reboot"
  <2> DEFINE e(i) == <<events[i][1], IF events[i][1] = "M Reboot" THEN events[i][2] ELSE EmptyText>>
  <2>1. A = [i \in 1..M |-> e(i)]
    BY <1>2, <1>3 DEF EventNode
  <2>2. ASSUME NEW i \in 1..M
        PROVE  e(i) \in E /\ (e(i)[2] # EmptyText => e(i)[1] = "M Reboot")
    <3>1. PICK t \in Texts : t = IF events[i][1] = "M Reboot" THEN events[i][2] ELSE EmptyText
      BY <1>2
    <3>2. e(i) = <<events[i][1], t>>
      BY <3>1
    <3>3. events[i][1] \in STRING
      BY <1>2
    <3>4. e(i) \in E
      BY <3>2, <3>3
    <3> QED BY <3>1, <3>2, <3>4
  <2> HIDE DEF e, E
  <2>3. \A i \in 1..M : e(i) \in E
    BY <2>2
  <2>4. A \in Seq(E) /\ Len(A) = M
    BY <1>2, <2>1, <2>3
  <2>5. \A i \in 1..M : A[i] = e(i)
    BY <2>1
  <2>6. \A i \in 1..M : e(i)[2] # EmptyText => e(i)[1] = "M Reboot"
    BY <2>2, Zenon
  <2>7. \A i \in 1..M : A[i][2] # EmptyText => A[i][1] = "M Reboot"
    BY <2>5, <2>6, Zenon
  <2> QED BY <2>4, <2>7
<1>5. PICK N \in Nat : N = Len(InformNames) /\ DOMAIN InformNames = 1..N
  BY RpcAssumption
<1>6. PICK B : B = ParameterListNode(InformParameters)
  OBVIOUS
<1>7. B \in Seq(E) /\ Len(B) = N /\ \A i \in 1..N : B[i] = <<InformNames[i], EmptyText>>
  <2>1. PICK L : L = InformParameters.entries
    OBVIOUS
  <2>2. Len(L) = N /\ \A i \in 1..N : L[i] = <<InformNames[i], EmptyText>>
    BY <1>5, <2>1, InformListed
  <2>3. B = [i \in 1..N |-> L[i]]
    BY <1>6, <2>1, <2>2 DEF ParameterListNode
  <2>4. \A i \in 1..N : L[i] \in E
    <3>1. \A i \in 1..N : InformNames[i] \in STRING
      BY <1>5, RpcAssumption
    <3>2. \A x \in STRING : <<x, EmptyText>> \in E
      OBVIOUS
    <3> HIDE DEF E
    <3> QED BY <2>2, <3>1, <3>2, Zenon
  <2> HIDE DEF E
  <2> QED BY <1>5, <2>2, <2>3, <2>4
<1> HIDE DEF E
<1>8. PICK l : l = A \o B
  OBVIOUS
<1>9. l \in Seq(E) /\ Len(l) = M + N
      /\ (\A j \in 1..M : l[j] = A[j]) /\ (\A k \in 1..N : l[M + k] = B[k])
  <2>1. PICK a \in Seq(E) : a = A /\ Len(a) = M
    BY <1>4
  <2>2. PICK b \in Seq(E) : b = B /\ Len(b) = N
    BY <1>7
  <2>3. /\ a \o b \in Seq(E) /\ Len(a \o b) = Len(a) + Len(b)
        /\ \A j \in 1..Len(a) : (a \o b)[j] = a[j]
        /\ \A k \in 1..Len(b) : (a \o b)[Len(a) + k] = b[k]
    BY ConcatIs
  <2> QED BY <1>8, <2>1, <2>2, <2>3, Zenon
<1>10. \A i \in DOMAIN InformNames : l[Len(l) - Len(InformNames) + i][1] = InformNames[i]
  <2> TAKE i \in DOMAIN InformNames
  <2>1. i \in 1..N /\ Len(l) - Len(InformNames) = M
    BY <1>2, <1>5, <1>9
  <2>2. l[M + i] = <<InformNames[i], EmptyText>>
    BY <1>7, <1>9, <2>1
  <2> QED BY <2>1, <2>2
<1>11. \A i \in DOMAIN l : l[i][2] # EmptyText => l[i][1] = "M Reboot"
  <2> TAKE i \in DOMAIN l
  <2>1. DOMAIN l = 1..(M + N)
    BY <1>9
  <2>2. CASE i \in 1..M
    BY <1>4, <1>9, <2>2
  <2>3. CASE i \notin 1..M
    <3>1. i - M \in 1..N /\ M + (i - M) = i
      BY <1>2, <1>5, <2>1, <2>3
    <3>2. l[i] = <<InformNames[i - M], EmptyText>>
      BY <1>7, <1>9, <3>1
    <3>3. \A x : <<x, EmptyText>>[2] = EmptyText
      OBVIOUS
    <3> QED BY <3>2, <3>3, Zenon
  <2> QED BY <2>2, <2>3
<1>12. InformTrue(l)
  BY <1>10, <1>11, InformListed, Zenon DEF InformTrue
<1>13. PICK a : a = [kind |-> "Inform", id |-> "own", list |-> l]
  OBVIOUS
<1>14. InformMessage(events) = a
  BY <1>3, <1>6, <1>8, <1>13, Zenon DEF InformMessage
<1>15. a.kind = "Inform" /\ a.id = "own" /\ a.list = l
  BY <1>13
<1>16. Answers(ps, q, a)
  BY <1>12, <1>15 DEF Answers, Own, Apart
<1> QED BY <1>14, <1>15, <1>16 DEF AnswersAtFirst

\* cwmp_parse_addobject_message: it dies only of an object without children.
LEMMA ObjectAnswers ==
  ASSUME TreeInv, NEW q, q.header \in Headers, q.path \in SearchPaths \cup {NoPath}
  PROVE  /\ q.method = "AddObject" => AnswersAtFirst(params, q, AddObject(q.header, q.path))
         /\ q.method = "DeleteObject" => AnswersAtFirst(params, q, DeleteObject(q.header, q.path))
<1>1. AnswersAtFirst(params, q, FaultAnswer(q.header, 9005))
  <2>1. "Fault" \notin Apart
    BY DEF Apart
  <2>2. \A l : AnswersAtFirst(params, q, Answer("Fault", q.header, l))
    BY <2>1, KindAnswers
  <2> DEFINE l == << <<NoPath, 9005>> >>
  <2>3. FaultAnswer(q.header, 9005) = Answer("Fault", q.header, l)
    BY DEF FaultAnswer
  <2> HIDE DEF l
  <2> QED BY <2>2, <2>3
<1> DEFINE n == IF q.path = NoPath THEN NoParam ELSE cwmp_get_parameter_path_node(params, q.path)
<1>4. AddObject(q.header, q.path) =
        IF n # NoParam /\ params[n].object /\ params[n].rw = 1 /\ params[n].child = NoParam
        THEN Died ELSE FaultAnswer(q.header, 9005)
  BY DEF AddObject
<1>2. n = IF q.path = NoPath THEN NoParam ELSE cwmp_get_parameter_path_node(params, q.path)
  OBVIOUS
<1> HIDE DEF n
<1>3. n # NoParam => n \in NodesOf(params)
  <2>1. CASE q.path = NoPath
    BY <1>2, <2>1
  <2>2. CASE q.path # NoPath
    <3>1. q.path \in Seq(STRING)
      BY <2>2, TreeAssumption
    <3>2. n = cwmp_get_parameter_path_node(params, q.path)
      BY <1>2, <2>2
    <3> QED BY <3>1, <3>2, NodeFound
  <2> QED BY <2>1, <2>2
<1>5. ASSUME q.method = "AddObject", n # NoParam, params[n].rw = 1, params[n].child = NoParam
      PROVE  AnswersAtFirst(params, q, Died)
  <2>1. n \in DOMAIN params
    BY <1>3, <1>5, PointersAre DEF TreeInv, Walkable
  <2>2. Deadly(params, q)
    BY <1>5, <2>1, Zenon DEF Deadly
  <2> QED BY <2>2, DiedAnswers
<1>6. q.method = "AddObject" => AnswersAtFirst(params, q, AddObject(q.header, q.path))
  <2> SUFFICES ASSUME q.method = "AddObject"
               PROVE  AnswersAtFirst(params, q, AddObject(q.header, q.path))
    OBVIOUS
  <2>1. CASE n # NoParam /\ params[n].object /\ params[n].rw = 1 /\ params[n].child = NoParam
    <3>1. AddObject(q.header, q.path) = Died
      BY <1>4, <2>1
    <3> QED BY <1>5, <2>1, <3>1
  <2>2. CASE ~(n # NoParam /\ params[n].object /\ params[n].rw = 1 /\ params[n].child = NoParam)
    <3>1. AddObject(q.header, q.path) = FaultAnswer(q.header, 9005)
      BY <1>4, <2>2
    <3> QED BY <1>1, <3>1
  <2> QED BY <2>1, <2>2
<1>7. DeleteObject(q.header, q.path) = FaultAnswer(q.header, 9005)
  BY DEF DeleteObject
<1> QED BY <1>1, <1>6, <1>7

LEMMA NamesAnswers ==
  ASSUME NEW q, q.header \in Headers, q.method = "GetParameterNames", NEW next
  PROVE  AnswersAtFirst(params, q, GetParameterNames(q.header, q.path, next))
<1>1. PICK n : n = cwmp_get_parameter_path_node(params, q.path)
  OBVIOUS
<1>2. PICK l : l = NamesListed(q.path, next, n)
  OBVIOUS
<1>3. GetParameterNames(q.header, q.path, next) =
        IF q.path = NoPath THEN Died
        ELSE IF n = NoParam THEN Nothing
        ELSE Answer("GetParameterNamesResponse", q.header, l)
  BY <1>1, <1>2, Zenon DEF GetParameterNames
<1>4. q.path = NoPath => AnswersAtFirst(params, q, Died)
  <2>1. q.path = NoPath => Deadly(params, q)
    BY Zenon DEF Deadly
  <2> QED BY <2>1, DiedAnswers
<1>5. AnswersAtFirst(params, q, Nothing)
  BY NothingAnswers
<1>6. AnswersAtFirst(params, q, Answer("GetParameterNamesResponse", q.header, l))
  <2>1. "GetParameterNamesResponse" \notin Apart
        /\ "GetParameterNamesResponse" # "GetParameterValuesResponse"
        /\ ResponseTo[q.method] = "GetParameterNamesResponse"
    BY DEF Apart, ResponseTo
  <2> QED BY <2>1, KindAnswers
<1> QED BY <1>3, <1>4, <1>5, <1>6, Zenon

LEMMA SetAnswers ==
  ASSUME NEW q, q.header \in Headers, q.method = "SetParameterValues", NEW items, NEW pick
  PROVE  AnswersAtFirst(params, q, SetAnswer(q.header, items, pick))
<1>1. \A l : AnswersAtFirst(params, q, Answer("Fault", q.header, l))
  <2>1. "Fault" \notin Apart
    BY DEF Apart
  <2> QED BY <2>1, KindAnswers
<1>2. \A l : AnswersAtFirst(params, q, Answer("SetParameterValuesResponse", q.header, l))
  <2>1. "SetParameterValuesResponse" \notin Apart
        /\ "SetParameterValuesResponse" # "GetParameterValuesResponse"
        /\ ResponseTo[q.method] = "SetParameterValuesResponse"
    BY DEF Apart, ResponseTo
  <2> QED BY <2>1, KindAnswers
<1> DEFINE codes == SetCodes(items, pick)
           bad == \E j \in DOMAIN codes : codes[j][2] # 0
           listed == << <<NoPath, 9003>> >> \o SubSeq(codes, 1, Readable(Len(codes)))
           status == <<IF 0 = 0 THEN 0 ELSE 1>>
<1>3. SetAnswer(q.header, items, pick) =
        IF bad THEN Answer("Fault", q.header, listed)
        ELSE Answer("SetParameterValuesResponse", q.header, status)
  BY DEF SetAnswer, StatusAnswer
<1> HIDE DEF bad, listed, status
<1>4. CASE bad
  BY <1>1, <1>3, <1>4
<1>5. CASE ~bad
  BY <1>2, <1>3, <1>5
<1> QED BY <1>4, <1>5

LEMMA FaultAnswers ==
  ASSUME NEW q, q.header \in Headers
  PROVE  \A l : AnswersAtFirst(params, q, Answer("Fault", q.header, l))
<1>1. "Fault" \notin Apart
  BY DEF Apart
<1> QED BY <1>1, KindAnswers

LEMMA NoListAnswers ==
  ASSUME NEW q, q.header \in Headers, q.method \in {"GetParameterValues", "SetParameterValues"},
         q.names = NoList,
         NEW a \in {Died, Answer(IF q.method = "SetParameterValues" THEN "Fault"
                                 ELSE "GetParameterValuesResponse", q.header, <<>>)}
  PROVE  AnswersAtFirst(params, q, a)
<1>1. AnswersAtFirst(params, q, Died)
  BY DiedAnswers, Zenon DEF Deadly
<1>2. \A l : AnswersAtFirst(params, q, Answer("Fault", q.header, l))
  BY FaultAnswers
<1>3. q.method = "GetParameterValues" =>
        AnswersAtFirst(params, q, Answer("GetParameterValuesResponse", q.header, <<>>))
  <2>1. q.method = "GetParameterValues" => AnswersAtFirst(params, q, ValuesAnswer(q.header, <<>>))
    BY ValuesAnswers, Zenon
  <2> QED BY <2>1, Zenon DEF ValuesAnswer
<1> QED BY <1>1, <1>2, <1>3, Zenon

LEMMA OneOffAnswers ==
  ASSUME NEW q, q.header \in Headers, q.method \in OneOff
  PROVE  AnswersAtFirst(params, q, OneOffAnswer(q.method, q.header))
<1>1. q.method \in {"GetRPCMethods", "Download", "Upload", "Reboot", "FactoryReset"}
  BY DEF OneOff
<1>2. CASE q.method = "GetRPCMethods"
  <2>1. ResponseTo[q.method] = "GetRPCMethodsResponse" /\ "GetRPCMethodsResponse" \notin Apart
    BY <1>2 DEF ResponseTo, Apart
  <2>2. OneOffAnswer(q.method, q.header) = Answer("GetRPCMethodsResponse", q.header, rpc_methods)
    BY <1>2 DEF OneOffAnswer, cwmp_create_getrpcmethods_response_message
  <2>3. \A l : AnswersAtFirst(params, q, Answer("GetRPCMethodsResponse", q.header, l))
    BY <2>1, KindAnswers
  <2> QED BY <2>2, <2>3
<1>3. CASE q.method = "Download"
  <2>1. ResponseTo[q.method] = "DownloadResponse" /\ "DownloadResponse" \notin Apart
    BY <1>3 DEF ResponseTo, Apart
  <2>2. OneOffAnswer(q.method, q.header) = Answer("DownloadResponse", q.header, <<1>>)
    BY <1>3 DEF OneOffAnswer, cwmp_create_download_response_message
  <2>3. \A l : AnswersAtFirst(params, q, Answer("DownloadResponse", q.header, l))
    BY <2>1, KindAnswers
  <2> QED BY <2>2, <2>3
<1>4. CASE q.method = "Upload"
  <2>1. OneOffAnswer(q.method, q.header) = Died
    BY <1>4 DEF OneOffAnswer, cwmp_parse_upload_message
  <2>2. Deadly(params, q)
    BY <1>4, Zenon DEF Deadly
  <2> QED BY <2>1, <2>2, DiedAnswers
<1>5. CASE q.method \in {"Reboot", "FactoryReset"}
  <2>1. ResponseTo[q.method] \notin Apart /\ ResponseTo[q.method] # "GetParameterValuesResponse"
    BY <1>5 DEF ResponseTo, Apart
  <2>2. OneOffAnswer(q.method, q.header) = Answer(ResponseTo[q.method], q.header, <<>>)
    BY <1>5 DEF OneOffAnswer, EmptyResponse
  <2>3. PICK k : k = ResponseTo[q.method]
    OBVIOUS
  <2>4. k \in {ResponseTo[q.method], "Fault"} /\ k \notin Apart /\ k # "GetParameterValuesResponse"
    BY <2>1, <2>3
  <2>5. \A l : AnswersAtFirst(params, q, Answer(k, q.header, l))
    BY <2>4, KindAnswers
  <2> QED BY <2>2, <2>3, <2>5
<1> QED BY <1>1, <1>2, <1>3, <1>4, <1>5

RpcInv ==
  /\ TreeInv
  /\ tasks \in Seq(Task) /\ served \in Seq(ServedDoc) /\ Backed(tasks, served)
  /\ Answers(params, asked, answer)

\* What a document adds to the queue.
Queued(m, address) ==
  LET d == <<m, IF m = "Download" THEN address ELSE EmptyText>>
  IN  IF m \in DOMAIN Tags THEN <<TaskOf(d)>> ELSE <<>>

\* The end of agent_analyse_session, whatever came before.
LEMMA ToldKeeps ==
  ASSUME RpcInv, NEW m \in Methods, NEW h, NEW args, NEW a, Told(m, h, args, a),
         NEW address, m = "Download" => address = args.texts[1] /\ address \in FileUrls,
         tasks' = tasks \o Queued(m, address),
         \A q : q.method = m /\ q.header = h /\ q.path = args.path /\ q.names = args.names =>
                  AnswersAtFirst(params, q, a)
  PROVE  RpcInv'
<1>1. /\ asked' = [method |-> m, header |-> h, path |-> args.path,
                   next |-> args.next, names |-> args.names, texts |-> args.texts,
                way |-> args.way]
      /\ answer' = Checked(a)
      /\ served' = Append(served, <<m, IF m = "Download" THEN args.texts[1] ELSE EmptyText>>)
      /\ params' = params
  BY DEF Told, treeVars
<1>2. PICK q : q = asked'
  OBVIOUS
<1>3. q.method = m /\ q.header = h /\ q.path = args.path /\ q.names = args.names
  BY <1>1, <1>2
<1>4. Answers(params, q, Checked(a))
  BY <1>3, CheckedAnswers
<1>5. PICK text : text = IF m = "Download" THEN address ELSE EmptyText
  OBVIOUS
<1>6. text \in FileUrls \cup {EmptyText}
  BY <1>5
<1>7. PICK d : d = <<m, text>>
  OBVIOUS
<1>8. d \in ServedDoc /\ d[1] = m /\ d[2] = text
  BY <1>6, <1>7 DEF ServedDoc
<1>9. served' = Append(served, d)
  BY <1>1, <1>5, <1>7
<1>10. PICK more : more = Queued(m, address)
  OBVIOUS
<1>11. more = IF d[1] \in DOMAIN Tags THEN <<TaskOf(d)>> ELSE <<>>
  BY <1>5, <1>7, <1>8, <1>10 DEF Queued
<1>12. d[1] \in DOMAIN Tags => TaskOf(d) \in Task
  <2> SUFFICES ASSUME d[1] \in DOMAIN Tags PROVE TaskOf(d) \in Task
    OBVIOUS
  <2>1. Tags[d[1]] \in {"download", "reboot", "factoryreset"}
    BY DEF Tags
  <2>2. PICK x \in FileUrls \cup {NoUrl} : x = IF d[2] = EmptyText THEN NoUrl ELSE d[2]
    BY <1>6, <1>8
  <2>3. TaskOf(d) = <<Tags[d[1]], x>>
    BY <2>2 DEF TaskOf
  <2> QED BY <2>1, <2>2, <2>3 DEF Task
<1>13. PICK ts : ts = tasks
  OBVIOUS
<1>14. PICK s : s = served
  OBVIOUS
<1>15. ts \in Seq(Task) /\ s \in Seq(ServedDoc) /\ Backed(ts, s)
  BY <1>13, <1>14 DEF RpcInv
<1>16. ts \o more \in Seq(Task) /\ Append(s, d) \in Seq(ServedDoc) /\ Backed(ts \o more, Append(s, d))
  BY <1>8, <1>11, <1>12, <1>15, BackedOn
<1>17. tasks' = ts \o more /\ served' = Append(s, d)
  BY <1>9, <1>10, <1>13, <1>14
<1>18. TreeInv'
  BY <1>1, Zenon DEF RpcInv, TreeInv
<1> QED BY <1>1, <1>2, <1>4, <1>16, <1>17, <1>18, Zenon DEF RpcInv

LEMMA OneOffKeeps ==
  ASSUME RpcInv, NEW m \in OneOff, NEW h \in Headers, NEW address \in FileUrls, AnalyseOneOff(m, h, address)
  PROVE  RpcInv'
<1>1. m \in Methods
  BY DEF Methods
<1>2. PICK args : args = IF m = "Download" THEN Args(NoPath, FALSE, <<>>, <<address>>, <<>>) ELSE NoArgs
  OBVIOUS
<1>3. Told(m, h, args, OneOffAnswer(m, h)) /\ tasks' = tasks \o OneOffTask(m, address)
  BY <1>2, Zenon DEF AnalyseOneOff
<1>4. m = "Download" => address = args.texts[1]
  BY <1>2 DEF Args
<1>5. OneOffTask(m, address) = Queued(m, address)
  <2>1. m \in {"GetRPCMethods", "Download", "Upload", "Reboot", "FactoryReset"}
    BY DEF OneOff
  <2>2. DOMAIN Tags = {"Download", "Reboot", "FactoryReset"} /\ Tags["Download"] = "download"
    BY DEF Tags
  <2>3. CASE m = "Download"
    <3>1. Queued(m, address) = << <<"download", IF address = EmptyText THEN NoUrl ELSE address>> >>
      BY <2>2, <2>3 DEF Queued, TaskOf
    <3>2. OneOffTask(m, address) = << <<"download", IF address = EmptyText THEN NoUrl ELSE address>> >>
      BY <2>3 DEF OneOffTask, cwmp_clone_download_arg, cwmp_parse_download_message
    <3> QED BY <3>1, <3>2
  <2>4. CASE m \in {"Reboot", "FactoryReset"}
    <3>1. Queued(m, address) = << <<Tags[m], NoUrl>> >>
      BY <2>2, <2>4 DEF Queued, TaskOf
    <3>2. OneOffTask(m, address) = << <<Tags[m], NoUrl>> >>
      BY <2>4 DEF OneOffTask
    <3> QED BY <3>1, <3>2
  <2>5. CASE m \in {"GetRPCMethods", "Upload"}
    <3>1. Queued(m, address) = <<>>
      BY <2>2, <2>5 DEF Queued
    <3>2. OneOffTask(m, address) = <<>>
      BY <2>5 DEF OneOffTask
    <3> QED BY <3>1, <3>2
  <2> QED BY <2>1, <2>3, <2>4, <2>5
<1>6. \A q : q.method = m /\ q.header = h => AnswersAtFirst(params, q, OneOffAnswer(m, h))
  BY OneOffAnswers
<1>7. PICK a : a = OneOffAnswer(m, h)
  OBVIOUS
<1>8. Told(m, h, args, a) /\ tasks' = tasks \o Queued(m, address)
  BY <1>3, <1>5, <1>7, Zenon
<1>9. \A q : q.method = m /\ q.header = h /\ q.path = args.path /\ q.names = args.names =>
               AnswersAtFirst(params, q, a)
  BY <1>6, <1>7, Zenon
<1>10. m = "Download" => address = args.texts[1] /\ address \in FileUrls
  BY <1>4
<1>11. RpcInv
  OBVIOUS
<1> QED BY <1>1, <1>8, <1>9, <1>10, <1>11, ToldKeeps

\* A document that queues nothing.
LEMMA OthersKeep ==
  ASSUME RpcInv, NEW m \in Methods, m \notin DOMAIN Tags, NEW h, NEW args, NEW a, Told(m, h, args, a),
         tasks' = tasks,
         \A q : q.method = m /\ q.header = h /\ q.path = args.path /\ q.names = args.names =>
                  AnswersAtFirst(params, q, a)
  PROVE  RpcInv'
<1>1. Queued(m, EmptyText) = <<>>
  BY DEF Queued
<1>2. tasks \o <<>> = tasks
  <2>1. PICK ts : ts = tasks
    OBVIOUS
  <2>2. PICK T : T = Task
    OBVIOUS
  <2>3. ts \in Seq(T)
    BY <2>1, <2>2 DEF RpcInv
  <2> QED BY <2>1, <2>3, ConcatEmptySeq
<1>3. m # "Download"
  BY DEF Tags
<1>4. tasks' = tasks \o Queued(m, EmptyText)
  BY <1>1, <1>2
<1> QED BY <1>3, <1>4, ToldKeeps

LEMMA NoTags == DOMAIN Tags = {"Download", "Reboot", "FactoryReset"}
BY DEF Tags

LEMMA RpcStarts == RpcInit => RpcInv
<1> SUFFICES ASSUME RpcInit PROVE RpcInv
  OBVIOUS
<1>1. TreeInv /\ tasks = <<>> /\ served = <<>> /\ answer = Nothing
  BY TreeStarts DEF RpcInit
<1>2. Answers(params, asked, Nothing)
  BY NothingAnswers
<1>3. <<>> \in Seq(Task) /\ <<>> \in Seq(ServedDoc)
  OBVIOUS
<1>4. Backed(<<>>, <<>>)
  BY NothingPromised DEF Backed
<1> QED BY <1>1, <1>2, <1>3, <1>4, Zenon DEF RpcInv

\* A step of the tree's own edits, with no answer to keep.
LEMMA EditKeeps ==
  ASSUME RpcInv, TreeInv', answer' = Nothing, asked' = asked, tasks' = tasks, served' = served
  PROVE  RpcInv'
<1>1. PICK q : q = params'
  OBVIOUS
<1>2. Answers(q, asked, Nothing)
  BY NothingAnswers
<1>3. Answers(params', asked', answer')
  BY <1>1, <1>2
<1> QED BY <1>3, Zenon DEF RpcInv

LEMMA RpcSteps == RpcInv /\ RpcNext => RpcInv'
<1> SUFFICES ASSUME RpcInv, RpcNext PROVE RpcInv'
  OBVIOUS
<1>1. ASSUME NEW h \in Headers, NEW m \in Silent, AnalyseSilent(m, h)
      PROVE  RpcInv'
  <2>1. m \in Methods /\ m \notin DOMAIN Tags
    BY NoTags DEF Methods, Silent
  <2>2. \A q : q.method = m => AnswersAtFirst(params, q, Nothing)
    BY NothingAnswers
  <2>3. Told(m, h, NoArgs, Nothing) /\ tasks' = tasks
    BY <1>1 DEF AnalyseSilent
  <2> QED BY <2>1, <2>2, <2>3, OthersKeep
<1>2. ASSUME NEW h \in Headers, NEW p, NEW next, AnalyseNames(h, p, next)
      PROVE  RpcInv'
  <2>1. "GetParameterNames" \in Methods /\ "GetParameterNames" \notin DOMAIN Tags
    BY NoTags DEF Methods
  <2>2. \A q : q.method = "GetParameterNames" /\ q.header = h /\ q.path = p =>
                 AnswersAtFirst(params, q, GetParameterNames(h, p, next))
    BY NamesAnswers
  <2>3. PICK args : args = Args(p, next, <<>>, <<>>, <<>>)
    OBVIOUS
  <2>4. Told("GetParameterNames", h, args, GetParameterNames(h, p, next)) /\ tasks' = tasks
    BY <1>2, <2>3 DEF AnalyseNames
  <2>5. args.path = p
    BY <2>3 DEF Args
  <2> QED BY <2>1, <2>2, <2>4, <2>5, OthersKeep
<1>3. ASSUME NEW h \in Headers, NEW p \in SearchPaths \cup {NoPath}, AnalyseObject(h, p)
      PROVE  RpcInv'
  <2>1. /\ "AddObject" \in Methods /\ "AddObject" \notin DOMAIN Tags
        /\ "DeleteObject" \in Methods /\ "DeleteObject" \notin DOMAIN Tags
    BY NoTags DEF Methods
  <2>2. TreeInv
    BY DEF RpcInv
  <2>3. /\ \A q : q.method = "AddObject" /\ q.header = h /\ q.path = p =>
                    AnswersAtFirst(params, q, AddObject(h, p))
        /\ \A q : q.method = "DeleteObject" /\ q.header = h /\ q.path = p =>
                    AnswersAtFirst(params, q, DeleteObject(h, p))
    BY <2>2, ObjectAnswers
  <2>4. PICK args : args = Args(p, FALSE, <<>>, <<>>, <<>>)
    OBVIOUS
  <2>5. args.path = p
    BY <2>4 DEF Args
  <2>6. tasks' = tasks /\ \/ Told("AddObject", h, args, AddObject(h, p))
                          \/ Told("DeleteObject", h, args, DeleteObject(h, p))
    BY <1>3, <2>4 DEF AnalyseObject
  <2>7. CASE Told("AddObject", h, args, AddObject(h, p))
    BY <2>1, <2>3, <2>5, <2>6, <2>7, OthersKeep
  <2>8. CASE Told("DeleteObject", h, args, DeleteObject(h, p))
    BY <2>1, <2>3, <2>5, <2>6, <2>8, OthersKeep
  <2> QED BY <2>6, <2>7, <2>8
<1>4. ASSUME NEW h \in Headers, NEW l \in AskedLists, AnalyseGet(h, l)
      PROVE  RpcInv'
  <2>1. "GetParameterValues" \in Methods /\ "GetParameterValues" \notin DOMAIN Tags
    BY NoTags DEF Methods
  <2>2. PICK pick : Told("GetParameterValues", h, Args(NoPath, FALSE, l, <<>>, pick),
                         GetParameterValues(h, l, pick))
    BY <1>4 DEF AnalyseGet
  <2>3. l \in Seq(Seq(STRING))
    BY RpcAssumption
  <2>4. \A q : q.method = "GetParameterValues" /\ q.header = h /\ q.names = l =>
                 AnswersAtFirst(params, q, GetParameterValues(h, l, pick))
    BY <2>3, GetAnswers
  <2>5. PICK args : args = Args(NoPath, FALSE, l, <<>>, pick)
    OBVIOUS
  <2>6. args.names = l
    BY <2>5 DEF Args
  <2>7. tasks' = tasks
    BY <1>4 DEF AnalyseGet
  <2> QED BY <2>1, <2>2, <2>4, <2>5, <2>6, <2>7, OthersKeep
<1>5. ASSUME NEW h \in Headers, NEW l \in SetLists, AnalyseSet(h, l)
      PROVE  RpcInv'
  <2>1. "SetParameterValues" \in Methods /\ "SetParameterValues" \notin DOMAIN Tags
    BY NoTags DEF Methods
  <2>2. PICK pick, args : Told("SetParameterValues", h, args, SetAnswer(h, l, pick))
    BY <1>5, Zenon DEF AnalyseSet
  <2>3. \A q : q.method = "SetParameterValues" /\ q.header = h =>
                 AnswersAtFirst(params, q, SetAnswer(h, l, pick))
    BY SetAnswers
  <2>4. tasks' = tasks
    BY <1>5 DEF AnalyseSet
  <2> QED BY <2>1, <2>2, <2>3, <2>4, OthersKeep
<1>6. ASSUME NEW h \in Headers, NEW m \in {"GetParameterValues", "SetParameterValues"},
             AnalyseNoList(m, h)
      PROVE  RpcInv'
  <2>1. m \in Methods /\ m \notin DOMAIN Tags
    BY NoTags DEF Methods
  <2>2. PICK a \in {Died, Answer(IF m = "SetParameterValues" THEN "Fault"
                                 ELSE "GetParameterValuesResponse", h, <<>>)} :
          Told(m, h, Args(NoPath, FALSE, NoList, <<>>, <<>>), a)
    BY <1>6 DEF AnalyseNoList
  <2>3. \A q : q.method = m /\ q.header = h /\ q.names = NoList => AnswersAtFirst(params, q, a)
    BY <2>2, NoListAnswers
  <2>4. PICK args : args = Args(NoPath, FALSE, NoList, <<>>, <<>>)
    OBVIOUS
  <2>5. args.names = NoList
    BY <2>4 DEF Args
  <2>6. tasks' = tasks
    BY <1>6 DEF AnalyseNoList
  <2> QED BY <2>1, <2>2, <2>3, <2>4, <2>5, <2>6, OthersKeep
<1>7. ASSUME NEW evs \in EventLists, AgentInforms(evs)
      PROVE  RpcInv'
  <2>1. "Inform" \in Methods /\ "Inform" \notin DOMAIN Tags
    BY NoTags DEF Methods
  <2>2. \A q : AnswersAtFirst(params, q, InformMessage(evs))
    BY InformAnswers
  <2>3. Told("Inform", NoHeader, NoArgs, InformMessage(evs)) /\ tasks' = tasks
    BY <1>7 DEF AgentInforms
  <2> QED BY <2>1, <2>2, <2>3, OthersKeep
<1>8. ASSUME NEW code, TransferEnds(code)
      PROVE  RpcInv'
  <2>1. /\ params' = params /\ asked' = asked /\ answer' = answer
        /\ tasks' = tasks /\ served' = served
    BY <1>8 DEF TransferEnds, treeVars
  <2> QED BY <2>1, Zenon DEF RpcInv, TreeInv
<1>9. CASE EditTree
  <2>1. TreeNext /\ answer' = Nothing /\ asked' = asked /\ tasks' = tasks /\ served' = served
    BY <1>9 DEF EditTree
  <2>2. TreeInv'
    BY <2>1, TreeSteps, Zenon DEF RpcInv
  <2> QED BY <2>1, <2>2, EditKeeps
<1>10. \/ \E h \in Headers :
             \/ \E m \in OneOff, address \in FileUrls : AnalyseOneOff(m, h, address)
             \/ \E m \in Silent : AnalyseSilent(m, h)
             \/ \E p \in SearchPaths \cup {NoPath} :
                  (\E next \in BOOLEAN : AnalyseNames(h, p, next)) \/ AnalyseObject(h, p)
             \/ \E l \in AskedLists : AnalyseGet(h, l)
             \/ \E l \in SetLists : AnalyseSet(h, l)
             \/ \E m \in {"GetParameterValues", "SetParameterValues"} : AnalyseNoList(m, h)
       \/ \E evs \in EventLists : AgentInforms(evs)
       \/ \E code : TransferEnds(code)
       \/ EditTree
  BY DEF RpcNext
<1>11. ASSUME NEW h \in Headers,
              \/ \E m \in OneOff, address \in FileUrls : AnalyseOneOff(m, h, address)
              \/ \E m \in Silent : AnalyseSilent(m, h)
              \/ \E p \in SearchPaths \cup {NoPath} :
                   (\E next \in BOOLEAN : AnalyseNames(h, p, next)) \/ AnalyseObject(h, p)
              \/ \E l \in AskedLists : AnalyseGet(h, l)
              \/ \E l \in SetLists : AnalyseSet(h, l)
              \/ \E m \in {"GetParameterValues", "SetParameterValues"} : AnalyseNoList(m, h)
       PROVE  RpcInv'
  <2>1. CASE \E m \in OneOff, address \in FileUrls : AnalyseOneOff(m, h, address)
    BY <2>1, OneOffKeeps, Zenon
  <2>2. CASE \E m \in Silent : AnalyseSilent(m, h)
    BY <1>1, <2>2, Zenon
  <2>3. CASE \E p \in SearchPaths \cup {NoPath} :
               (\E next \in BOOLEAN : AnalyseNames(h, p, next)) \/ AnalyseObject(h, p)
    BY <1>2, <1>3, <2>3, Zenon
  <2>4. CASE \E l \in AskedLists : AnalyseGet(h, l)
    BY <1>4, <2>4, Zenon
  <2>5. CASE \E l \in SetLists : AnalyseSet(h, l)
    BY <1>5, <2>5, Zenon
  <2>6. CASE \E m \in {"GetParameterValues", "SetParameterValues"} : AnalyseNoList(m, h)
    BY <1>6, <2>6, Zenon
  <2> QED BY <1>11, <2>1, <2>2, <2>3, <2>4, <2>5, <2>6, Zenon
<1> QED BY <1>7, <1>8, <1>9, <1>10, <1>11, Zenon

----------------------------------------------------------------------------
(* The values answered to GetParameterValues.                              *)

\* The nodes of the tree ps with that name, and ValuesAsAsked of the answer a to
\* q when the values are pt.
NamedIn(ps, name) ==
  {n \in Params : \E s \in {s \in RoutesBelow(ps, RootParam) : NameOf(ps, s) = name} : Last(s) = n}
ValuesOf(ps, pt, q, a) ==
  a.kind = "GetParameterValuesResponse" /\ q.names # NoList =>
    /\ IsPrefix([i \in DOMAIN a.list |-> a.list[i][1]], q.names)
    /\ \A i \in DOMAIN q.names :
         (\A j \in 1..i : q.way[j] \in NamedIn(ps, q.names[j])) =>
            /\ i \in DOMAIN a.list
            /\ \E n \in NamedIn(ps, q.names[i]) : a.list[i][2] = pt[n]
    /\ \A i \in DOMAIN a.list : q.way[i] # NoParam

LEMMA ValuesAre ==
  /\ ValuesAsAsked <=> ValuesOf(params, paramText, asked, answer)
  /\ ValuesAsAsked' <=> ValuesOf(params', paramText', asked', answer')
<1>1. ValuesAsAsked <=> ValuesOf(params, paramText, asked, answer)
  BY Zenon DEF ValuesAsAsked, ValuesOf, NamedBy, NamedIn
<1>2. ValuesAsAsked' <=> ValuesOf(params', paramText', asked', answer')
  BY Zenon DEF ValuesAsAsked, ValuesOf, NamedBy, NamedIn
<1> QED BY <1>1, <1>2

\* The parts of cwmp_parse_getparametervalues_message: list is the beginning of
\* what was asked, with the values of the nodes met.
LEMMA ListOfValues ==
  ASSUME NEW S, NEW names \in Seq(S), NEW ps, NEW pt, NEW q, NEW a,
         q.names = names,
         a.list = [i \in 1..CutAt(names, q.way) |-> <<names[i], pt[q.way[i]]>>]
  PROVE  ValuesOf(ps, pt, q, a)
<1>1. PICK k : k = CutAt(names, q.way)
  OBVIOUS
<1>2. PICK pick : pick = q.way
  OBVIOUS
<1>3. k \in 0..Len(names) /\ (\A i \in 1..k : pick[i] # NoParam)
      /\ (k < Len(names) => pick[k + 1] = NoParam)
  <2>1. /\ CutAt(names, pick) \in 0..Len(names)
        /\ \A i \in 1..CutAt(names, pick) : pick[i] # NoParam
        /\ CutAt(names, pick) < Len(names) => pick[CutAt(names, pick) + 1] = NoParam
    BY CutEnds
  <2>2. k = CutAt(names, pick)
    BY <1>1, <1>2
  <2> QED BY <2>1, <2>2
<1>4. PICK list : list = [i \in 1..k |-> <<names[i], pt[pick[i]]>>]
  OBVIOUS
<1>5. DOMAIN list = 1..k /\ \A i \in 1..k : list[i][1] = names[i] /\ list[i][2] = pt[pick[i]]
  BY <1>4
<1>6. a.list = list
  BY <1>1, <1>2, <1>4
<1>7. IsPrefix([i \in DOMAIN list |-> list[i][1]], names)
  <2>1. PICK p : p = [i \in DOMAIN list |-> list[i][1]]
    OBVIOUS
  <2>2. p = [i \in 1..k |-> names[i]]
    BY <1>5, <2>1
  <2>3. IsPrefix(p, names)
    BY <1>3, <2>2, PrefixIs
  <2> QED BY <2>1, <2>3
<1>8. ASSUME NEW name, NEW n \in NamedIn(ps, name)
      PROVE  n # NoParam
  BY TreeAssumption DEF NamedIn, Params, NoParam
<1>9. ASSUME NEW i \in DOMAIN names, \A j \in 1..i : pick[j] \in NamedIn(ps, names[j])
      PROVE  i \in DOMAIN list /\ \E n \in NamedIn(ps, names[i]) : list[i][2] = pt[n]
  <2>1. PICK l \in Nat : l = Len(names) /\ DOMAIN names = 1..l
    OBVIOUS
  <2>2. i \in 1..l /\ i \in 1..i
    BY <2>1
  <2>3. \A j \in 1..i : pick[j] # NoParam
    BY <1>8, <1>9, Zenon
  <2>4. k \in 0..l /\ (k < l => pick[k + 1] = NoParam)
    BY <1>3, <2>1
  <2>5. k < i => k + 1 \in 1..i /\ k < l
    BY <2>1, <2>2, <2>4
  <2>6. i \in 1..k
    BY <2>1, <2>2, <2>3, <2>4, <2>5
  <2>7. pick[i] \in NamedIn(ps, names[i]) /\ list[i][2] = pt[pick[i]]
    BY <1>5, <1>9, <2>2, <2>6
  <2> QED BY <1>5, <2>6, <2>7
<1>10. \A i \in DOMAIN list : pick[i] # NoParam
  BY <1>3, <1>5
<1> QED BY <1>2, <1>6, <1>7, <1>9, <1>10, Zenon DEF ValuesOf

\* What is told of another kind has nothing to keep.
LEMMA OtherKind ==
  ASSUME NEW m, NEW h, NEW args, NEW a, Told(m, h, args, a),
         a.kind # "GetParameterValuesResponse" \/ args.names = NoList
  PROVE  ValuesAsAsked'
<1>1. PICK q : q = asked'
  OBVIOUS
<1>2. q = [method |-> m, header |-> h, path |-> args.path, next |-> args.next,
           names |-> args.names, texts |-> args.texts, way |-> args.way]
  BY <1>1 DEF Told
<1>3. q.names = args.names
  BY <1>2
<1>4. PICK r : r = answer'
  OBVIOUS
<1>5. r = Checked(a)
  BY <1>4, Zenon DEF Told
<1>6. r = a \/ r.kind = "TransferComplete"
  <2>1. PICK l : l = IF transfer = 0 THEN <<>> ELSE <<transfer>>
    OBVIOUS
  <2>2. PICK c : c = [kind |-> "TransferComplete", id |-> "own", list |-> l]
    OBVIOUS
  <2>3. r = c \/ r = a
    BY <1>5, <2>1, <2>2, Zenon DEF Checked
  <2>4. c.kind = "TransferComplete"
    BY <2>2
  <2> QED BY <2>3, <2>4
<1>7. a.kind # "GetParameterValuesResponse" => r.kind # "GetParameterValuesResponse"
  BY <1>6
<1>8. ValuesOf(params', paramText', q, r)
  BY <1>3, <1>7, Zenon DEF ValuesOf
<1> QED BY <1>1, <1>4, <1>8, ValuesAre, Zenon

LEMMA GetTells ==
  ASSUME NEW h, NEW l \in AskedLists, AnalyseGet(h, l)
  PROVE  ValuesAsAsked'
<1>1. PICK pick : Told("GetParameterValues", h, Args(NoPath, FALSE, l, <<>>, pick),
                       GetParameterValues(h, l, pick))
  BY Zenon DEF AnalyseGet
<1>2. PICK args : args = Args(NoPath, FALSE, l, <<>>, pick)
  OBVIOUS
<1>3. args.names = l /\ args.way = pick
  BY <1>2 DEF Args
<1>4. PICK k : k = CutAt(l, pick)
  OBVIOUS
<1>5. PICK list : list = [i \in 1..k |-> <<l[i], paramText[pick[i]]>>]
  OBVIOUS
<1>6. PICK a : a = GetParameterValues(h, l, pick)
  OBVIOUS
<1>7. a = Died \/ a = ValuesAnswer(h, list)
  BY <1>4, <1>5, <1>6, Zenon DEF GetParameterValues, CutAt
<1>8. Told("GetParameterValues", h, args, a)
  BY <1>1, <1>2, <1>6
<1>9. CASE a = Died
  <2>1. a.kind # "GetParameterValuesResponse"
    BY <1>9 DEF Died
  <2> QED BY <1>8, <2>1, OtherKind
<1>10. CASE a = ValuesAnswer(h, list)
  <2>1. a.kind = "GetParameterValuesResponse" /\ a.list = list
    BY <1>10 DEF ValuesAnswer, Answer
  <2>2. Checked(a) = a
    BY <2>1 DEF Checked
  <2>3. PICK q : q = asked'
    OBVIOUS
  <2>4. q = [method |-> "GetParameterValues", header |-> h, path |-> args.path,
             next |-> args.next, names |-> args.names, texts |-> args.texts, way |-> args.way]
    BY <1>8, <2>3, Zenon DEF Told
  <2>5. q.names = l /\ q.way = pick
    BY <1>3, <2>4
  <2>6. answer' = a /\ params' = params /\ paramText' = paramText
    <3>1. answer' = Checked(a) /\ UNCHANGED treeVars
      BY <1>8, Zenon DEF Told
    <3>2. UNCHANGED <<tasks, paramText>>
      BY Zenon DEF AnalyseGet
    <3> QED BY <2>2, <3>1, <3>2 DEF treeVars
  <2>7. PICK S : l \in Seq(S)
    BY RpcAssumption
  <2>8. a.list = [i \in 1..CutAt(l, q.way) |-> <<l[i], paramText[q.way[i]]>>]
    BY <1>4, <1>5, <2>1, <2>5
  <2>9. ValuesOf(params, paramText, q, a)
    BY <2>5, <2>7, <2>8, ListOfValues
  <2> QED BY <2>3, <2>6, <2>9, ValuesAre
<1> QED BY <1>7, <1>9, <1>10

LEMMA NothingToKeep == answer' = Nothing => ValuesAsAsked'
<1> SUFFICES ASSUME answer' = Nothing PROVE ValuesAsAsked'
  OBVIOUS
<1>1. Nothing.kind # "GetParameterValuesResponse"
  BY DEF Nothing
<1>2. PICK a : a = answer'
  OBVIOUS
<1>3. a.kind # "GetParameterValuesResponse"
  BY <1>1, <1>2
<1>4. ValuesOf(params', paramText', asked', a)
  BY <1>3, Zenon DEF ValuesOf
<1> QED BY <1>2, <1>4, ValuesAre, Zenon

LEMMA ValuesTold == ValuesAsAsked /\ RpcNext => ValuesAsAsked'
<1> SUFFICES ASSUME ValuesAsAsked, RpcNext PROVE ValuesAsAsked'
  OBVIOUS
<1> DEFINE V == "GetParameterValuesResponse"
<1>1. \A h, l : Answer("Fault", h, l).kind # V /\ Answer("SetParameterValuesResponse", h, l).kind # V
             /\ Answer("GetParameterNamesResponse", h, l).kind # V
             /\ Answer("GetRPCMethodsResponse", h, l).kind # V
             /\ Answer("DownloadResponse", h, l).kind # V
             /\ Answer("RebootResponse", h, l).kind # V
             /\ Answer("FactoryResetResponse", h, l).kind # V
  BY DEF Answer
<1>2. Died.kind # V /\ Nothing.kind # V
  BY DEF Died, Nothing
<1>3. ASSUME NEW h, NEW m \in OneOff, NEW address, AnalyseOneOff(m, h, address)
      PROVE  ValuesAsAsked'
  <2>1. PICK args : Told(m, h, args, OneOffAnswer(m, h))
    BY <1>3, Zenon DEF AnalyseOneOff
  <2>2. m \in {"GetRPCMethods", "Download", "Upload", "Reboot", "FactoryReset"}
    BY DEF OneOff
  <2>3. OneOffAnswer(m, h).kind # V
    <3>1. CASE m = "GetRPCMethods"
      BY <1>1, <3>1 DEF OneOffAnswer, cwmp_create_getrpcmethods_response_message
    <3>2. CASE m = "Download"
      BY <1>1, <3>2 DEF OneOffAnswer, cwmp_create_download_response_message
    <3>3. CASE m = "Upload"
      BY <1>2, <3>3 DEF OneOffAnswer, cwmp_parse_upload_message
    <3>4. CASE m = "Reboot"
      <4>1. ResponseTo[m] = "RebootResponse"
        BY <3>4 DEF ResponseTo
      <4> QED BY <1>1, <3>4, <4>1 DEF OneOffAnswer, EmptyResponse
    <3>5. CASE m = "FactoryReset"
      <4>1. ResponseTo[m] = "FactoryResetResponse"
        BY <3>5 DEF ResponseTo
      <4> QED BY <1>1, <3>5, <4>1 DEF OneOffAnswer, EmptyResponse
    <3> QED BY <2>2, <3>1, <3>2, <3>3, <3>4, <3>5
  <2> QED BY <2>1, <2>3, OtherKind
<1>4. ASSUME NEW h, NEW m \in Silent, AnalyseSilent(m, h)
      PROVE  ValuesAsAsked'
  BY <1>2, <1>4, OtherKind, Zenon DEF AnalyseSilent
<1>5. ASSUME NEW h, NEW p, NEW next, AnalyseNames(h, p, next)
      PROVE  ValuesAsAsked'
  <2>1. GetParameterNames(h, p, next).kind # V
    BY <1>1, <1>2 DEF GetParameterNames
  <2> QED BY <1>5, <2>1, OtherKind, Zenon DEF AnalyseNames
<1>6. ASSUME NEW h, NEW p, AnalyseObject(h, p)
      PROVE  ValuesAsAsked'
  <2>1. FaultAnswer(h, 9005).kind # V
    BY <1>1 DEF FaultAnswer
  <2>2. AddObject(h, p) \in {Died, FaultAnswer(h, 9005)}
        /\ DeleteObject(h, p) = FaultAnswer(h, 9005)
    BY DEF AddObject, DeleteObject
  <2>3. AddObject(h, p).kind # V /\ DeleteObject(h, p).kind # V
    BY <1>2, <2>1, <2>2
  <2> QED BY <1>6, <2>3, OtherKind, Zenon DEF AnalyseObject
<1>7. ASSUME NEW h, NEW l \in SetLists, AnalyseSet(h, l)
      PROVE  ValuesAsAsked'
  <2>1. PICK pick, args : Told("SetParameterValues", h, args, SetAnswer(h, l, pick))
    BY <1>7, Zenon DEF AnalyseSet
  <2>2. SetAnswer(h, l, pick).kind # V
    BY <1>1 DEF SetAnswer, StatusAnswer
  <2> QED BY <2>1, <2>2, OtherKind
<1>8. ASSUME NEW h, NEW m, AnalyseNoList(m, h)
      PROVE  ValuesAsAsked'
  <2>1. PICK args : args = Args(NoPath, FALSE, NoList, <<>>, <<>>)
    OBVIOUS
  <2>2. args.names = NoList
    BY <2>1 DEF Args
  <2>3. PICK a : Told(m, h, args, a)
    BY <1>8, <2>1, Zenon DEF AnalyseNoList
  <2> QED BY <2>2, <2>3, OtherKind
<1>9. ASSUME NEW evs, AgentInforms(evs)
      PROVE  ValuesAsAsked'
  <2>1. InformMessage(evs).kind # V
    BY DEF InformMessage
  <2> QED BY <1>9, <2>1, OtherKind, Zenon DEF AgentInforms
<1>10. ASSUME NEW code, TransferEnds(code)
       PROVE  ValuesAsAsked'
  <2>1. params' = params /\ paramText' = paramText /\ asked' = asked /\ answer' = answer
    BY <1>10 DEF TransferEnds, treeVars
  <2> QED BY <2>1, ValuesAre
<1>11. CASE EditTree
  BY <1>11, NothingToKeep, Zenon DEF EditTree
<1>12. \/ \E h \in Headers :
             \/ \E m \in OneOff, address \in FileUrls : AnalyseOneOff(m, h, address)
             \/ \E m \in Silent : AnalyseSilent(m, h)
             \/ \E p \in SearchPaths \cup {NoPath} :
                  (\E next \in BOOLEAN : AnalyseNames(h, p, next)) \/ AnalyseObject(h, p)
             \/ \E l \in AskedLists : AnalyseGet(h, l)
             \/ \E l \in SetLists : AnalyseSet(h, l)
             \/ \E m \in {"GetParameterValues", "SetParameterValues"} : AnalyseNoList(m, h)
       \/ \E evs \in EventLists : AgentInforms(evs)
       \/ \E code : TransferEnds(code)
       \/ EditTree
  BY DEF RpcNext
<1> QED BY <1>3, <1>4, <1>5, <1>6, <1>7, <1>8, <1>9, <1>10, <1>11, <1>12, GetTells, Zenon

----------------------------------------------------------------------------
\* What the answers promise, of what they are known to be.
LEMMA RpcMatches == RpcInv /\ ValuesAsAsked => AnswersMatch
<1> SUFFICES ASSUME RpcInv, ValuesAsAsked PROVE AnswersMatch
  OBVIOUS
<1>1. Answers(params, asked, answer)
  BY Zenon DEF RpcInv
<1>2. ValuesAsAsked
  OBVIOUS
<1>3. DiesOnlyOf
  BY <1>1, Zenon DEF Answers, Deadly, DiesOnlyOf
<1>4. Backed(tasks, served)
  BY Zenon DEF RpcInv
<1>5. /\ Len(tasks) = Len(Promised(served))
      /\ \A i \in DOMAIN tasks : tasks[i] = TaskOf(Promised(served)[i])
  BY <1>4, Zenon DEF Backed
<1>6. ASSUME NEW d
      PROVE  /\ TaskOf(d)[1] = Tags[d[1]]
             /\ TaskOf(d)[2] = IF d[2] = EmptyText THEN NoUrl ELSE d[2]
  <2>1. PICK x : x = IF d[2] = EmptyText THEN NoUrl ELSE d[2]
    OBVIOUS
  <2>2. TaskOf(d) = <<Tags[d[1]], x>>
    BY <2>1 DEF TaskOf
  <2> QED BY <2>1, <2>2
<1>7. \A i \in DOMAIN tasks :
        /\ tasks[i][1] = Tags[Promised(served)[i][1]]
        /\ tasks[i][2] = IF Promised(served)[i][2] = EmptyText THEN NoUrl ELSE Promised(served)[i][2]
  BY <1>5, <1>6, Zenon
<1>8. Paired
  <2>1. answer.id = "own" <=> answer.kind \in {"TransferComplete", "Inform"}
    BY <1>1, Zenon DEF Answers, Own
  <2>2. answer.kind \notin {"nothing", "died", "TransferComplete", "Inform"} =>
          answer.id = asked.header /\ answer.kind \in {ResponseTo[asked.method], "Fault"}
    BY <1>1, Zenon DEF Answers, Apart
  <2>3. answer.kind = "TransferComplete" => asked.method \in Silent \cup {"GetParameterNames"}
    BY <1>1, Zenon DEF Answers
  <2>4. answer.kind = "Inform" => InformTrue(answer.list)
    BY <1>1, Zenon DEF Answers
  <2> QED BY <1>5, <1>7, <2>1, <2>2, <2>3, <2>4, Zenon DEF Paired, InformTrue
<1> QED BY <1>2, <1>3, <1>8, Zenon DEF AnswersMatch

----------------------------------------------------------------------------
(* All parts together: a step is one of the part chosen at the start, and  *)
(* leaves the others as they are.                                          *)

\* What a step is to the parts below.
PartSteps ==
  /\ PoolNext \/ UNCHANGED poolVars
  /\ ChunkNext \/ UNCHANGED chunkVars
  /\ XmlBufferNext \/ UNCHANGED xbufVars
  /\ RingNext \/ UNCHANGED ringVars
  /\ HashNext \/ UNCHANGED hashVars
  /\ ListNext \/ UNCHANGED listVars
  /\ IniNext \/ UNCHANGED iniVars
  /\ AttrNext \/ UNCHANGED attrVars
  /\ RpcNext \/ UNCHANGED rpcVars
  /\ DomNext \/ UNCHANGED domVars

LEMMA PartsStep == [ServicesNext]_servicesVars => PartSteps
<1>1. CASE UNCHANGED servicesVars
  BY <1>1 DEF servicesVars, PartSteps
<1>2. CASE ServicesNext
  <2>1. PICK p : /\ OthersKept(p)
                 /\ p = "pool" => PoolNext
                 /\ p = "chunk" => ChunkNext
                 /\ p = "xbuf" => XmlBufferNext
                 /\ p = "ring" => RingNext
                 /\ p = "hash" => HashNext
                 /\ p = "list" => ListNext
                 /\ p = "ini" => IniNext
                 /\ p = "attr" => AttrNext
                 /\ p = "rpc" => RpcNext
                 /\ p = "dom" => DomNext
    BY <1>2, Zenon DEF ServicesNext
  <2>2. /\ p # "pool" => UNCHANGED poolVars
        /\ p # "chunk" => UNCHANGED chunkVars
        /\ p # "xbuf" => UNCHANGED xbufVars
        /\ p # "ring" => UNCHANGED ringVars
        /\ p # "hash" => UNCHANGED hashVars
        /\ p # "list" => UNCHANGED listVars
        /\ p # "ini" => UNCHANGED iniVars
        /\ p # "attr" => UNCHANGED attrVars
        /\ p # "rpc" => UNCHANGED rpcVars
        /\ p # "dom" => UNCHANGED domVars
    BY <2>1, Zenon DEF OthersKept
  <2> QED BY <2>1, <2>2, Zenon DEF PartSteps
<1> QED BY <1>1, <1>2

----------------------------------------------------------------------------
\* The invariants of the parts.
ServicesInv ==
  /\ PoolInv /\ ChunkInv /\ XmlBufferInv /\ RingInv
  /\ HashInv /\ ListInv /\ IniInv /\ AttrInv

LEMMA ServicesStarts == ServicesInit => ServicesInv
BY PoolStarts, ChunkStarts, XmlBufferStarts, RingStarts, HashStarts, ListStarts, IniBegins,
   AttrStarts, Zenon DEF ServicesInit, ServicesInv

LEMMA ServicesSteps == ServicesInv /\ [ServicesNext]_servicesVars => ServicesInv'
<1> SUFFICES ASSUME ServicesInv, [ServicesNext]_servicesVars PROVE ServicesInv'
  OBVIOUS
<1>1. PartSteps
  BY PartsStep
<1>2. PoolInv'
  BY <1>1, PoolSteps, Zenon DEF PartSteps, ServicesInv
<1>3. ChunkInv'
  BY <1>1, ChunkSteps, Zenon DEF PartSteps, ServicesInv
<1>4. XmlBufferInv'
  BY <1>1, XmlBufferSteps, Zenon DEF PartSteps, ServicesInv
<1>5. RingInv'
  BY <1>1, RingSteps, Zenon DEF PartSteps, ServicesInv
<1>6. HashInv'
  BY <1>1, HashSteps, Zenon DEF PartSteps, ServicesInv
<1>7. ListInv'
  BY <1>1, ListSteps, Zenon DEF PartSteps, ServicesInv
<1>8. IniInv'
  BY <1>1, IniSteps, Zenon DEF PartSteps, ServicesInv
<1>9. AttrInv'
  BY <1>1, AttrSteps, Zenon DEF PartSteps, ServicesInv
<1> QED BY <1>2, <1>3, <1>4, <1>5, <1>6, <1>7, <1>8, <1>9, Zenon DEF ServicesInv

LEMMA ServicesAlways == ServicesSpec => []ServicesInv
<1>1. ServicesInv /\ [ServicesNext]_servicesVars => ServicesInv'
  BY ServicesSteps
<1> QED BY <1>1, ServicesStarts, PTL DEF ServicesSpec, servicesVars

\* pool.c, buffer.c (chunks) and xmlet/buffer.c: no two pieces of a pool share
\* a byte and clearing frees every large piece once, a chunk holds what was
\* written and a copy brings what was asked for, no text outgrows its buffer;
\* for blocks, buffers and requests of every size.
THEOREM ServicesKeepMemory == ServicesSpec => []MemoryKept
<1>1. ServicesInv => MemoryKept
  BY PoolKeeps, ChunkKeeps, Zenon DEF ServicesInv, MemoryKept, XmlBufferInv
<1> QED BY <1>1, ServicesAlways, PTL

\* cwmp_agent_analyse_session, SetParameterValues: when every name was found at
\* a node that has it, the texts sent are in those nodes and nothing else changed;
\* whatever node was met, a value only changes to a text of the request and only
\* that of a parameter; a fault for a list that could be read and fits the array
\* names an entry without a set function; and with status 0 every node met could
\* be set. For every tree of parameters, every list and every size of the arrays.
THEOREM ServicesTellSets == ServicesSpec => SetsTold
<1>1. [ServicesNext]_servicesVars => [SetsToldNow]_<<treeVars, rpcVars>>
  <2> SUFFICES ASSUME [ServicesNext]_servicesVars PROVE SetsToldNow
    OBVIOUS
  <2>1. PartSteps
    BY PartsStep
  <2> QED BY <2>1, SetsToldStep, Zenon DEF PartSteps
<1> QED BY <1>1, PTL DEF ServicesSpec, servicesVars, SetsTold, SetsToldNow

\* ring_buffer.c, hashtab.c, list.c, namemap.c, ini.c: what is put into a
\* container comes out again, the lists are closed rings in both directions, a
\* map shows the attributes of its element, and a setting that was written is
\* found wherever the writing of its file stopped; for any capacities, keys,
\* entries, attributes and files.
THEOREM ServicesKeepContainers == ServicesSpec => []ContainersKeep
<1>1. ServicesInv => RingKeepsBytes /\ FindsWhatWasPut /\ ListsAreRings /\ IniKept
  BY HashFinds, ListsRing, IniKeeps, Zenon DEF ServicesInv, RingInv
<1>2. ServicesInv => MapShowsList /\ AttrCrashCause
  BY MapShows, Zenon DEF ServicesInv
<1>3. ServicesInv => ContainersKeep
  BY <1>1, <1>2, Zenon DEF ContainersKeep
<1> QED BY <1>3, ServicesAlways, PTL

\* element.c: an attribute leaves its element's list only when it is removed or
\* replaced by one of its name, or when it stood behind one that was replaced or
\* whose predecessor does not know of it; no two of one name are listed; and a
\* call changes the value of one attribute. For any number of attributes.
THEOREM ServicesKeepAttributes == ServicesSpec => AttrsKept
<1>1. ServicesInv /\ [ServicesNext]_servicesVars => [AttrsKeptNow]_attrVars
  <2> SUFFICES ASSUME ServicesInv, [ServicesNext]_servicesVars
               PROVE  AttrsKeptNow \/ UNCHANGED attrVars
    OBVIOUS
  <2>1. PartSteps
    BY PartsStep
  <2> QED BY <2>1, AttrSteps, Zenon DEF PartSteps, ServicesInv
<1> QED BY <1>1, ServicesAlways, PTL DEF ServicesSpec, servicesVars, AttrsKept, AttrsKeptNow

\* node.c, document.c: the same as DomIsTree, of the specification that the runs
\* check: whatever the other parts do meanwhile.
THEOREM ServicesShowTree ==
  ASSUME DomMoves = FALSE
  PROVE  ServicesSpec => DomRefinesTree
<1>1. ServicesInit => ForestInv /\ Tree!TreeInit
  BY ForestStarts, Zenon DEF ServicesInit
<1>2. ASSUME ForestInv, [ServicesNext]_servicesVars
      PROVE  ForestInv' /\ [Tree!TreeNext]_DomForest
  <2>1. [DomNext]_domVars
    BY <1>2, PartsStep, Zenon DEF PartSteps
  <2> QED BY <1>2, <2>1, ForestStep, Zenon
<1>3. ForestInv /\ [ServicesNext]_servicesVars => ForestInv'
  BY <1>2
<1>4. ForestInv /\ [ServicesNext]_servicesVars => [Tree!TreeNext]_DomForest
  BY <1>2
<1> QED BY <1>1, <1>3, <1>4, PTL DEF ServicesSpec, DomRefinesTree, Tree!TreeSpec

\* Edits that another part makes leave an answer alone only if there is none.
RepliesInv == RpcInv /\ ValuesAsAsked /\ (part # "rpc" => answer = Nothing)

LEMMA RepliesStart == ServicesInit => RepliesInv
<1>1. RpcInit => answer = Nothing
  BY Zenon DEF RpcInit
<1>2. Nothing.kind # "GetParameterValuesResponse"
  BY DEF Nothing
<1>3. answer = Nothing => ValuesAsAsked
  BY <1>2, Zenon DEF ValuesAsAsked
<1> QED BY <1>1, <1>3, RpcStarts, Zenon DEF ServicesInit, RepliesInv

\* A step is one of the methods, an edit of the tree, or neither's.
LEMMA ReplyStep ==
  ASSUME [ServicesNext]_servicesVars
  PROVE  /\ part' = part
         /\ \/ part = "rpc" /\ RpcNext
            \/ part = "tree" /\ TreeNext /\ UNCHANGED rpcVars
            \/ UNCHANGED treeVars /\ UNCHANGED rpcVars
<1>1. CASE UNCHANGED servicesVars
  BY <1>1 DEF servicesVars
<1>2. CASE ServicesNext
  <2>1. part' = part
    BY <1>2, Zenon DEF ServicesNext
  <2>2. PICK p : /\ p = part /\ OthersKept(p)
                 /\ p = "rpc" => RpcNext
                 /\ p = "tree" => TreeNext
    BY <1>2, Zenon DEF ServicesNext
  <2>3. /\ p # "rpc" => UNCHANGED rpcVars
        /\ p \notin {"tree", "rpc"} => UNCHANGED treeVars
    BY <2>2, Zenon DEF OthersKept
  <2>4. CASE p = "rpc"
    BY <2>1, <2>2, <2>4
  <2>5. CASE p = "tree"
    BY <2>1, <2>2, <2>3, <2>5
  <2>6. CASE p \notin {"tree", "rpc"}
    BY <2>1, <2>3, <2>6
  <2> QED BY <2>4, <2>5, <2>6
<1> QED BY <1>1, <1>2

LEMMA RepliesKept == RepliesInv /\ [ServicesNext]_servicesVars => RepliesInv'
<1> SUFFICES ASSUME RepliesInv, [ServicesNext]_servicesVars PROVE RepliesInv'
  OBVIOUS
<1>1. RpcInv /\ ValuesAsAsked /\ (part # "rpc" => answer = Nothing)
  BY Zenon DEF RepliesInv
<1>2. /\ part' = part
      /\ \/ part = "rpc" /\ RpcNext
         \/ part = "tree" /\ TreeNext /\ UNCHANGED rpcVars
         \/ UNCHANGED treeVars /\ UNCHANGED rpcVars
  BY ReplyStep
<1>3. CASE part = "rpc" /\ RpcNext
  <2>1. RpcInv' /\ ValuesAsAsked'
    BY <1>1, <1>3, RpcSteps, ValuesTold, Zenon
  <2> QED BY <1>2, <1>3, <2>1 DEF RepliesInv
<1>4. CASE part = "tree" /\ TreeNext /\ UNCHANGED rpcVars
  <2>1. asked' = asked /\ answer' = answer /\ tasks' = tasks /\ served' = served
    BY <1>4 DEF rpcVars
  <2>2. answer = Nothing
    BY <1>1, <1>4
  <2>3. answer' = Nothing
    BY <2>1, <2>2, Zenon DEF Nothing, NoId
  <2>4. TreeInv'
    BY <1>1, <1>4, TreeSteps, Zenon DEF RpcInv
  <2>5. RpcInv'
    BY <1>1, <2>1, <2>3, <2>4, EditKeeps, Zenon
  <2>6. ValuesAsAsked'
    BY <2>3, NothingToKeep
  <2> QED BY <2>3, <2>5, <2>6, Zenon DEF RepliesInv, Nothing, NoId
<1>5. CASE UNCHANGED treeVars /\ UNCHANGED rpcVars
  <2>1. /\ params' = params /\ asked' = asked /\ answer' = answer
        /\ tasks' = tasks /\ served' = served
    BY <1>5 DEF treeVars, rpcVars
  <2>2. RpcInv'
    BY <1>1, <2>1, Zenon DEF RpcInv, TreeInv
  <2>3. paramText' = paramText
    BY <1>5 DEF rpcVars
  <2>4. ValuesAsAsked'
    BY <1>1, <2>1, <2>3, ValuesAre
  <2> QED BY <1>1, <1>2, <2>1, <2>2, <2>4, Zenon DEF RepliesInv, Nothing, NoId
<1> QED BY <1>2, <1>3, <1>4, <1>5

\* cwmp_agent_analyse_session and the cwmp_parse_ functions: the answer is that
\* of the method asked or a fault, with its id; the names answered to
\* GetParameterValues begin the list asked for, those found at their own node
\* (and behind none that was not) are all there with its value, and none is there
\* without a node; the queue holds one task for each document that promised one,
\* in order; an Inform has every parameter it needs, however often their list
\* grew; and only an Upload, a list or path that is missing, a writable object
\* without children or a list that outgrows its array ends the agent. For every
\* tree of parameters, however often instances come and go in it, and every list
\* and size of the arrays.
THEOREM ServicesAnswer == ServicesSpec => []AnswersMatch
<1>1. RepliesInv => AnswersMatch
  BY RpcMatches, Zenon DEF RepliesInv
<1>2. RepliesInv /\ [ServicesNext]_servicesVars => RepliesInv'
  BY RepliesKept
<1> QED BY <1>1, <1>2, RepliesStart, PTL DEF ServicesSpec, servicesVars

----------------------------------------------------------------------------
(* The parser and the namespaces as parts of MCServices: a step is one of  *)
(* the part chosen at the start, and leaves the others as they are.        *)

TextInv == ParserInv /\ NsInv

LEMMA TextStep ==
  ASSUME [ServicesNext]_servicesVars
  PROVE  (XmlNext \/ UNCHANGED xmlVars) /\ (NsNext \/ UNCHANGED nsVars)
<1>1. CASE UNCHANGED servicesVars
  BY <1>1 DEF servicesVars
<1>2. CASE ServicesNext
  <2>1. PICK p : OthersKept(p) /\ (p = "parser" => XmlNext) /\ (p = "ns" => NsNext)
    BY <1>2, Zenon DEF ServicesNext
  <2>2. (p # "parser" => UNCHANGED xmlVars) /\ (p # "ns" => UNCHANGED nsVars)
    BY <2>1, Zenon DEF OthersKept
  <2> QED BY <2>1, <2>2, Zenon
<1> QED BY <1>1, <1>2

LEMMA XmlAlways == ServicesSpec => []TextInv
<1>1. ServicesInit => TextInv
  BY ParserStarts, NsStarts, Zenon DEF ServicesInit, TextInv
<1>2. TextInv /\ [ServicesNext]_servicesVars => TextInv'
  BY TextStep, ParserSteps, NsSteps, Zenon DEF TextInv
<1> QED BY <1>1, <1>2, PTL DEF ServicesSpec

\* parser.c: a text that is taken is XML but for the laxities that are named, one
\* that is refused is not XML or has a section with the digit 0; the tree says what
\* the text says, the stack is the path to where the parser stands; and an element
\* has the URI in scope for its prefix, except in the cases that are written out.
\* For texts of any length, elements nested to any depth and any names and URIs.
THEOREM ServicesParse == ServicesSpec => []ParserFaithful
<1>1. TextInv => AcceptsExactly /\ TreeAsWritten /\ StackIsPath
  BY ParserAccepts, ParserBuilds, ParserOnPath, Zenon DEF TextInv
<1>2. TextInv => NamespaceAsMeant /\ WaitingIsUndeclared
  BY NsHolds, Zenon DEF TextInv
<1>3. TextInv => ParserFaithful
  BY <1>1, <1>2, Zenon DEF ParserFaithful
<1> QED BY <1>3, XmlAlways, PTL
=============================================================================
