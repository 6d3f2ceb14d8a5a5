---------------------------- MODULE HttpTransfer ----------------------------
(***************************************************************************)
(* The file transfers of the agent: http_receive_file and http_send_file   *)
(* of libcwmp/src/http.c, down to the lines and bytes they read and write, *)
(* and the two functions of agent.c that turn their results into the fault *)
(* code of a TransferComplete. The file server answers as it likes, and    *)
(* the connection may end or fail at any read or write. A byte of a body   *)
(* is a unit here, and BlockSize of them what one recv or fread can take.  *)
(***************************************************************************)
EXTENDS Integers, Sequences, SequencesExt

CONSTANTS
  BodySizes,    \* lengths of a file, and those an answer may announce
  BlockSize,    \* 1024: the buffers of http_read_body, http_send_file_request
  MAX_HEADERS,  \* lines of a header, and variables of a parser, kept
  MaxLines      \* bound: lines of one header

ASSUME TransferAssumption ==
  /\ BodySizes \subseteq Nat /\ BlockSize \in Nat \ {0}
  /\ MAX_HEADERS \in Nat \ {0, 1} /\ MaxLines \in Nat

CWMP_OK == 0
CWMP_ERROR == -1
HTTP_100 == 100
HTTP_200 == 200

VARIABLES
  job,      \* "none", "download" or "upload"
  url,      \* what the task's url says
  at,       \* where the call is
  rc,       \* its variable rc
  request,  \* its variable request: "wild" before it is assigned, "set",
            \* "freed" once the pool it lies in is gone
  lines,    \* the lines of the header read so far
  size,     \* bytes of body the server sends, or of fromfile
  announced,\* what its Content-Length line says
  got,      \* bytes of body taken by http_read_body in this answer
  file,     \* bytes in tofile; NoFile before fopen
  sent,     \* bytes of the file put on the connection
  body,     \* bytes of the server's body still to come, or of fromfile unread
  broken,   \* TRUE: the connection ended before the server was done
  answers,  \* status of the answers read to their end, in order
  reported  \* fault code given to cwmp_event_set_value, NoFault before

\* What the task says of the transfer, and the server of its file.
taskVars == <<job, url, size, announced>>

transferVars == <<taskVars, at, rc, request, lines, got, file, sent, body, broken,
                  answers, reported>>

NoFile == -1
NoFault == -1

\* A header line, as far as it matters: the first one with a status code and
\* a message, with a code alone, Content-Length, some other variable, a line
\* without value, and the empty one.
LaterLines == {"length", "variable", "no_value"}
HeaderLines == {"200", "100", "404", "no_message"} \cup LaterLines

StatusOf(l) == CASE l = "200" -> HTTP_200 [] l = "100" -> HTTP_100 [] l = "404" -> 404

\* Is there a file type, and has its text room for another one?
FileTypes == {"long", "short", "missing"}

Urls == [scheme : {"http", "ftp"}, host : {"dotted", "name"}]

Stops == {"idle", "socket", "connect", "open", "write", "header", "body", "go_on",
          "out", "died"}

TransferTypeOK ==
  /\ job \in {"none", "download", "upload"} /\ url \in Urls /\ at \in Stops
  /\ rc \in {CWMP_OK, CWMP_ERROR, 1, HTTP_100, HTTP_200, 404}
  /\ request \in {"wild", "set", "freed"}
  /\ lines \in Seq(HeaderLines)
  /\ got \in Nat /\ sent \in Nat /\ body \in Nat /\ size \in Nat /\ announced \in Nat
  /\ file \in Nat \cup {NoFile}
  /\ broken \in BOOLEAN
  /\ answers \in Seq({HTTP_100, HTTP_200, 404})
  /\ reported \in {NoFault, 0, 9001}

TransferInit ==
  /\ job = "none" /\ url = [scheme |-> "http", host |-> "dotted"] /\ at = "idle"
  /\ rc = CWMP_OK /\ request = "wild" /\ lines = <<>> /\ size = 0 /\ announced = 0
  /\ got = 0 /\ file = NoFile /\ sent = 0 /\ body = 0 /\ broken = FALSE /\ answers = <<>> /\ reported = NoFault

----------------------------------------------------------------------------
(* The task: cwmp_agent_run_tasks gives it to one of these.                *)

\* cwmp_agent_download_file: ftp is refused without a try. The server has n
\* bytes to send and may announce another number.
cwmp_agent_download_file(u, n, m) ==
  /\ at = "idle" /\ job = "none"
  /\ job' = "download" /\ url' = u /\ size' = n /\ body' = n /\ announced' = m
  /\ IF u.scheme = "ftp" THEN reported' = 9001 /\ UNCHANGED at
     ELSE at' = "socket" /\ UNCHANGED reported
  /\ UNCHANGED <<rc, request, lines, got, file, sent, broken, answers>>

\* cwmp_agent_upload_file: strcpy in place of strcmp makes every file type
\* the same file, after the name of a type has been written over the text of
\* the one asked for, which need not be there or have the room.
cwmp_agent_upload_file(u, n, t) ==
  /\ at = "idle" /\ job = "none"
  /\ job' = "upload" /\ url' = u /\ size' = n /\ body' = n
  /\ \/ at' = "socket" /\ t # "missing"
     \/ at' = "died" /\ t # "long"
  /\ UNCHANGED <<rc, request, lines, announced, got, file, sent, broken, answers, reported>>

----------------------------------------------------------------------------
(* Getting connected.                                                      *)

GoTo(where, r) == at' = where /\ rc' = r

\* http_socket_create. Its failure is -errno, or CWMP_ERROR.
http_socket_create ==
  /\ at = "socket"
  /\ GoTo("connect", CWMP_OK) \/ GoTo("out", CWMP_ERROR)
  /\ UNCHANGED <<taskVars, request, lines, got, file, sent, body, broken, answers, reported>>

\* http_socket_connect through http_sockaddr_set, which knows addresses
\* only: inet_addr of a name is no address.
http_socket_connect ==
  /\ at = "connect"
  /\ \/ url.host = "dotted" /\ GoTo("open", CWMP_OK)
     \/ GoTo("out", CWMP_ERROR)
  /\ UNCHANGED <<taskVars, request, lines, got, file, sent, body, broken, answers, reported>>

\* fopen of the file, then http_request_create. http_receive_file makes the
\* file empty and leaves rc as it is when it cannot; http_send_file_request
\* is reached with the request made, and returns CWMP_ERROR.
OpenFile ==
  /\ at = "open"
  /\ \/ /\ request' = "set" /\ GoTo("write", rc)
        /\ file' = IF job = "download" THEN 0 ELSE file
     \/ /\ job = "download" /\ GoTo("out", rc) /\ UNCHANGED <<request, file>>
     \/ /\ job = "upload" /\ request' = "set" /\ GoTo("out", CWMP_ERROR)
        /\ UNCHANGED file
  /\ UNCHANGED <<taskVars, lines, got, sent, body, broken, answers, reported>>

\* http_get and http_write_request without a body. For an upload the header
\* goes out in http_send_file_request, which does not look at the result.
http_write_request ==
  /\ at = "write"
  /\ \/ GoTo("header", 1) /\ UNCHANGED broken
     \/ /\ broken' = TRUE
        /\ IF job = "download" THEN GoTo("out", CWMP_ERROR) ELSE GoTo("header", rc)
  /\ UNCHANGED <<taskVars, request, lines, got, file, sent, body, answers, reported>>

----------------------------------------------------------------------------
(* http_read_response.                                                     *)

\* http_read_line, called by http_read_header for the next line: a line
\* that is whole, or the end, a time-out, or a line without end.
http_read_line ==
  /\ at = "header" /\ Len(lines) < MaxLines /\ ~broken
  /\ \E l \in IF lines = <<>> THEN {"200", "100", "404", "no_message"} ELSE LaterLines :
       lines' = Append(lines, l)
  /\ UNCHANGED <<taskVars, at, rc, request, got, file, sent, body, broken, answers, reported>>

\* http_split_headers and http_parse_headers with http_set_variable: lines
\* beyond MAX_HEADERS are dropped, and so are variables beyond as many, of
\* which http_read_response has set two or, for an error, three before.
Variables ==
  LET kept == IF Len(lines) < MAX_HEADERS THEN lines ELSE SubSeq(lines, 1, MAX_HEADERS)
      named == SelectSeq(Tail(kept), LAMBDA l : l # "no_value")
      room == MAX_HEADERS - (IF lines[1] = "200" THEN 2 ELSE 3)
  IN  SubSeq(named, 1, IF Len(named) < room THEN Len(named) ELSE room)

\* http_get_variable: the length the answer announces; without it nothing is
\* read. (Bound: what answers an upload has no body.)
ContentLength ==
  IF job = "download" /\ \E i \in DOMAIN Variables : Variables[i] = "length"
  THEN announced ELSE 0

\* A slip the properties notice: the server need not say "continue".
AnswerDoneUnasked(code) ==
  /\ answers' = Append(answers, code) /\ lines' = <<>>
  /\ IF job = "upload" /\ answers = <<>> THEN GoTo("go_on", rc)
     ELSE GoTo("out", code)

\* The end of an answer of the given code: http_read_response returns the
\* code, whatever http_read_body came back with.
AnswerDone(code) ==
  /\ answers' = Append(answers, code) /\ lines' = <<>>
  /\ IF job = "upload" /\ answers = <<>>
     THEN IF code = HTTP_100 THEN GoTo("go_on", rc) ELSE GoTo("out", CWMP_ERROR)
     ELSE GoTo("out", code)

\* The empty line: the header is taken apart.
HeaderEnds ==
  /\ at = "header" /\ lines # <<>> /\ ~broken
  /\ IF lines[1] = "no_message"
     THEN GoTo("out", CWMP_ERROR) /\ UNCHANGED <<lines, answers>>
     ELSE IF ContentLength = 0 THEN AnswerDone(StatusOf(lines[1]))
     ELSE GoTo("body", rc) /\ UNCHANGED <<lines, answers>>
  /\ UNCHANGED <<taskVars, request, got, file, sent, body, broken, reported>>

\* http_read_line finds the end of the stream, an error or no end of line.
HeaderFails ==
  /\ at = "header"
  /\ broken' = TRUE /\ GoTo("out", CWMP_ERROR)
  /\ UNCHANGED <<taskVars, request, lines, got, file, sent, body, answers, reported>>

\* A turn of http_read_body: what recv has, which may be more than is still
\* missing, goes to http_receive_file_callback. How much of it fwrite could
\* write (a full disk takes none of it) is not looked at.
http_read_body ==
  /\ at = "body" /\ ~broken
  /\ \E n \in 1..BlockSize, w \in 0..BlockSize :
       /\ n <= body /\ w <= n
       /\ got' = got + n /\ body' = body - n /\ file' = file + w
       /\ IF got + n >= announced THEN AnswerDone(StatusOf(lines[1]))
          ELSE UNCHANGED <<at, rc, lines, answers>>
  /\ UNCHANGED <<taskVars, request, sent, broken, reported>>

\* recv answers 0 or -1: http_read_body returns, short or with an error.
BodyFails ==
  /\ at = "body"
  /\ broken' = TRUE
  /\ AnswerDone(StatusOf(lines[1]))
  /\ UNCHANGED <<taskVars, request, got, file, sent, body, reported>>

----------------------------------------------------------------------------
(* http_send_file_request after the server said to go on.                  *)

\* A turn of its loop: fread answers the number of whole blocks it read, 1,
\* and so many bytes are written. What is left at the end of the file is
\* less than a block: fread answers 0, and the loop ends.
SendBlock ==
  /\ at = "go_on" /\ ~broken
  /\ IF body >= BlockSize
     THEN /\ body' = body - BlockSize
          /\ \/ sent' = sent + 1 /\ UNCHANGED <<at, rc, broken>>
             \/ broken' = TRUE /\ GoTo("header", 1) /\ UNCHANGED sent
     ELSE GoTo("header", 1) /\ UNCHANGED <<body, sent, broken>>
  /\ UNCHANGED <<taskVars, request, lines, got, file, answers, reported>>

----------------------------------------------------------------------------
\* The label out of both: the file is closed, the pool destroyed, and then
\* the request is asked for its pool, though it lies in the one just freed,
\* or was never assigned. The process may live on. What the caller makes of
\* the result: anything but CWMP_OK is a fault.
Out ==
  /\ at = "out"
  /\ request' = IF request = "set" THEN "freed" ELSE request
  /\ \/ at' = "died" /\ UNCHANGED reported
     \/ /\ at' = "idle"
        /\ LET result == IF job = "download" THEN rc
                         ELSE IF rc = HTTP_200 THEN CWMP_OK ELSE CWMP_ERROR
           IN  reported' = IF result = CWMP_OK THEN 0 ELSE 9001
  /\ UNCHANGED <<taskVars, rc, lines, got, file, sent, body, broken, answers>>

TransferNext ==
  \/ \E u \in Urls, n \in BodySizes :
        \/ \E m \in BodySizes : cwmp_agent_download_file(u, n, m)
        \/ \E t \in FileTypes : cwmp_agent_upload_file(u, n, t)
  \/ http_socket_create \/ http_socket_connect \/ OpenFile \/ http_write_request
  \/ http_read_line \/ HeaderEnds \/ HeaderFails
  \/ http_read_body \/ BodyFails
  \/ SendBlock \/ Out

TransferSpec == TransferInit /\ [][TransferNext]_transferVars

----------------------------------------------------------------------------
(* Properties.                                                             *)

\* What a transfer tells its caller of the bytes that went over. The status
\* 200 of a download means that the length announced was taken, and less than
\* a block beyond it, unless the connection broke or no length was found; not
\* that it is in the file, which can hold less. A download is reported without
\* a fault only if its file could not be created and nothing was asked of the
\* server (http.c:1761, agent.c:833). An upload is reported as done only after
\* the server has let it go on and answered 200; what went out before is one
\* byte for each whole block of the file at most.
TransferTruth ==
  /\ job = "download" =>
       /\ file # NoFile => file <= got /\ got + body = size
       /\ got # 0 => announced # 0 /\ got < announced + BlockSize
       /\ at = "out" /\ rc = HTTP_200 =>
            /\ answers = <<HTTP_200>>
            /\ got >= announced \/ broken \/ got = 0
       /\ reported = 0 => file = NoFile /\ answers = <<>> /\ got = 0
  /\ job = "upload" =>
       /\ reported = 0 => answers = <<HTTP_100, HTTP_200>>
       /\ sent # 0 => answers # <<>> /\ answers[1] = HTTP_100
       /\ sent * BlockSize + body <= size

\* A download that brought the whole file with status 200 is reported to the
\* ACS without a fault: "Download" is a supported function (README.md:41).
DownloadReported ==
  (job = "download" /\ at = "idle" /\ answers = <<HTTP_200>> /\ got > 0
     /\ got = size /\ got = announced /\ file = got)
    => reported = 0
=============================================================================
