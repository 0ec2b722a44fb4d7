---------------------------- MODULE HttpParsing ----------------------------
(***************************************************************************)
(* How the two socket servers of the daemon read and answer a request:     *)
(* http::parseRequest in one function, Server::parseRequest through the    *)
(* checks of daemon/server/validation_internal.  What a peer sends is a    *)
(* sequence of words with CR and LF between them, and it arrives in pieces *)
(* of any size; a word stands for a class of texts the checks tell apart.  *)
(***************************************************************************)
EXTENDS Integers, Sequences, FiniteSets, SequencesExt

CONSTANTS MaxRequest,   \* MAX_REQUEST_SIZE, in words
          BufferSize,   \* what one recv() may return
          MaxHeaders,   \* MAX_HEADERS
          MaxLines      \* bound on the header lines of a request

ASSUME ParsingAssumption ==
    MaxRequest \in Nat \ {0} /\ BufferSize \in Nat /\ MaxHeaders \in Nat /\ MaxLines \in Nat

VARIABLES hcase, hgot, hout
parseVars == <<hcase, hgot, hout>>

Pending == [status |-> 0]
CRLF == <<"CR", "LF">>

(***************************************************************************)
(* Words                                                                   *)
(***************************************************************************)
Methods == {"GET", "BREW"}
Paths == {"/health", "/status", "/version", "/other", "/nul", "/long", "/..", "/%2e%2e"}
(* A header line: its name as written and in lower case, and its value.    *)
Header(word) ==
    CASE word = "Content-Length: 5" -> [key |-> "Content-Length", lower |-> "content-length", value |-> "5"]
      [] word = "content-length: 7" -> [key |-> "content-length", lower |-> "content-length", value |-> "7"]
      [] word = "Content-Length: huge" -> [key |-> "Content-Length", lower |-> "content-length", value |-> "huge"]
      [] word = "Content-Length: x" -> [key |-> "Content-Length", lower |-> "content-length", value |-> "x"]
      [] word = "Transfer-Encoding: chunked" -> [key |-> "Transfer-Encoding", lower |-> "transfer-encoding", value |-> "chunked"]
      [] word = "X-Real-IP: a" -> [key |-> "X-Real-IP", lower |-> "x-real-ip", value |-> "a"]
      [] word = "X-Real-IP: nul" -> [key |-> "X-Real-IP", lower |-> "x-real-ip", value |-> "nul"]
      [] word = "X-Forwarded-For: b, c" -> [key |-> "X-Forwarded-For", lower |-> "x-forwarded-for", value |-> "b, c"]
      [] OTHER -> [key |-> "", lower |-> "", value |-> ""]         \* no colon
HeaderWords == {"Content-Length: 5", "content-length: 7", "Content-Length: huge", "Content-Length: x",
                "Transfer-Encoding: chunked", "X-Real-IP: a", "X-Real-IP: nul", "X-Forwarded-For: b, c", "word", "long"}
HasColon(word) == word \notin {"word", "long"}
Put(headers, key, value) == [k \in DOMAIN headers \cup {key} |-> IF k = key THEN value ELSE headers[k]]
Get(headers, key, default) == IF key \in DOMAIN headers THEN headers[key] ELSE default
NoHeaders == [k \in {} |-> ""]

(* What the reading of the headers keeps in hand.                          *)
Reading == [status |-> 0, count |-> 0, length |-> FALSE, encoding |-> FALSE, headers |-> NoHeaders]
RefusedWith(acc, status) == [acc EXCEPT !.status = status]
Error(status) == [status |-> status, method |-> "", path |-> "", headers |-> NoHeaders, body |-> <<>>]

(***************************************************************************)
(* The parts of what has arrived: the request line up to the first CRLF,   *)
(* the header lines up to an empty one, and what is behind it.             *)
(***************************************************************************)
AtCrlf(data, i) == i \in 1..(Len(data) - 1) /\ data[i] = "CR" /\ data[i + 1] = "LF"
LeastOr(places, default) == IF places = {} THEN default ELSE CHOOSE i \in places : \A j \in places : i <= j
FirstCrlf(data) == LeastOr({i \in DOMAIN data : AtCrlf(data, i)}, 0)
HeadEnd(data) ==   \* where the first empty line ends, 0 without one
    LeastOr({i \in 4..Len(data) : AtCrlf(data, i - 3) /\ AtCrlf(data, i - 1)}, 0)
RequestLine(data) == SubSeq(data, 1, FirstCrlf(data) - 1)
(* Where the header lines after the request line end: at the empty one.    *)
HeaderEnd(data) ==
    LeastOr({i \in (FirstCrlf(data) + 2)..Len(data) : AtCrlf(data, i) /\ AtCrlf(data, i - 2)}, Len(data))
HeaderLines(data) == SubSeq(data, FirstCrlf(data) + 2, HeaderEnd(data) - 1)
BodyOf(data) == SubSeq(data, HeaderEnd(data) + 2, Len(data))

(***************************************************************************)
(* http::parseRequest                                                      *)
(***************************************************************************)
HttpRequestLine(line) ==
    IF Len(line) < 3 THEN 400
    ELSE IF line[2] = "/nul" THEN 400
    ELSE IF line[2] = "/long" THEN 414
    ELSE 0

HttpHeader(acc, word) ==
    LET h == Header(word)
        isLength == h.lower = "content-length"
    IN IF acc.status # 0 THEN acc
       ELSE IF acc.count + 1 > MaxHeaders THEN RefusedWith(acc, 431)
       ELSE IF word = "long" THEN RefusedWith(acc, 431)
       ELSE IF ~HasColon(word) THEN [acc EXCEPT !.count = @ + 1]
       ELSE IF h.value = "nul" THEN RefusedWith(acc, 400)
       ELSE IF isLength /\ acc.length THEN RefusedWith(acc, 400)
       ELSE IF isLength /\ h.value = "huge" THEN RefusedWith(acc, 413)
       ELSE IF isLength /\ h.value = "x" THEN RefusedWith(acc, 400)
       ELSE [acc EXCEPT !.count = @ + 1, !.length = @ \/ isLength,
                                 !.encoding = @ \/ h.lower = "transfer-encoding",
                                 !.headers = Put(@, h.key, h.value)]

HttpVerdict(line, read) ==
    IF HttpRequestLine(line) # 0 THEN HttpRequestLine(line)
    ELSE IF read.status # 0 THEN read.status
    ELSE IF read.encoding /\ read.length THEN 400
    ELSE IF read.encoding THEN 501
    ELSE 0

Request(verdict, line, read, body) ==
    IF verdict # 0 THEN Error(verdict)
    ELSE [status |-> 200, method |-> line[1], path |-> line[2], headers |-> read.headers, body |-> body]

HttpRequest(line, read, body) == Request(HttpVerdict(line, read), line, read, body)
(***************************************************************************)
(* Server::parseRequest and its checks; each gives a status or 0.          *)
(***************************************************************************)
isValidHttpMethod(method) == method \in {"GET", "POST", "PUT", "DELETE", "PATCH", "HEAD", "OPTIONS"}
parse_request_line(line) ==
    IF Len(line) < 3 THEN 400 ELSE IF ~isValidHttpMethod(line[1]) THEN 405 ELSE 0
validate_request_path(path) ==
    CASE path = "/nul" -> 400
      [] path = "/long" -> 414
      [] path \in {"/..", "/%2e%2e"} -> 400
      [] OTHER -> 0
validate_header_count(count) == IF count > MaxHeaders THEN 431 ELSE 0
validate_header_size(word) == IF word = "long" THEN 431 ELSE 0
validate_header_value(value) == IF value = "nul" THEN 400 ELSE 0

check_duplicate_content_length(seen) == IF seen THEN 400 ELSE 0
validate_content_length(value) == CASE value = "huge" -> 413 [] value = "x" -> 400 [] OTHER -> 0
check_request_smuggling(encoding, length) == IF encoding /\ length THEN 400 ELSE 0
check_transfer_encoding_unsupported(encoding) == IF encoding THEN 501 ELSE 0

(* A check is made when the ones before it found nothing.                  *)
FirstOf(status, next) == IF status # 0 THEN status ELSE next
ServerHeader(acc, word) ==
    LET h == Header(word)
        isLength == h.lower = "content-length"
        found == FirstOf(validate_header_count(acc.count + 1),
                 FirstOf(validate_header_size(word),
                 FirstOf(IF HasColon(word) THEN validate_header_value(h.value) ELSE 0,
                 FirstOf(IF isLength THEN check_duplicate_content_length(acc.length) ELSE 0,
                      IF isLength THEN validate_content_length(h.value) ELSE 0))))
    IN IF acc.status # 0 THEN acc
       ELSE IF found # 0 THEN RefusedWith(acc, found)
       ELSE IF ~HasColon(word) THEN [acc EXCEPT !.count = @ + 1]
       ELSE [acc EXCEPT !.count = @ + 1, !.length = @ \/ isLength,
                                 !.encoding = @ \/ h.lower = "transfer-encoding",
                                 !.headers = Put(@, h.key, h.value)]

ServerVerdict(line, read) ==
    IF parse_request_line(line) # 0 THEN parse_request_line(line)
    ELSE FirstOf(validate_request_path(line[2]), FirstOf(read.status,
         FirstOf(check_request_smuggling(read.encoding, read.length), check_transfer_encoding_unsupported(read.encoding))))

ServerRequest(line, read, body) == Request(ServerVerdict(line, read), line, read, body)

(***************************************************************************)
(* Both read the header lines one by one.                                  *)
(***************************************************************************)
ReadHeader(server, acc, word) ==
    IF word \in {"CR", "LF"} THEN acc
    ELSE IF server = "HttpServer" THEN HttpHeader(acc, word) ELSE ServerHeader(acc, word)
ReadHeaders(server, words) ==
    LET read[n \in 0..Len(words)] == IF n = 0 THEN Reading ELSE ReadHeader(server, read[n - 1], words[n])
    IN read[Len(words)]

HttpParse(data) ==
    HttpRequest(RequestLine(data), ReadHeaders("HttpServer", HeaderLines(data)), BodyOf(data))
ServerParse(data) ==
    ServerRequest(RequestLine(data), ReadHeaders("Server", HeaderLines(data)), BodyOf(data))

(***************************************************************************)
(* Answers                                                                 *)
(***************************************************************************)
FirstOfList(value) == IF value = "b, c" THEN "b" ELSE value
realIP(request) ==
    Get(request.headers, "X-Real-IP", FirstOfList(Get(request.headers, "X-Forwarded-For", "")))
request_real_ip(request) ==
    IF "X-Real-IP" \in DOMAIN request.headers THEN request.headers["X-Real-IP"]
    ELSE IF "X-Forwarded-For" \in DOMAIN request.headers THEN FirstOfList(request.headers["X-Forwarded-For"]) ELSE ""

processRequest(request) ==
    CASE request.path \in {"/health", "/version"} -> [status |-> 200, of |-> request.path, ip |-> ""]
      [] request.path = "/status" -> [status |-> 200, of |-> request.path, ip |-> realIP(request)]
      [] OTHER -> [status |-> 404, of |-> request.path, ip |-> ""]

process_health_check(path) == path = "/health"
process_version(path) == path = "/version"
process_status(path) == path = "/status"
process_not_found(path) == [status |-> 404, of |-> path, ip |-> ""]
ServerProcess(request) ==
    IF process_health_check(request.path) \/ process_version(request.path)
    THEN [status |-> 200, of |-> request.path, ip |-> ""]
    ELSE IF process_status(request.path) THEN [status |-> 200, of |-> request.path, ip |-> request_real_ip(request)]
    ELSE process_not_found(request.path)

NoAnswer == [status |-> -1]
Replied(request, reply) ==
    IF request.status # 200 THEN [status |-> request.status, request |-> request]
    ELSE [status |-> reply.status, reply |-> reply, request |-> request]
HttpAnswer(request) == Replied(request, processRequest(request))
ServerAnswer(request) == Replied(request, ServerProcess(request))
Answer(server, data) ==
    IF server = "HttpServer" THEN HttpAnswer(HttpParse(data)) ELSE ServerAnswer(ServerParse(data))

(***************************************************************************)
(* Receiving                                                               *)
(***************************************************************************)
Arrived(n) == SubSeq(hcase.stream, 1, n)

(* Wrong: the empty line is looked for in the last piece only.             *)
HeadersCompleteInPiece(before, now) == HeadEnd(SubSeq(hcase.stream, before + 1, now)) # 0
HeadersComplete(before, now) == HeadEnd(Arrived(now)) # 0

Receive ==
    \E n \in (hgot + 1)..(hgot + BufferSize) :
        /\ n <= Len(hcase.stream) /\ hgot < MaxRequest
        /\ hgot' = n
        /\ hout' = IF HeadersComplete(hgot, n) THEN Answer(hcase.server, Arrived(n))
                   ELSE IF n >= MaxRequest THEN [status |-> 413] ELSE Pending

(* The peer closed or was silent for too long.                             *)
ReceiveEnds == hgot = Len(hcase.stream) /\ hout' = NoAnswer /\ UNCHANGED hgot

Heads == {<<m, p, "HTTP/1.1">> : m \in Methods, p \in Paths} \cup {<<>>, <<"GET", "/health">>}
SomeHeads == {<<"GET", "/status", "HTTP/1.1">>}
Lined(words) ==
    [i \in 1..(3 * Len(words)) |->
       IF i % 3 = 1 THEN words[(i + 2) \div 3] ELSE IF i % 3 = 2 THEN "CR" ELSE "LF"]
(* A request, whole; and one that ends anywhere before its empty line.     *)
RequestText(head, words, body) == head \o CRLF \o Lined(words) \o CRLF \o body
Broken(n) == SubSeq(<<"GET", "/status", "HTTP/1.1", "CR", "LF", "word", "CR", "LF">>, 1, n)
ManyHeaders == {RequestText(h, ws, b) : h \in SomeHeads, ws \in SeqOf(HeaderWords, MaxLines), b \in {<<>>, <<"x">>}}
Bodies == {<<>>, <<"x">> \o CRLF \o CRLF}
ManyLines == SeqOf({"X-Real-IP: a"}, 2 * MaxLines)
ManyHeads == {RequestText(h, ws, b) : h \in Heads, ws \in ManyLines, b \in Bodies}
Streams == ManyHeaders \cup ManyHeads \cup {Broken(n) : n \in 0..8}

InitParsing ==
    /\ hcase \in [server : {"HttpServer", "Server"}, stream : Streams]
    /\ hgot = 0 /\ hout = Pending
NextParsing == hout = Pending /\ (Receive \/ ReceiveEnds) /\ UNCHANGED hcase
SpecParsing == InitParsing /\ [][NextParsing]_parseVars

-----------------------------------------------------------------------------
(* The answer is that of the head of the request, wherever the network     *)
(* cuts it, between CR and LF included, and whatever of the body came      *)
(* along: a request whose head fits is answered, one that is too long by   *)
(* more than a buffer is refused as too long, and in between the cuts      *)
(* decide.                                                                 *)
AnswerIgnoresCuts ==
    hout # Pending =>
        LET head == HeadEnd(hcase.stream) IN
        IF head # 0 /\ head <= MaxRequest
        THEN LET whole == Answer(hcase.server, SubSeq(hcase.stream, 1, head)) IN
             /\ hout.status = whole.status
             /\ "reply" \in DOMAIN whole => hout.reply = whole.reply /\ IsPrefix(hout.request.body, SubSeq(hcase.stream, head + 1, Len(hcase.stream)))
        ELSE \/ hout.status = 413 /\ hgot >= MaxRequest
             \/ hout = NoAnswer /\ head = 0
             \/ head # 0 /\ head < MaxRequest + BufferSize /\ hgot >= head

(* The twins have not drifted apart: what the split server answers the     *)
(* other answers alike, and a request only the split one refuses has a     *)
(* method that is not served or a path that leads upwards.                 *)
TwinsAgree ==
    hout # Pending /\ "request" \in DOMAIN hout =>
        LET other == Answer(IF hcase.server = "Server" THEN "HttpServer" ELSE "Server", Arrived(hgot)) IN
        \/ other = hout
        \/ /\ {other.status, hout.status} \cap {400, 405} # {}
           /\ hcase.stream[1] = "BREW" \/ hcase.stream[2] \in {"/..", "/%2e%2e"}
=============================================================================
