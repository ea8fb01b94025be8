--------------------------- MODULE HttpConnection ---------------------------
(***************************************************************************)
(* One client and its cache connection: the bytes of its requests reach    *)
(* the ring buffer in pieces, the handlers of http_parse_cache.cpp take    *)
(* them out of it, and the handlers of http_respond.cpp send the answers.  *)
(* The table, its keys and their reference counts are CacheServer's; here  *)
(* a key has a value or it has none.                                       *)
(*                                                                         *)
(* A character is a short string: a method, a header name or a version is  *)
(* two of them, a line ends with "n", perhaps after an "r".                *)
(***************************************************************************)
EXTENDS ReadBuffer

CONSTANTS Keys,           \* keys, each a sequence of characters
          Values,         \* values, each a sequence of at most nine characters
          LongestMethod,  \* LONGEST_REQMETHOD
          Pipeline,       \* characters left to send when the next request follows
          Reconnects      \* requests after which the client opens a new connection

ASSUME ConnectionAssumption ==
    /\ \A k \in Keys : k \in Seq(STRING)
    /\ \A v \in Values : v \in Seq(STRING) /\ Len(v) \in 1 .. 9

VARIABLES
    rb,       \* connection->input
    conn,     \* the other members of the connection
    db,       \* the value of every key, <<>> when it has none
    lpc,      \* what the event loop does for the connection
    old,      \* to_end of the last pass of http_read_handle's loop
    num,      \* characters that http_read_handle has read
    fault,    \* how the code left the ring buffer's memory, if it did
    client,   \* "steady": one request at a time, or "eager": it pipelines
    todo,     \* characters sent and not yet read
    due,      \* characters of the answers that the client still waits for
    wrong,    \* the client got characters that it does not wait for
    last,     \* the client's last request on this connection
    view,     \* the keys' values when all that was sent has been served
    unread    \* history: what was put in the ring and not taken out

vars == <<rb, conn, db, lpc, old, num, fault, client, todo, due, wrong, last, view, unread>>

Digits  == <<"1", "2", "3", "4", "5", "6", "7", "8", "9">>
Digit(n) == IF n = 0 THEN "0" ELSE Digits[n]
IsNumber(s) == \A i \in DOMAIN s : s[i] = "0" \/ s[i] \in Range(Digits)
\* A number is one digit.
NumberOf(s) ==
    IF \E d \in DOMAIN Digits : s = <<Digits[d]>>
    THEN CHOOSE d \in DOMAIN Digits : s = <<Digits[d]>> ELSE 0

GET == <<"G", "T">>
PUT == <<"P", "T">>
DELETE == <<"D", "T">>
ContentLength == <<"L", "N">>

RequestLine(m, url) == m \o <<" ">> \o url \o <<" ", "V", "V", "n">>
KeyUrl(k)    == <<"/", "t", "/">> \o k

\* The requests of the client.  The table "u" does not exist.
Requests ==
    [kind : {"get", "delete", "gone"}, key : Keys] \cup
    [kind : {"put"}, key : Keys, value : Values \cup {<<>>}] \cup
    [kind : {"bad", "long"}, key : Keys] \cup [kind : {"stats", "odd", "endless"}]

Text(q) ==
    CASE q.kind = "get"    -> RequestLine(GET, KeyUrl(q.key)) \o <<"X", "n", "n">>
      [] q.kind = "delete" -> RequestLine(DELETE, KeyUrl(q.key)) \o <<"r", "n">>
      [] q.kind = "gone"   -> RequestLine(GET, <<"/", "u", "/">> \o q.key) \o <<"n">>
      [] q.kind = "put"    -> RequestLine(PUT, KeyUrl(q.key)) \o ContentLength
                              \o <<":", " ", Digit(Len(q.value)), "r", "n", "n">> \o q.value
      [] q.kind = "bad"    -> RequestLine(PUT, KeyUrl(q.key)) \o ContentLength \o <<":", "Z", "n", "n">>
      [] q.kind = "long"   -> RequestLine(GET, KeyUrl(q.key)) \o [i \in 1 .. Size |-> "X"]
      [] q.kind = "endless" -> GET \o <<" ", "/">> \o [i \in 1 .. Size |-> "X"]
      [] q.kind = "stats"  -> RequestLine(GET, <<"/">>) \o <<"n">>
      [] q.kind = "odd"    -> RequestLine(<<"O", "T">>, <<"/">>) \o <<"n">>

\* What the protocol answers to a request, given the values of the keys.
Answer(q, d) ==
    CASE q.kind = "get" /\ d[q.key] # <<>> ->
             <<"200", "ttl", Digit(Len(d[q.key])), "nl">> \o d[q.key]
      [] q.kind = "delete" /\ d[q.key] # <<>> -> <<"deleted">>
      [] q.kind = "put" /\ q.value # <<>>     -> <<"ok">>
      [] q.kind = "put" /\ q.value = <<>>     -> <<"invalid length">>
      [] q.kind = "bad"   -> <<"invalid method">>
      [] q.kind = "stats" -> <<"stats">>
      [] q.kind = "odd"   -> <<"unknown method">>
      [] q.kind = "long"  -> <<"too large">>
      [] q.kind = "endless" -> <<>>
      [] OTHER -> <<"404">>

\* ... and what it makes of the keys.
Effect(q, d) ==
    IF q.kind \in {"put", "delete", "bad"}
    THEN [d EXCEPT ![q.key] = IF q.kind = "put" THEN q.value ELSE <<>>] ELSE d

Nothing == <<>>    \* output_buffer = NULL

NewConnection ==
    [handler |-> "method", state |-> 0, target |-> 0, method |-> Nothing, key |-> Nothing,
     writing |-> FALSE, left |-> 0, value |-> <<>>, out |-> Nothing, epollin |-> TRUE]

Init ==
    /\ rb = rbuf_init /\ conn = NewConnection /\ lpc = "epoll" /\ old = -1 /\ num = 0
    /\ fault = "none" /\ client \in {"steady", "eager"}
    /\ db = [k \in Keys |-> <<>>] /\ view = db
    /\ todo = <<>> /\ due = <<>> /\ wrong = FALSE /\ last = "none" /\ unread = <<>>

-----------------------------------------------------------------------------
(* What a scan of the ring finds.                                           *)

IsNewline(ch) == ch \in {"r", "n"}

\* skip_over_newlines: how many, and whether it goes on behind the end of the
\* memory, in its first loop (a full buffer) or in its second one.
Leading(r) ==
    Cardinality({i \in 0 .. rbuf_read_to_end(r) - 1 :
                    \A j \in 0 .. i : Mask(r.read) + j < Size /\ IsNewline(r.buf[Mask(r.read) + j])})
SkipsTooFar(r) ==
    LET n == Leading(r)
    IN  IF n = rbuf_read_to_end(r) THEN rbuf_read_remaining(r) > 2 * n
        ELSE Mask(r.read) + n >= Size

\* The buffer that the handler scans.
Input == IF conn.handler = "method" THEN Readmove(rb, Leading(rb)) ELSE rb

\* Newlines counted by http_read_eoltoend at step n, "\r" not being one.
Newlines(n) ==
    LET blank(m) == \A l \in m .. n : IsNewline(At(rb, l))
    IN  Cardinality({m \in 0 .. n : At(rb, m) = "n" /\ blank(m)}) + (IF blank(0) THEN conn.state ELSE 0)

\* Spaces that http_read_header_extraction has taken out before step n: they
\* shorten the buffer under RBUF_ITERATE.
Spaces(n) == Cardinality({m \in 0 .. n - 1 : At(rb, m) = " "})

IsContentLength(n) ==
    conn.method = PUT /\ n = Len(ContentLength) /\ rbuf_cmpn(rb, ContentLength)

\* The handler's loop over the buffer in ends at step n.
Stops(in, n) ==
    LET ch == At(in, n)
    IN  CASE conn.handler = "method"  -> n > LongestMethod \/ ch = " "
          [] conn.handler = "url"     -> ch = " " \/ (conn.state = 0 /\ n # 0 /\ ch = "/")
          [] conn.handler = "version" -> ch = "n"
          [] conn.handler = "headers" -> ch = "n" \/ (ch = ":" /\ IsContentLength(n))
          [] conn.handler = "extract" -> IsNewline(ch) /\ n < rbuf_read_remaining(rb) - Spaces(n)
          [] conn.handler \in {"eol", "eolstats"} -> Newlines(n) = conn.target

\* The step at which RBUF_ITERATE ends, if there is one.
Stop(in) == {n \in Steps(in) : Stops(in, n) /\ \A m \in 0 .. n - 1 : ~Stops(in, m)}

\* The loop looks at memory that is not the buffer's before it ends.
Overruns(in, stop) == \E n \in Steps(in) : At(in, n) = "past" /\ \A m \in stop : n < m

-----------------------------------------------------------------------------
(* http_read_handle: the read, then the handler until it makes no progress. *)

Client == <<client, todo, due, wrong, last, view>>

Fault(what) ==
    /\ fault' = what
    /\ UNCHANGED <<rb, conn, lpc, old, num, unread, Client>>

\* Mutant: the positions of an empty buffer are left as they are.
Read_no_reset(k) ==
    LET s == SubSeq(todo, 1, k)
    IN  /\ k <= Len(todo) /\ k <= rbuf_write_to_end(rb)
        /\ rb' = Fill(rb, s) /\ unread' = unread \o s /\ num' = k
        /\ todo' = SubSeq(todo, k + 1, Len(todo))
        /\ UNCHANGED <<conn, db, fault, client, due, wrong, last, view>>

\* k characters have arrived when the socket is read.
Read(k) ==
    LET r == IF rb.read = rb.write THEN [rb EXCEPT !.read = 0, !.write = 0] ELSE rb
        s == SubSeq(todo, 1, k)
    IN  /\ k <= Len(todo) /\ k <= rbuf_write_to_end(r)
        /\ rb' = Fill(r, s) /\ unread' = unread \o s /\ num' = k
        /\ todo' = SubSeq(todo, k + 1, Len(todo))
        /\ UNCHANGED <<conn, db, fault, client, due, wrong, last, view>>

\* An EPOLLIN event.  A full buffer is handled without a read.
ReadEvent ==
    /\ lpc = "epoll" /\ conn.epollin /\ todo # <<>>
    /\ lpc' = "handle" /\ old' = -1
    /\ \E k \in 0 .. Size : (k = 0 <=> rbuf_write_remaining(rb) = 0) /\ Read(k)

\* http_register_read reads at once.  Without data nothing is handled, not
\* even what the ring still holds.
ReadAgain ==
    /\ lpc = "read" /\ old' = -1
    /\ IF rbuf_write_remaining(rb) = 0
       THEN lpc' = "epoll" /\ UNCHANGED <<rb, conn, db, num, fault, unread, Client>>
       ELSE \E k \in 0 .. Size : Read(k) /\ lpc' = IF k = 0 THEN "epoll" ELSE "handle"

\* Mutant: one call of the handler for each read.
Return_once(n, c, run) ==
    /\ n <= rbuf_read_remaining(rb)
    /\ rb' = Readmove(rb, n) /\ unread' = SubSeq(unread, n + 1, Len(unread))
    /\ conn' = c /\ lpc' = "epoll" /\ UNCHANGED <<old, num, fault, Client>>

\* The handler has taken n characters, left the connection as c and returned
\* run: the loop of http_read_handle, and the check for a full buffer.
Return(n, c, run) ==
    LET r    == Readmove(rb, n)
        left == rbuf_read_remaining(r)
    IN  IF n > rbuf_read_remaining(rb) THEN Fault("read past write")
        ELSE /\ rb' = r
             /\ unread' = SubSeq(unread, n + 1, Len(unread))
             /\ conn' = c
             /\ old' = left
             /\ lpc' = IF run = "needs_more_read" /\ left # 0 /\ left # old THEN "handle"
                       ELSE IF run # "registered_write" /\ num = 0 /\ left = Size THEN "closed"
                       ELSE "epoll"
             /\ UNCHANGED <<num, fault, Client>>

Handling(h) == lpc = "handle" /\ conn.handler = h

\* http_write_response, and the two that read the rest of the request first.
WriteResponse(c, text) ==
    [c EXCEPT !.handler = "writeonly", !.out = text, !.state = 0, !.epollin = FALSE]
ResponseAfterEol(c, text, target) ==
    [c EXCEPT !.handler = "eol", !.out = text, !.state = 0, !.target = target]

\* http_read_requeststartmethod.
Method(in, n) ==
    LET skip   == Leading(rb)
        method == {m \in {GET, PUT, DELETE} : n = Len(m) /\ rbuf_cmpn(in, m)}
        c      == [conn EXCEPT !.method = IF method = {} THEN Nothing ELSE CHOOSE m \in method : TRUE]
    IN  /\ Handling("method") /\ UNCHANGED db
        /\ Return(skip + n + 1,
                  IF n > LongestMethod THEN ResponseAfterEol(c, <<"long method">>, 1)
                  ELSE IF method = {} THEN ResponseAfterEol(c, <<"unknown method">>, 1)
                  ELSE [c EXCEPT !.handler = "url", !.state = 0],
                  "needs_more_read")

\* http_read_requeststarturl1, for a key of a table or for the statistics.  One
\* character is taken before the ones that the URL has.
Table(n) ==
    /\ Handling("url") /\ conn.state = 0 /\ UNCHANGED db
    /\ IF At(rb, n) = " "
       THEN Return(n + 2, [conn EXCEPT !.handler = "eolstats", !.state = 0, !.target = 0],
                   "needs_more_read")
       ELSE IF rbuf_copyn(Readmove(rb, 1), n - 1) = <<"t">>
       THEN Return(n + 1, [conn EXCEPT !.state = 1], "needs_more_read")
       ELSE Return(1, ResponseAfterEol(conn, <<"404">>, 2), "needs_more_read")

\* http_read_requeststarturl2 and http_key_lookup: a PUT starts with an empty entry.
Key(n) ==
    LET key == rbuf_copyn(rb, n)
        put == conn.method = PUT
    IN  /\ Handling("url") /\ conn.state = 1
        /\ db' = IF put THEN [db EXCEPT ![key] = <<>>] ELSE db
        /\ Return(n + 1, [conn EXCEPT !.handler = "version", !.state = 0, !.key = key,
                                      !.writing = put, !.left = 0,
                                      !.value = IF put THEN <<>> ELSE db[key]],
                  "needs_more_read")

\* http_read_version.
Version(n) ==
    /\ Handling("version") /\ UNCHANGED db
    /\ Return(n + 1, [conn EXCEPT !.handler = "headers", !.state = 1], "needs_more_read")

\* connection->state when the scan of a header line is at step n.
LineState(n) == IF \A m \in 0 .. n - 1 : At(rb, m) \in {"r", ":"} THEN conn.state ELSE 0

\* http_read_headers, at the name of a header that is wanted and at the end of a line.
HeaderName(n) ==
    /\ Handling("headers") /\ At(rb, n) = ":" /\ UNCHANGED db
    /\ Return(n + 1, [conn EXCEPT !.handler = "extract", !.state = 1], "needs_more_read")

HeaderLine(n) ==
    /\ Handling("headers") /\ At(rb, n) = "n" /\ LineState(n) # 1 /\ UNCHANGED db
    /\ Return(n + 1, [conn EXCEPT !.state = 1], "needs_more_read")

\* The empty line: the router.
Route(n) ==
    LET found == conn.value # <<>>
        c     == [conn EXCEPT !.state = 2]
    IN  /\ Handling("headers") /\ At(rb, n) = "n" /\ LineState(n) = 1
        /\ db' = IF conn.method = DELETE THEN [db EXCEPT ![conn.key] = <<>>] ELSE db
        /\ \/ /\ conn.method = PUT /\ conn.left # 0
              /\ Return(n + 1, [c EXCEPT !.handler = "body"], "needs_more_read")
           \/ /\ conn.method = PUT /\ conn.left = 0
              /\ Return(n + 1, WriteResponse(c, <<"invalid length">>), "registered_write")
           \/ /\ conn.method # PUT /\ ~found
              /\ Return(n + 1, WriteResponse(c, <<"404">>), "registered_write")
           \/ /\ conn.method = DELETE /\ found
              /\ Return(n + 1, WriteResponse(c, <<"deleted">>), "registered_write")
           \/ /\ conn.method = GET /\ found
              /\ Return(n + 1, [c EXCEPT !.handler = "expires", !.out = <<"200">>, !.state = 0,
                                         !.epollin = FALSE], "registered_write")

\* Mutant: the "\n" after a "\r" stays in the buffer.
LineEnd_short(ch) == 1

\* The characters that end a header's value: two for a "\r", whatever follows it.
LineEnd(ch) == IF ch = "r" THEN 2 ELSE 1

\* http_read_header_extraction for Content-Length.  The length is a difference
\* of addresses.
Extract(n) ==
    LET value  == Readmove(rb, Spaces(n))
        length == Pointer(rb, n) - Mask(value.read)
        taken  == Spaces(n) + length + LineEnd(At(rb, n))
        digits == rbuf_strntol(value, length)
    IN  /\ Handling("extract") /\ UNCHANGED db
        /\ IF length < 0 THEN Fault("negative length")
           ELSE IF IsNumber(digits)
           THEN Return(taken, [conn EXCEPT !.handler = "headers", !.state = 1,
                                           !.left = NumberOf(digits)], "needs_more_read")
           ELSE Return(taken, WriteResponse(conn, <<"invalid method">>), "registered_write")

\* http_read_eoltoend: the newline that ends the search stays in the buffer.
Eol(n) ==
    /\ Handling("eol") \/ Handling("eolstats")
    /\ Return(n, [conn EXCEPT !.state = 0, !.epollin = FALSE,
                              !.handler = IF @ = "eol" THEN "writeonly" ELSE "stats"],
              "registered_write")
    /\ UNCHANGED db

\* The scan has come to the end of what the buffer holds.
Wait ==
    LET all == rbuf_read_remaining(rb)
    IN  /\ UNCHANGED db
        /\ \/ /\ Handling("method")
              /\ Return(Leading(rb), [conn EXCEPT !.method = Nothing], "needs_more_read")
           \/ Handling("url") /\ Return(0, conn, "needs_more_read")
           \/ Handling("version") /\ Return(all, conn, "needs_more_read")
           \/ /\ Handling("headers") /\ all < Size
              /\ Return(0, [conn EXCEPT !.state = LineState(all)], "needs_more_read")
           \/ /\ Handling("headers") /\ all = Size
              /\ Return(0, WriteResponse(conn, <<"too large">>), "registered_write")
           \/ Handling("extract") /\ Return(Spaces(all), conn, "needs_more_read")
           \/ /\ Handling("eol") \/ Handling("eolstats")
              /\ Return(all, [conn EXCEPT !.state = IF all = 0 THEN @ ELSE Newlines(all - 1)],
                        "needs_more_read")

\* What is contiguous of the body goes to the file.
Body ==
    LET max_write == rbuf_read_to_end(rb)
        to_write  == Min({conn.left, max_write})
        c == [conn EXCEPT !.left = @ - to_write,
                          !.value = @ \o Cells(rb, Mask(rb.read), to_write)]
    IN  /\ Handling("body") /\ max_write >= 0
        /\ IF Mask(rb.read) + to_write > Size
           THEN Fault("past the end") /\ UNCHANGED db
           ELSE IF c.left = 0
           THEN /\ Return(to_write, WriteResponse([c EXCEPT !.writing = FALSE], <<"ok">>),
                          "registered_write")
                /\ db' = [db EXCEPT ![c.key] = c.value]
           ELSE Return(to_write, c, "continue_processing") /\ UNCHANGED db

\* The counts that rbuf_read_to_end gives are negative when the buffer is full
\* and the 16-bit write position has wrapped: no handler expects that.
Negative == lpc = "handle" /\ rbuf_read_to_end(rb) < 0

Scan ==
    /\ lpc = "handle" /\ conn.handler # "body" /\ ~Negative
    /\ \E in \in {Input} : \E stop \in {Stop(in)} :
          IF (conn.handler = "method" /\ SkipsTooFar(rb)) \/ Overruns(in, stop)
          THEN Fault("past the end") /\ UNCHANGED db
          ELSE \/ stop = {} /\ Wait
               \/ \E n \in stop : \/ Method(in, n) \/ Table(n) \/ Key(n) \/ Version(n)
                                  \/ HeaderName(n) \/ HeaderLine(n) \/ Route(n)
                                  \/ Extract(n) \/ Eol(n)

Handle == \/ Negative /\ Fault("negative length") /\ UNCHANGED db
          \/ Scan
          \/ Body

-----------------------------------------------------------------------------
(* http_write_handle: the output buffer is written, then the handler runs.  *)

\* The client compares what it gets with what it waits for.
Receive(s) ==
    /\ due'   = IF IsPrefix(s, due) THEN SubSeq(due, Len(s) + 1, Len(due)) ELSE due
    /\ wrong' = (wrong \/ ~IsPrefix(s, due))
    /\ UNCHANGED <<client, todo, last, view>>

Responding(h) ==
    /\ lpc = "epoll" /\ ~conn.epollin /\ conn.handler = h
    /\ UNCHANGED <<rb, old, num, fault, unread>>

RespondExpires ==
    /\ Responding("expires") /\ Receive(conn.out)
    /\ conn' = [conn EXCEPT !.handler = "contentlength", !.out = <<"ttl">>]
    /\ UNCHANGED <<db, lpc>>

RespondContentLength ==
    /\ Responding("contentlength") /\ Receive(conn.out)
    /\ conn' = [conn EXCEPT !.handler = "responseend", !.out = <<Digit(Len(db[conn.key]))>>]
    /\ UNCHANGED <<db, lpc>>

RespondResponseEnd ==
    /\ Responding("responseend") /\ Receive(conn.out)
    /\ conn' = [conn EXCEPT !.handler = "contentbody", !.out = <<"nl">>]
    /\ UNCHANGED <<db, lpc>>

RespondStats ==
    /\ Responding("stats") /\ Receive(conn.out)
    /\ conn' = [conn EXCEPT !.handler = "writeonly", !.out = <<"stats">>]
    /\ UNCHANGED <<db, lpc>>

\* http_cleanup, and http_register_read: the connection is for the next request.
Finish ==
    /\ conn' = NewConnection /\ lpc' = "read"
    /\ db' = IF conn.writing THEN [db EXCEPT ![conn.key] = <<>>] ELSE db

\* sendfile sends a part of the value.
RespondContentBody(k) ==
    /\ Responding("contentbody") /\ Receive(conn.out \o SubSeq(conn.value, 1, k))
    /\ IF k = Len(conn.value) THEN Finish
       ELSE /\ conn' = [conn EXCEPT !.out = Nothing, !.value = SubSeq(@, k + 1, Len(@))]
            /\ UNCHANGED <<db, lpc>>

RespondWriteonly == Responding("writeonly") /\ Receive(conn.out) /\ Finish

Respond == \/ RespondExpires \/ RespondContentLength \/ RespondResponseEnd
           \/ RespondStats \/ RespondWriteonly
           \/ \E k \in 1 .. Len(conn.value) : RespondContentBody(k)

-----------------------------------------------------------------------------
(* The client.                                                              *)

\* A steady client waits for every answer and asks for nothing that makes the
\* server leave newlines in the ring; an eager one sends the next request when
\* at most Pipeline characters of the last one are left.
Send(q) ==
    /\ lpc = "epoll" /\ last \notin Reconnects /\ ~wrong
    /\ client = "steady" => todo = <<>> /\ due = <<>> /\ q.kind \notin {"gone", "odd"}
    /\ client = "eager"  => Len(todo) <= Pipeline /\ q.kind \in {"get", "put", "gone", "odd"}
    /\ todo' = todo \o Text(q) /\ due' = due \o Answer(q, view)
    /\ view' = Effect(q, view) /\ last' = q.kind
    /\ UNCHANGED <<rb, conn, db, lpc, old, num, fault, client, wrong, unread>>

\* The client drops the connection and opens another one: http_cleanup and
\* connection_remove, then rbuf_init and http_connection_handler.
Reconnect ==
    /\ lpc \in {"epoll", "closed"} /\ last # "none"
    /\ rb' = rbuf_init /\ conn' = NewConnection /\ lpc' = "epoll" /\ old' = -1 /\ num' = 0
    /\ db' = IF conn.writing THEN [db EXCEPT ![conn.key] = <<>>] ELSE db
    /\ view' = db' /\ todo' = <<>> /\ due' = <<>> /\ last' = "none" /\ unread' = <<>>
    /\ UNCHANGED <<fault, client, wrong>>

Server == ReadEvent \/ ReadAgain \/ Handle \/ Respond

\* After a read outside the buffer the model does not say what happens.
Lost == fault # "none" /\ UNCHANGED vars

Next == \/ fault = "none" /\ (Server \/ Reconnect \/ \E q \in Requests : Send(q))
        \/ Lost

\* The event loop is never blocked: an event of the connection is served.  Only
\* the steady client's liveness is claimed, so only it needs the assumption.
Spec == Init /\ [][Next]_vars /\ WF_vars(client = "steady" /\ fault = "none" /\ Server)

-----------------------------------------------------------------------------
\* The ring buffer is a queue: what rbuf_copyn and RBUF_ITERATE find is what was
\* read from the socket and not consumed, in order, across the end of the memory
\* and across the wrap of the 16-bit positions.  A buffer filled to the last
\* character is the exception (rbuf_read_to_end, read_buffer.cpp:157).  The copy
\* across the end is right in the release build; in a debug build it is the one
\* at which the assertion of rbuf_copyn fails (read_buffer.cpp:43), since the
\* character that ends the name is still unread.
RingExact ==
    rbuf_read_remaining(rb) < Size =>
        /\ rbuf_read_remaining(rb) = Len(unread)
        /\ \A n \in 0 .. Len(unread) : rbuf_copyn(rb, n) = SubSeq(unread, 1, n)
        /\ \A n \in Steps(rb) : At(rb, n) = unread[n + 1]

\* The client gets the answers to its requests in the order it sent them, every
\* value as it was last uploaded, and nothing else, however the requests are cut
\* into pieces and even if it does not wait for an answer before the next one.
InOrder == ~wrong

\* Nothing takes the parser of a steady client's requests out of the ring but a
\* piece that ends between the "\r" and the "\n" of a Content-Length line
\* (http_parse_cache.cpp:566), or right after the URL "/" (line 254), or a line
\* that fills the buffer from an offset on (read_buffer.cpp:161).
FaultsOnlyOnSplit ==
    fault # "none" /\ client = "steady" =>
        \/ /\ fault = "read past write" /\ unread # <<>> /\ todo # <<>>
           /\ \/ Last(unread) = "r" /\ todo[1] = "n"
              \/ last = "stats" /\ unread = <<"/", " ">>
        \/ fault = "past the end" /\ last \in {"long", "endless"} /\ Len(unread) = Size

\* A steady client gets its answer.
Answered ==
    (client = "steady" /\ due # <<>>) ~> (due = <<>> \/ fault # "none")
=============================================================================
