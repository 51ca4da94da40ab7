----------------------------- MODULE RequestScope -----------------------------
(***************************************************************************)
(* The body of one request and the uploads taken from it.  Middlewares,    *)
(* parsers and the handler ask for the body in whatever order they come:   *)
(* the bytes (Body), the form (PostForm), a multipart form, its files.     *)
(* net/http's readers consume it once, the scope remembers it and puts it  *)
(* back.  Uploads become temp copies on disk, which the handler publishes  *)
(* and the end of the request (Message.Close) releases.                    *)
(***************************************************************************)
EXTENDS Naturals, Sequences, FiniteSets
LOCAL INSTANCE FiniteSetsExt

CONSTANTS
    Posted,         \* the requests: [type, text, sound, parts, registers]
    MaxBody,        \* http.security.body.maxSizeMB
    Ceiling,        \* MaxRequestBodyBytes
    Budget,         \* http.upload.maxMultipartSize
    Framing,        \* multipartFramingAllowance
    MaxFiles, MaxFile,
    FileCap,        \* http.security.file.maxSizeMB
    FormLimit,      \* what net/http's ParseForm reads of a body nobody capped
    NoCap,
    Places,         \* directories uploads are published in
    Nowhere,
    MaxCopies, MaxFaults    \* bounds

ASSUME ScopeConstantsOK ==
    /\ {MaxBody, Ceiling, Budget, Framing, MaxFiles, MaxFile, FileCap, FormLimit, MaxCopies, MaxFaults} \subseteq Nat
    /\ NoCap \notin Nat /\ Nowhere \notin Places
    /\ \A p \in Posted : p.parts \in Seq([size : Nat, kind : {"good", "refused"},
                                        field : {"file", "title", "unknown"}])

VARIABLES
    posted,         \* the request
    stream,         \* R.Body: what reading it to the end gives, its cap, whether it refused
    bodyMemo,       \* cachedBody, bodyErr, bodyRead
    formSeen,       \* R.PostForm: none, or what of the form it holds
    multi,          \* R.MultipartForm is there
    bodyCapped,
    copies,         \* the MultipartFiles made
    storedCopies,   \* HTTPRequestScope.stored
    closers,        \* Message.closers
    over,           \* Message.Close has run
    reply,          \* ghost: what the last reader was told
    formBroken,     \* ghost: a ParseForm failed, or was given less than the body
    passedBy,       \* ghost: somebody read the body past the scope, or took it apart, before the memo
    diskFaults      \* ghost: what the disk refused so far

bodyVars == <<posted, stream, bodyMemo, formSeen, multi, bodyCapped, reply, formBroken, passedBy>>
uploadVars == <<copies, storedCopies, closers, over, diskFaults>>
requestVars == <<bodyVars, uploadVars>>

FileBytes == MapThenSumSet(LAMBDA i : posted.parts[i].size, DOMAIN posted.parts)
BodyBytes == posted.text + FileBytes

Smaller(m, n) == IF m = NoCap \/ n < m THEN n ELSE m
Armed(what) == [has |-> what, cap |-> NoCap, dead |-> FALSE]

---------------------------------------------------------------------------
\* Reading a stream to its end.
Gets(s) == IF s.dead \/ (s.has = "whole" /\ s.cap # NoCap /\ BodyBytes > s.cap) THEN "refused" ELSE s.has
Drained(s) == [s EXCEPT !.has = "nothing", !.dead = Gets(s) = "refused"]

\* Body, the first time: at most MaxBody.
Fetched == IF Gets(stream) = "whole" /\ BodyBytes > MaxBody THEN "refused" ELSE Gets(stream)
Memo == IF bodyMemo = "unread" THEN Fetched ELSE bodyMemo
Rearmed == Armed(IF Memo = "refused" THEN "nothing" ELSE Memo)

\* net/http's ParseForm: only an urlencoded body is read; a form it cannot read leaves what
\* it made of it, and no error for whoever asks again.
Form(seen, s, err) == [seen |-> seen, stream |-> s, err |-> err]
ParseForm(s) ==
    IF formSeen # "none" THEN Form(formSeen, s, FALSE)
    ELSE IF posted.type # "form" THEN Form("nothing", s, FALSE)
    ELSE IF Gets(s) = "refused" \/ (s.cap = NoCap /\ Gets(s) = "whole" /\ BodyBytes > FormLimit)
         THEN Form("nothing", Drained(s), TRUE)
    ELSE IF Gets(s) = "whole" /\ ~posted.sound THEN Form("rest", Drained(s), TRUE)
    ELSE Form(Gets(s), Drained(s), FALSE)

BreaksForm(s) == formSeen = "none" /\ ParseForm(s).seen # "whole"

\* parseMultipart: the cap goes on before the parse, once.
Capped == IF bodyCapped THEN stream ELSE [stream EXCEPT !.cap = Smaller(@, Budget + Framing)]
OpensForm == multi \/ (posted.type = "multipart" /\ posted.sound /\ Gets(Capped) = "whole")
parseMultipart ==
    IF multi THEN UNCHANGED <<stream, formSeen, formBroken, multi, bodyCapped>>
    ELSE LET f == ParseForm(Capped) IN
         /\ bodyCapped' = TRUE
         /\ formBroken' = (formBroken \/ BreaksForm(Capped))
         /\ multi' = OpensForm
         /\ formSeen' = IF OpensForm THEN "whole" ELSE f.seen
         /\ IF posted.type = "multipart"
            THEN \E left \in IF Gets(Capped) = "whole" /\ ~posted.sound THEN {"rest", "nothing"} ELSE {"nothing"} :
                     stream' = [Drained(f.stream) EXCEPT !.has = left]
            ELSE stream' = f.stream

Satisfied == [who |-> "nobody", what |-> "whole"]
\* What a reader is told; who is satisfied need not be remembered.
Told(who, what) ==
    reply' = IF what \in {"whole", "refused"} THEN Satisfied ELSE [who |-> who, what |-> what]

---------------------------------------------------------------------------
\* Message.Init: the ceiling goes on before anybody can read.
RequestInit ==
    /\ posted \in Posted
    /\ stream = [has |-> "whole", cap |-> Ceiling, dead |-> FALSE]
    /\ bodyMemo = "unread" /\ formSeen = "none" /\ multi = FALSE /\ bodyCapped = FALSE
    /\ copies = <<>> /\ storedCopies = {} /\ closers = {} /\ over = FALSE
    /\ reply = Satisfied
    /\ formBroken = FALSE /\ passedBy = FALSE /\ diskFaults = 0

\* Body, and what is built on it: the JSON parser, the API login.
ReadBody ==
    /\ ~over
    /\ bodyMemo' = Memo /\ stream' = Rearmed
    /\ Told("body", Memo)
    /\ UNCHANGED <<posted, formSeen, formBroken, multi, bodyCapped, passedBy, uploadVars>>

\* Fault: the form is parsed off the request itself.
ParseWithoutBody ==
    /\ ~over /\ ~multi /\ formSeen = "none"
    /\ LET f == ParseForm(stream) IN
       /\ formSeen' = f.seen /\ stream' = f.stream /\ formBroken' = BreaksForm(stream)
       /\ Told("form", IF f.err THEN "refused" ELSE f.seen)
    /\ UNCHANGED <<posted, bodyMemo, multi, bodyCapped, passedBy, uploadVars>>

\* PostForm: the CSRF check's token and the login form. The body is remembered first.
ReadForm ==
    /\ ~over
    /\ IF multi \/ formSeen # "none"
       THEN /\ Told("form", IF multi THEN "whole" ELSE formSeen)
            /\ UNCHANGED <<stream, bodyMemo, formSeen, formBroken>>
       ELSE LET f == ParseForm(Rearmed) IN
            /\ bodyMemo' = Memo
            /\ stream' = Rearmed
            /\ formSeen' = IF Memo = "refused" THEN "none" ELSE f.seen
            /\ formBroken' = (Memo # "refused" /\ BreaksForm(Rearmed))
            /\ Told("form", IF Memo = "refused" \/ f.err THEN "refused" ELSE f.seen)
    /\ UNCHANGED <<posted, multi, bodyCapped, passedBy, uploadVars>>

\* Somebody takes the body past the scope: drains BodyReader, or calls ParseForm on the
\* request himself.
Bypass ==
    /\ ~over
    /\ \/ stream' = Drained(stream) /\ UNCHANGED <<formSeen, formBroken>>
       \/ LET f == ParseForm(stream) IN
          /\ formSeen' = f.seen /\ stream' = f.stream
          /\ formBroken' = (formBroken \/ BreaksForm(stream))
    /\ passedBy' = (passedBy \/ (bodyMemo = "unread" /\ stream'.has # stream.has))
    /\ UNCHANGED <<posted, bodyMemo, multi, bodyCapped, reply, uploadVars>>

---------------------------------------------------------------------------
(* Uploads.                                                                 *)

\* enforceUploadLimits, validateFormSize, validateFileSizes.
WithinLimits == Len(posted.parts) <= MaxFiles /\ FileBytes <= Budget
perFileLimit == IF MaxFile < FileCap THEN MaxFile ELSE FileCap
\* newMultipartFile and storeUpload: by what the content is, before anything is kept.
Storable(i) == posted.parts[i].kind = "good"
FitsFile(i) == posted.parts[i].size <= perFileLimit

\* A copy the request keeps: [on disk, handle open, where it is published, is it there,
\* given up by the handler, its release failed, ghost: the handler was told it is published].
Copy == [temp |-> TRUE, handle |-> TRUE, place |-> Nowhere, public |-> FALSE,
         dropped |-> FALSE, stuck |-> FALSE, said |-> FALSE]
Stores(n) == copies' = copies \o [i \in 1..n |-> Copy]
Added(n) == (Len(copies) + 1)..(Len(copies) + n)

Strikes == diskFaults < MaxFaults /\ diskFaults' = diskFaults + 1
Opening == ~over /\ Len(copies) + Len(posted.parts) <= MaxCopies

RefuseUpload(who) == Told(who, "refused") /\ UNCHANGED <<copies, storedCopies, closers>>

\* FormFile takes the first part, GetFiles all of them; what a failure leaves is closed at once.
Take(who, wanted) ==
    /\ Opening /\ parseMultipart
    /\ \/ /\ ~(OpensForm /\ WithinLimits /\ \A i \in 1..wanted : FitsFile(i) /\ Storable(i))
          /\ RefuseUpload(who) /\ UNCHANGED diskFaults
       \/ /\ OpensForm /\ WithinLimits /\ \A i \in 1..wanted : FitsFile(i) /\ Storable(i)
          /\ \/ /\ Stores(wanted) /\ storedCopies' = storedCopies \cup Added(wanted)
                /\ Told(who, "whole") /\ UNCHANGED <<closers, diskFaults>>
             \/ Strikes /\ RefuseUpload(who)
    /\ passedBy' = (passedBy \/ (bodyMemo = "unread" /\ stream'.has # stream.has))
    /\ UNCHANGED <<posted, bodyMemo, over>>
FormFile == posted.parts # <<>> /\ Take("file", 1)
GetFiles == Take("files", Len(posted.parts))

\* MultipartParser.Parse, DecodeFiles and releaseWithRequest: the first part of every name is
\* bound, all or none; the request takes them over, or they are closed on the spot.
BoundParts == {i \in DOMAIN posted.parts :
             /\ posted.parts[i].field # "unknown"
             /\ \A j \in 1..(i - 1) : posted.parts[j].field # posted.parts[i].field}
ParsesInto ==
    /\ OpensForm /\ WithinLimits
    /\ \A i \in DOMAIN posted.parts : posted.parts[i].size <= MaxFile
    /\ \A i \in BoundParts : Storable(i) /\ posted.parts[i].field = "file"
ParseDto ==
    /\ Opening /\ parseMultipart
    /\ \/ RefuseUpload("dto") /\ UNCHANGED diskFaults      \* the limits, or a value that does not bind
       \/ /\ ParsesInto
          /\ \/ Strikes /\ RefuseUpload("dto")
             \/ /\ IF posted.registers
                   THEN LET n == Cardinality(BoundParts) IN Stores(n) /\ closers' = closers \cup Added(n)
                   ELSE UNCHANGED <<copies, closers>>
                /\ Told("dto", "whole") /\ UNCHANGED <<storedCopies, diskFaults>>
    /\ passedBy' = (passedBy \/ (bodyMemo = "unread" /\ stream'.has # stream.has))
    /\ UNCHANGED <<posted, bodyMemo, over>>

\* MultipartFile.Write: a copy published elsewhere is moved there; a copy whose file is gone
\* from its place cannot be.
Write(i, place) ==
    LET c == copies[i]
        moves == c.place \notin {Nowhere, place}
    IN  /\ ~over /\ c.handle /\ (moves => c.public)
        /\ \/ copies' = [copies EXCEPT ![i].place = place, ![i].public = TRUE, ![i].said = TRUE] /\ UNCHANGED diskFaults
           \/ /\ Strikes
              /\ \E left \in {FALSE, ~moves /\ c.public} :
                    copies' = [copies EXCEPT ![i].place = place, ![i].public = left, ![i].said = FALSE]
        /\ UNCHANGED <<bodyVars, storedCopies, closers, over>>

DeleteFile(i) ==
    /\ ~over /\ copies[i].public
    /\ copies' = [copies EXCEPT ![i].public = FALSE, ![i].said = FALSE]
    /\ UNCHANGED <<bodyVars, storedCopies, closers, over, diskFaults>>

\* Fault: what is deleted is the file the copy is now.
ClosedWhereItIs(c, works) ==
    IF ~c.handle THEN c
    ELSE IF c.place = Nowhere THEN [c EXCEPT !.handle = FALSE, !.temp = ~works, !.stuck = ~works]
    ELSE [c EXCEPT !.handle = FALSE, !.public = FALSE]

\* MultipartFile.Close: the temp copy, once. If the disk refuses, nobody tries again.
ClosedCopy(c, works) ==
    IF ~c.handle THEN c ELSE [c EXCEPT !.handle = FALSE, !.temp = ~works, !.stuck = ~works]

CloseFile(i) ==
    /\ ~over /\ copies[i].handle
    /\ \/ copies' = [copies EXCEPT ![i] = [ClosedCopy(@, TRUE) EXCEPT !.dropped = TRUE]] /\ UNCHANGED diskFaults
       \/ Strikes /\ copies' = [copies EXCEPT ![i] = [ClosedCopy(@, FALSE) EXCEPT !.dropped = TRUE]]
    /\ UNCHANGED <<bodyVars, storedCopies, closers, over>>

\* Message.Close, deferred around the handler: the registered files, then the scope's own.
CloseMessage ==
    /\ ~over /\ over' = TRUE
    /\ LET due == closers \cup storedCopies
           after(works) == [i \in DOMAIN copies |->
                               IF i \in due THEN ClosedCopy(copies[i], i \in works) ELSE copies[i]]
       IN  \/ copies' = after(due) /\ UNCHANGED diskFaults
           \/ \E i \in due : Strikes /\ copies' = after(due \ {i})
    /\ storedCopies' = {} /\ closers' = {}
    /\ UNCHANGED bodyVars

RequestNext ==
    \/ ReadBody \/ ReadForm \/ Bypass
    \/ FormFile \/ GetFiles \/ ParseDto
    \/ \E i \in DOMAIN copies : CloseFile(i) \/ DeleteFile(i) \/ \E p \in Places : Write(i, p)
    \/ CloseMessage

RequestSpec == RequestInit /\ [][RequestNext]_requestVars

---------------------------------------------------------------------------
\* Whoever asks for the body, the form or the files, in whatever order, gets all of it or is
\* refused: except that the body is gone once somebody took it before it was remembered, and
\* that a form nobody could read is empty to who asks again
\* (message.go:239-312, 337-362; csrf_middleware.go:133-165).
WholeOrRefused ==
    \/ reply.what \in {"whole", "refused"}
    \/ reply.who \in {"body", "form"} /\ passedBy
    \/ reply.who = "form" /\ (posted.type # "form" \/ formBroken)

\* A temp copy is there for as long as the handler may publish it, and gone when the request
\* has ended, unless the disk refused; what was published survives that
\* (message.go:486-518, 914-965; multipart_parser.go:213-239; file.go:405-468, 526-562).
UploadsReleased ==
    \A i \in DOMAIN copies :
        /\ ~over /\ ~copies[i].dropped => copies[i].handle
        /\ over /\ copies[i].temp => copies[i].stuck
        /\ copies[i].said => copies[i].public
=============================================================================
