------------------------------ MODULE Transfers ------------------------------
(***************************************************************************)
(* The bytes of a picture on their way in and out.  A browser posts a form *)
(* of parts, which libhttpserver cuts at a limit, MultiPartForm takes      *)
(* apart and ImageUpload judges; a picture is sent in pieces by            *)
(* ImageResponse, or in one piece as a data URL.                           *)
(*                                                                         *)
(* A form is a sequence of tokens: the pieces of text that MultiPartForm   *)
(* looks for, and others.  filename=" is File followed by NameIs, and      *)
(* NameIs alone is name=", as it is in the bytes.  The limit counts bytes: *)
(* of the token it falls into a beginning is left, a token of its own.     *)
(***************************************************************************)
EXTENDS Base64, FiniteSets

CONSTANTS
    Words,     \* pieces of text that MultiPartForm does not look for
    Forms,     \* the forms a browser may post: sequences of fields
    Starts,    \* piece of text -> what may be left of it when its end is cut off
    Limits,    \* bound: how many whole tokens are within maxRequestBytes
    Numbers,   \* tokens that stoi reads as a number
    Payloads,  \* the pictures that may be asked for: sequences of bytes
    MaxPiece,  \* bound: the longest piece the web server asks for
    Nil

Boundary == "boundary"
Dashes   == "--"
Crlf     == "\r\n"
NameIs   == "name="
File     == "file"
Quote    == "quote"

(* The boundary is told at the end of the content type, or is followed there by
   another parameter; or this is not the content type of a form.               *)
ContentTypes == {"told", "trailed", "other"}

(* A browser takes a boundary that is nowhere in the form. *)
Texts == Words \cup {Dashes, Crlf, NameIs, File, Quote}

Tokens == Texts \cup {Boundary}

Stubs == UNION {Starts[t] : t \in Tokens}

Fields == [name : Words, file : Words \cup {Nil}, nameFirst : BOOLEAN, value : Seq(Texts)]

(* What a content is made of, what is read of it, and what newImage is given. *)
Piece == Tokens \cup Stubs

Arguments == [name : Seq(Piece), file : Seq(Piece) \cup {Nil}, value : Seq(Piece)]

Handed == [name : Seq(Piece), data : Seq(Piece), width : Piece, height : Piece, mime : Seq(Piece)]

ASSUME TransfersAssumption ==
    /\ MaxPiece \in Nat \ {0}
    /\ \A p \in Payloads : p \in Seq(0 .. 255)
    /\ Nil \notin Payloads \cup Handed

ASSUME FormsAssumption ==
    /\ Limits \subseteq Nat
    /\ Words \cap {Boundary, Dashes, Crlf, NameIs, File, Quote, Nil} = {}
    /\ DOMAIN Starts = Tokens /\ Stubs \cap Tokens = {}
    /\ \A f \in Forms : f \in Seq(Fields)

VARIABLES
    limit,     \* maxRequestBytes, in whole tokens
    phase,     \* of the request this connection serves
    form, contentType,   \* what the browser posts
    tail,      \* what was received of the token at the limit: a stub or nothing
    rest,      \* the content that is not parsed yet
    args,      \* MultiPartForm::args
    answer,    \* the status of an upload
    handed,    \* what newImage was given
    payload,   \* the picture that is asked for
    position,  \* Payload::position
    received   \* what was sent of it

uploadVars   == <<form, contentType, tail, rest, args, answer, handed>>
downloadVars == <<payload, position, received>>
vars         == <<limit, phase, uploadVars, downloadVars>>

-----------------------------------------------------------------------------
(* What a browser sends of a form. *)
Disposition(f) ==
    LET name == <<NameIs, f.name, Quote>>
        file == <<File, NameIs, f.file, Quote>>
    IN  CASE f.file = Nil -> name
          [] f.file # Nil /\ f.nameFirst -> name \o file
          [] f.file # Nil /\ ~f.nameFirst -> file \o name

Part(f) == <<Crlf>> \o Disposition(f) \o <<Crlf, Crlf>> \o f.value \o <<Crlf, Dashes>>

Content(fields) ==
    <<Dashes, Boundary>> \o FlattenSeq([i \in DOMAIN fields |-> Part(fields[i]) \o <<Boundary>>])
                         \o <<Dashes, Crlf>>

Upto(s, n) == SubSeq(s, 1, n)

(* The content of a request is collected up to the limit, and what comes after
   it is dropped without a word, in the middle of a token if it is there.     *)
Tails(fields) ==
    {<<>>} \cup (IF limit < Len(Content(fields)) THEN {<<b>> : b \in Starts[Content(fields)[limit + 1]]}
                                               ELSE {})

Received(fields, end) == Upto(Content(fields), Min({limit, Len(Content(fields))})) \o end

-----------------------------------------------------------------------------
(* std::search: the first place from which the pattern stands, or the end. *)
Search(s, from, pattern) ==
    LET here == {i \in from .. Len(s) - Len(pattern) + 1 :
                   SubSeq(s, i, i + Len(pattern) - 1) = pattern}
    IN  IF here = {} THEN Len(s) + 1 ELSE Min(here)

(* The boundary, of which nothing is found if a parameter is taken for a part
   of it; and what comes before and after it.                                 *)
BoundaryAt(s) == IF contentType = "told" THEN Search(s, 1, <<Boundary>>) ELSE Len(s) + 1

(* The value without the end of line and the dashes before the next boundary. *)
ValueEnd(part) ==
    IF Len(part) >= 2 /\ SubSeq(part, Len(part) - 1, Len(part)) = <<Crlf, Dashes>>
      THEN Len(part) - 2 ELSE Len(part)

(* parseArg: where a part has its name, the name of its file and its value. *)
NameAt(part)  == Search(part, 1, <<NameIs>>)
NameEnd(part) == Search(part, NameAt(part) + 1, <<Quote>>)
FileAt(part)  == Search(part, NameEnd(part), <<File, NameIs>>)
FileEnd(part) == Search(part, FileAt(part) + 2, <<Quote>>)
IsFile(part)  == FileAt(part) <= Len(part)
ValueAt(part) == Search(part, IF IsFile(part) THEN FileEnd(part) ELSE NameEnd(part), <<Crlf, Crlf>>)
HasArg(part)  == Len(part) + 1 \notin {NameAt(part), NameEnd(part), ValueAt(part)}

(* The arguments that a part adds, one or none. *)
ParseArg(part) ==
    IF ~HasArg(part) THEN {}
    ELSE {[name  |-> SubSeq(part, NameAt(part) + 1, NameEnd(part) - 1),
           file  |-> IF IsFile(part) THEN SubSeq(part, FileAt(part) + 2, FileEnd(part) - 1) ELSE Nil,
           value |-> SubSeq(part, ValueAt(part) + 2, ValueEnd(part))]}

(* The dashes that begin a value were taken for those that end it, with the end
   of line before them: it would end before it begins.                         *)
Reversed(part) == HasArg(part) /\ ValueEnd(part) + 1 < ValueAt(part) + 2

(* Faulty variants: the last part of a name counts, or all do. *)
Emplace_Last(old, new) == {a \in old : \A b \in new : b.name # a.name} \cup new
Emplace_All(old, new)  == old \cup new

(* unordered_map::emplace keeps what is there. *)
Emplace(old, new) == old \cup {a \in new : \A b \in old : b.name # a.name}

-----------------------------------------------------------------------------
(* ImageUpload::render_POST.  A name that is missing is inserted by args[...]
   as a file without data, which is no text either.                          *)
Text(n) == {a \in args : a.name = <<n>> /\ a.file = Nil}
Named(n) == {a \in args : a.name = <<n>>}

IsNumber(text) == text # <<>> /\ Head(text) \in Numbers

(* Faulty variant: an image that was sent as text is accepted. *)
CanUpload_AnyImage ==
    /\ \A n \in {"width", "height", "mime_type"} : Text(n) # {}
    /\ \A n \in {"width", "height"} : \A a \in Text(n) : IsNumber(a.value)

(* bad_variant_access and the exceptions of stoi are answered with 500. *)
CanUpload ==
    /\ Text("image") = {}
    /\ \A n \in {"width", "height", "mime_type"} : Text(n) # {}
    /\ \A n \in {"width", "height"} : \A a \in Text(n) : IsNumber(a.value)

ValueOf(n) == (CHOOSE a \in Named(n) : TRUE).value

NewImage ==
    [name |-> (CHOOSE a \in Named("image") : TRUE).file, data |-> ValueOf("image"),
     width |-> Head(ValueOf("width")), height |-> Head(ValueOf("height")),
     mime |-> ValueOf("mime_type")]

-----------------------------------------------------------------------------
Init ==
    /\ limit \in Limits
    /\ phase = "idle"
    /\ form = Nil /\ contentType = Nil /\ tail = <<>> /\ rest = <<>> /\ args = {}
    /\ answer = Nil /\ handed = Nil
    /\ payload = Nil /\ position = 0 /\ received = <<>>

(* parse gives up at once on other content types. *)
Post(fields, type) ==
    /\ phase = "idle"
    /\ form' = fields /\ contentType' = type
    /\ \E end \in Tails(fields) : tail' = end /\ rest' = Received(fields, end)
    /\ phase' = IF type = "other" THEN "judge" ELSE "parse"
    /\ UNCHANGED <<limit, args, answer, handed, downloadVars>>

(* What parseArg is given: all that is left up to the next boundary. *)
Chunk == Upto(rest, BoundaryAt(rest) - 1)

(* One turn of the recursion of parse. *)
ParsePart ==
    /\ phase = "parse" /\ ~Reversed(Chunk)
    /\ args' = Emplace(args, ParseArg(Chunk))
    /\ rest' = SubSeq(rest, BoundaryAt(rest) + 1, Len(rest))
    /\ phase' = IF BoundaryAt(rest) < Len(rest) THEN "parse" ELSE "judge"
    /\ UNCHANGED <<limit, form, contentType, tail, answer, handed, downloadVars>>

(* A text, or the data of a file, cannot be made of a range that is reversed:
   its length is too great, and render_POST answers the exception with 500.    *)
ParseFails ==
    /\ phase = "parse" /\ Reversed(Chunk)
    /\ answer' = 500
    /\ phase' = "judged"
    /\ UNCHANGED <<limit, form, contentType, tail, rest, args, handed, downloadVars>>

(* newImage makes a document and an instance of what it is given, and goes on
   to save them: there is no answer from here.                                *)
RenderPost ==
    /\ phase = "judge"
    /\ \/ /\ args = {} \/ Named("image") = {}
          /\ answer' = 400 /\ UNCHANGED handed
       \/ /\ Named("image") # {} /\ ~CanUpload
          /\ answer' = 500 /\ UNCHANGED handed
       \/ /\ Named("image") # {} /\ CanUpload
          /\ handed' = NewImage /\ UNCHANGED answer
    /\ phase' = "judged"
    /\ UNCHANGED <<limit, form, contentType, tail, rest, args, downloadVars>>

(* Base64Images sends a data URL in one piece. *)
SendUrl(p) ==
    /\ phase = "idle"
    /\ payload' = p /\ received' = Encode(p)
    /\ phase' = "url"
    /\ UNCHANGED <<limit, position, uploadVars>>

(* imageResponse, for ImageGetter and SpriteSheet. *)
ImageResponse(p) ==
    /\ phase = "idle"
    /\ payload' = p /\ position' = 0 /\ received' = <<>>
    /\ phase' = "send"
    /\ UNCHANGED <<limit, uploadVars>>

(* How much sendNextPart copies into a buffer of the web server. *)
Count(max) == Min({Len(payload) - position, max})

(* Faulty variants: the last byte is left out, or the end is never found. *)
NothingLeft_OffByOne == position + 1 >= Len(payload)
NothingLeft_Never    == position > Len(payload)

NothingLeft == position >= Len(payload)

SendNextPart(max) ==
    /\ phase = "send" /\ ~NothingLeft
    /\ received' = received \o SubSeq(payload, position + 1, position + Count(max))
    /\ position' = position + Count(max)
    /\ UNCHANGED <<limit, phase, payload, uploadVars>>

EndOfStream ==
    /\ phase = "send" /\ NothingLeft
    /\ phase' = "sent"
    /\ UNCHANGED <<limit, downloadVars, uploadVars>>

(* The connection is ready for its next request. *)
Finish ==
    /\ phase \in {"judged", "url", "sent"}
    /\ phase' = "idle"
    /\ form' = Nil /\ contentType' = Nil /\ tail' = <<>> /\ rest' = <<>> /\ args' = {}
    /\ answer' = Nil /\ handed' = Nil
    /\ payload' = Nil /\ position' = 0 /\ received' = <<>>
    /\ UNCHANGED limit

Upload == (\E f \in Forms, type \in ContentTypes : Post(f, type)) \/ ParsePart \/ ParseFails
          \/ RenderPost

Download ==
    \/ \E p \in Payloads : SendUrl(p) \/ ImageResponse(p)
    \/ \E max \in 1 .. MaxPiece : SendNextPart(max)
    \/ EndOfStream

Next == Upload \/ Download \/ Finish

Spec == Init /\ [][Next]_vars

(* The web server goes on asking for pieces until it is told the end. *)
FairSpec == Spec /\ WF_vars(\E max \in 1 .. MaxPiece : SendNextPart(max)) /\ WF_vars(EndOfStream)
-----------------------------------------------------------------------------
(* What the browser means by a form.  A part with the name of its file first is
   read as a text with that name, for name=" also ends filename=" (the search
   at MultiPartForm.h:71).  Of two parts with one name the first counts.         *)
ReadAs(f) ==
    CASE f.file = Nil -> [name |-> <<f.name>>, file |-> Nil, value |-> f.value]
      [] f.file # Nil /\ f.nameFirst -> [name |-> <<f.name>>, file |-> <<f.file>>, value |-> f.value]
      [] f.file # Nil /\ ~f.nameFirst -> [name |-> <<f.file>>, file |-> Nil, value |-> f.value]

FirstOf(fields) ==
    {ReadAs(fields[i]) : i \in {i \in DOMAIN fields :
        \A j \in 1 .. i - 1 : ReadAs(fields[j]).name # ReadAs(fields[i]).name}}

(* No text has filename=" in it: parseArg looks for it in the whole part. *)
Plain(fields) ==
    \A i \in DOMAIN fields :
        LET a == ReadAs(fields[i])
        IN  a.file = Nil => Search(a.value, 1, <<File, NameIs>>) > Len(a.value)

Whole(fields) == contentType = "told" /\ Len(Content(fields)) <= limit

(* Every variable keeps its type; a position is inside its picture. *)
TypeOK ==
    /\ limit \in Limits
    /\ phase \in {"idle", "parse", "judge", "judged", "url", "send", "sent"}
    /\ form \in Forms \cup {Nil} /\ contentType \in ContentTypes \cup {Nil}
    /\ tail \in {<<>>} \cup {<<b>> : b \in Stubs} /\ Len(rest) <= limit + Len(tail)
    /\ args \subseteq Arguments /\ \A a \in args : \A b \in args \ {a} : a.name # b.name
    /\ answer \in {Nil, 400, 500} /\ handed \in Handed \cup {Nil}
    /\ payload \in Payloads \cup {Nil}
    /\ position \in 0 .. (IF payload = Nil THEN 0 ELSE Len(payload))
    /\ \A i \in DOMAIN received : received[i] \in 0 .. 255

(* What may be left of a value that was cut: a beginning of what was sent from
   there to the next boundary, in whole tokens or in a part of the last.  Only
   an end of line with both dashes is taken off.                              *)
Remains(value) ==
    LET sent == value \o <<Crlf, Dashes, Boundary>>
    IN  {Upto(sent, n) : n \in 0 .. Len(value) + 1}
        \cup UNION {{Upto(sent, n) \o <<b>> : b \in Starts[sent[n + 1]]} : n \in 0 .. Len(value) + 2}

(* MultiPartForm::parse (MultiPartForm.h:48-121) finds the fields of a form,
   whatever line ends and dashes their values hold.  Of a form that was cut at
   maxRequestBytes it finds some of them, and at most the last of these is not
   what was sent: it is short, or keeps a beginning of what separates it from
   the next.  A boundary with a parameter behind it makes of the form at most
   one argument.                                                              *)
FormUnderstood ==
    (phase \in {"judge", "judged"} /\ Plain(form)) =>
    CASE contentType = "other"   -> args = {}
      [] contentType = "trailed" -> \A a \in args : args = {a} /\ a.name = ReadAs(form[1]).name
      [] Whole(form)             -> args = FirstOf(form)
      [] contentType = "told" /\ ~Whole(form) ->
           LET changed == args \ FirstOf(form)
           IN  /\ Cardinality(changed) <= 1
               /\ \A a \in changed : \E m \in FirstOf(form) :
                    /\ a.name = m.name /\ a.file = m.file
                    /\ a.value \in Remains(m.value)

(* ImageUpload::render_POST (ImageUpload.cpp:47-80) gives newImage what the
   browser sent if all four fields are there and fit, refuses a form without an
   image with 400 and any other with 500, for the errors newImage has for fields
   that are missing are out of its reach.  If the form was cut, the picture may
   be short only if it came after the other three fields.                       *)
UploadsJudged ==
    (phase = "judged" /\ Plain(form)) =>
    LET given(n) == {a \in FirstOf(form) : a.name = <<n>>}
        text(n)  == {a \in given(n) : a.file = Nil}
        number(n) == {a \in text(n) : IsNumber(a.value)}
        complete == /\ given("image") # {} /\ text("image") = {}
                    /\ number("width") # {} /\ number("height") # {} /\ text("mime_type") # {}
    IN  /\ Whole(form) =>
             /\ answer = IF given("image") = {} THEN 400 ELSE IF complete THEN Nil ELSE 500
             /\ handed # Nil <=> complete
        /\ (contentType = "told" /\ handed # Nil) =>
             \E image \in given("image") :
                /\ handed.name = image.file
                /\ Whole(form) =>
                     /\ handed.data = image.value
                     /\ \A a \in given("width") : handed.width = Head(a.value)
                     /\ \A a \in given("height") : handed.height = Head(a.value)
                     /\ \A a \in given("mime_type") : handed.mime = a.value
                /\ \/ handed.data = image.value
                   \/ \E i \in DOMAIN form :
                        /\ ReadAs(form[i]) = image
                        /\ \A n \in {"width", "height", "mime_type"} :
                             \E j \in 1 .. i - 1 : ReadAs(form[j]).name = <<n>>

(* What has been sent of a picture is its beginning, whatever pieces the web
   server asks for, and the end is reported when all was sent
   (ImageResponse.cpp:33-46).                                                *)
StreamWhole ==
    /\ phase \in {"send", "sent"} => received = Upto(payload, position)
    /\ phase = "sent" => received = payload

(* The end of every picture that is sent is reported, also when its last piece
   is short, or it has none (ImageResponse.cpp:34-39).                       *)
PicturesEnd == (phase = "send") ~> (phase = "sent")

(* A data URL (ImageController.cpp:29, base64.cpp:37) is the picture and from
   one to four blanks, which a browser passes over.  Base64::decode, which
   nothing calls, gives the picture back with a zero for every mark of padding. *)
UrlDecodes ==
    phase = "url" =>
        LET blanks == Cardinality({i \in DOMAIN received : received[i] = Blank})
        IN  /\ BytesOf(At(received, {i \in DOMAIN received : received[i] < Pad})) = payload
            /\ (Len(received) - blanks) % 4 = 0 /\ blanks \in 1 .. 4
            /\ Decode(received) = payload \o Zeros(Cardinality(Marks(received)))
=============================================================================
