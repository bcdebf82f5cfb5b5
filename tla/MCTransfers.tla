----------------------------- MODULE MCTransfers -----------------------------
(***************************************************************************)
(* Instances of Transfers for TLC: forms of the four fields of             *)
(* image_upload.html, in any order, missing, doubled or of a wrong kind,   *)
(* and pictures of up to two blocks of base64.                             *)
(***************************************************************************)
EXTENDS Transfers

SomeWords == {"image", "width", "height", "mime_type", "cat", "dog", "pixels", "20", "10", "wide", "png"}

(* A number that is cut is a number; a quotation mark, of one byte, is not cut. *)
SomeStarts == [t \in Tokens |->
    CASE t = Boundary -> {"bound"} [] t = Dashes -> {"-"} [] t = Crlf -> {"\r"}
      [] t = NameIs -> {"nam"} [] t = File -> {"fil"} [] t = Quote -> {}
      [] t = "20" -> {"2"} [] t = "10" -> {"1"} [] OTHER -> {"begun"}]

TextField(n, v)   == [name |-> n, file |-> Nil, nameFirst |-> TRUE, value |-> v]
FileField(n, v)   == [name |-> n, file |-> "cat", nameFirst |-> TRUE, value |-> v]

(* Values with what is between the parts, whole and begun with it, and with what
   begins a file name.                                                         *)
Dashed  == <<"pixels", Crlf, Dashes>>
Tricky  == <<Crlf, Crlf, File, NameIs>>
Mislead == <<File, NameIs, "dog", Quote, Crlf, Crlf, "png">>

Begun   == <<Dashes, "pixels">>

Images  == {FileField("image", Dashed), FileField("image", Tricky), FileField("image", Begun),
            TextField("image", Dashed),
            [FileField("image", Dashed) EXCEPT !.nameFirst = FALSE]}
Widths  == {TextField("width", <<"20">>), TextField("width", <<"wide">>), FileField("width", <<"20">>)}
Heights == {TextField("height", <<"10">>)}
Mimes   == {TextField("mime_type", <<"png">>), TextField("mime_type", Mislead)}

SomeFields == Images \cup Widths \cup Heights \cup Mimes

Orders == {o \in [1 .. 4 -> 1 .. 4] : \A i, j \in 1 .. 4 : i # j => o[i] # o[j]}

Fulls == {[i \in 1 .. 4 |-> <<image, width, height, mime>>[o[i]]] :
            image \in Images, width \in Widths, height \in Heights, mime \in Mimes, o \in Orders}

Good == <<FileField("image", Dashed), TextField("width", <<"20">>), TextField("height", <<"10">>),
          TextField("mime_type", <<"png">>)>>

(* The complete form has 50 tokens; with the picture last, the others cut it
   behind the first token of the picture or in the end of line that follows it,
   before or in the dashes, and before or in the boundary.                     *)
SomeLimits == {43, 46, 47, 60}

SomeForms == {<<>>} \cup {<<f>> : f \in SomeFields} \cup Fulls
             \cup {<<f, g>> : f, g \in SomeFields} \cup {<<f>> \o Good : f \in SomeFields}
             \cup {Good \o <<f>> : f \in SomeFields} \cup {RemoveAt(Good, i) : i \in 1 .. 4}

Pictures == UNION {[1 .. n -> {3, 105, 255}] : n \in 0 .. 5}
=============================================================================
