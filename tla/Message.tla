------------------------------- MODULE Message -------------------------------
(***************************************************************************)
(* The content of a message: the parts the connection layer makes of the   *)
(* segments the platform sends (infra/onebot/convert.go), the views that   *)
(* filter, commands and prompts take of them (domain/entity/message.go),   *)
(* and what is kept of the model's answer (service/event/event.go).        *)
(*                                                                         *)
(* A text is a sequence of letters.  A label or placeholder the code puts  *)
(* in is one letter, a mark.  The digest of an image is <<"md5", its       *)
(* content>>.                                                              *)
(***************************************************************************)
EXTENDS Integers, Sequences, SequencesExt

NoHash == <<>>
Digest(content) == <<"md5", content>>

\* normalizeFileHash: a field is the names of a path, a name its pieces between the dots.
\* The first piece of the last name counts if it is a digest, in whatever case.
NormalizedHash(field) ==
    IF field = <<>> THEN NoHash
    ELSE LET piece == Head(Last(field))
         IN  IF piece[1] \in {"md5", "MD5"} THEN Digest(piece[2]) ELSE NoHash

\* The digest of an image segment: of its bytes, if they came with it and can be decoded;
\* else what the field file says, or the field file_md5.
FileHash(seg) ==
    IF seg.inline # "no"
    THEN IF seg.inline = "decodable" THEN Digest(seg.content) ELSE NoHash
    ELSE IF NormalizedHash(seg.file) # NoHash THEN NormalizedHash(seg.file)
    ELSE NormalizedHash(seg.file_md5)

\* An image part: bytes that came without a URL are saved under their digest, if that
\* succeeds, and the path is the URL.
ImagePart(seg, saved) ==
    [type |-> "image", content |-> seg.content, hash |-> FileHash(seg),
     url |-> IF seg.url = <<>> /\ seg.inline = "decodable" /\ saved
             THEN <<"path", Digest(seg.content)>> ELSE seg.url]

\* toParts: an unknown segment becomes a text of its own.
Part(seg) ==
    CASE seg.type = "text" -> [type |-> "text", text |-> seg.text]
      [] seg.type = "face" -> [type |-> "text", text |-> seg.id]
      [] seg.type = "at" -> [type |-> "at", text |-> <<IF seg.qq = "all" THEN "@all" ELSE "@">>]
      [] seg.type = "image" -> ImagePart(seg, TRUE)
      [] seg.type \in {"record", "video", "file"} -> [type |-> seg.type, url |-> seg.url]
      [] OTHER -> [type |-> "text", text |-> <<"unknown">>]

\* What stands for a mark or a placeholder.
Marks == {"@all", "@", "image", "record", "video", "file"}

ToParts(segments) == [i \in 1..Len(segments) |-> Part(segments[i])]

-----------------------------------------------------------------------------
(* Views. *)

\* PlainText: the texts alone, joined; marks between them leave no gap.
PlainText(parts) ==
    FlattenSeq([i \in 1..Len(parts) |->
                   IF parts[i].type = "text" THEN parts[i].text ELSE <<>>])

\* ForLLM: marks and placeholders stand where they are.
ForLLM(parts) ==
    FlattenSeq([i \in 1..Len(parts) |->
                   IF parts[i].type \in {"text", "at"} THEN parts[i].text
                   ELSE <<parts[i].type>>])

\* TrimSpace leaves nothing.
Blank(text) == \A i \in 1..Len(text) : text[i] = " "

-----------------------------------------------------------------------------
(* The model's answer. *)

\* A label, "[...]:", from letter i of a text to letter e + 1.
Label(text, i, e) ==
    /\ text[i] = "[" /\ text[e] = "]" /\ text[e + 1] = ":"
    /\ \A j \in i..e - 1 : text[j] # "]"

\* respond takes the labels off the beginning of the answer, one after the other.
WithoutLabels(text) ==
    LET ends(i) == {e \in i + 1..Len(text) - 1 : Label(text, i, e)}
        rest[i \in 1..Len(text) + 1] ==
            IF ends(i) = {} THEN i ELSE rest[(CHOOSE e \in ends(i) : TRUE) + 2]
    IN  SubSeq(text, rest[1], Len(text))

=============================================================================
