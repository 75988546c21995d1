------------------------ MODULE MCImageDescriptions ------------------------
(* ImageDescriptions for TLC. *)
EXTENDS ImageDescriptions, TLC

CONSTANTS c1, c2

MCCallers == {c1, c2}

\* Callers are interchangeable.
CallerSymmetry == Permutations(MCCallers)

\* An image segment that names its content in a field, or does not.
Segment(url, file) ==
    [type |-> "image", content |-> "cat", inline |-> "no", url |-> <<"http", url>>,
     file |-> file, file_md5 |-> <<>>]

\* A picture and the same one under another signed URL, both without a hash, in one
\* message; a second message without a MessageID shows it again, this time with the path
\* of a file that is named by its hash.
Cat1 == Part(Segment("u1", <<<< <<"name", "picture">>, <<"name", "jpg">> >>>>))
Cat2 == Part(Segment("u2", <<>>))
Cat3 == Part(Segment("u3", <<<< <<"name", "cache">> >>, << <<"MD5", "cat">>, <<"name", "jpg">> >>>>))

TwoMessages == <<"m1", "m2">>
MCImages == [m \in {"m1", "m2"} |-> IF m = "m1" THEN <<Cat1, Cat2>> ELSE <<Cat3>>]

OnlyFirstHasId == [m \in Messages |-> m = "m1"]

\* An image is known by one key for one content wherever the hash is to be had: in either
\* field, in either case, with a path and a dot or not, or by the bytes that came with it; and
\* it has a URL, or its bytes could not be saved.
Names == {<< <<"md5", "cat">> >>, << <<"MD5", "cat">>, <<"name", "image">> >>,
          << <<"name", "cat">>, <<"md5", "cat">> >>}
Fields == {<<>>} \cup [{1} -> Names] \cup {<< << <<"name", "dir">> >>, n >> : n \in Names}

ASSUME HashIsContent ==
    \A file \in Fields, file_md5 \in Fields, inline \in {"no", "decodable", "broken"},
       url \in {<<>>, <<"http", "u">>}, saved \in BOOLEAN :
        LET seg == [type |-> "image", content |-> "cat", inline |-> inline, url |-> url,
                    file |-> file, file_md5 |-> file_md5]
            part == ImagePart(seg, saved)
            named(field) == field # <<>> /\ Head(Last(field))[1] # "name"
        IN  /\ part.hash = Digest("cat") <=>
                   inline = "decodable" \/ (inline = "no" /\ (named(file) \/ named(file_md5)))
            /\ part.hash \in {NoHash, Digest("cat")}
            /\ url # <<>> => part.url = url
            /\ part.url = <<>> => inline # "decodable" \/ ~saved

=============================================================================
