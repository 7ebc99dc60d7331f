---------------------------- MODULE BinarySources ----------------------------
(***************************************************************************)
(* Where an import finds its files: a directory, a zip file, a directory or *)
(* a zip file on an SSH server, or a web server.  Each question to a source *)
(* is answered, or ends with an exception, by the kind of the place; the    *)
(* import asks first whether the files exist, and opens them later.         *)
(***************************************************************************)
EXTENDS Naturals, Sequences

(* A place: the prefix of its location, whether its server can be reached   *)
(* and lets one in (up), whether the directory or the archive is there, and *)
(* the files that are missing from it.                                      *)
Place(scheme, up, there, lost) ==
  [scheme |-> scheme, up |-> up, there |-> there, lost |-> lost]

Remote(place) == place.scheme \in {"sftp:", "zip+sftp:"}

(* ImportJob.get_source() *)
get_source(place, path) ==
  [class |-> CASE place.scheme \in {"zip:", "zip+sftp:"} -> "ZipFileSource"
               [] place.scheme = "sftp:" -> "RemoteFileSource"
               [] place.scheme \in {"http:", "https:"} -> "HTTPFileSource"
               [] OTHER -> "LocalFileSource",
   place |-> place, path |-> path]

(* "content" is what was put there: a function from paths.                  *)
IsStored(s, content) == s.place.there /\ s.path \in DOMAIN content \ s.place.lost

Yes == "yes"
No == "no"
Raised(answer) == answer \notin {Yes, No}

(* What keeps a source from being asked at all: an SSH server that refuses  *)
(* becomes a RuntimeError (get_ssh_client()), a web server that does not    *)
(* answer is requests' ConnectionError.                                     *)
Unreachable(s, answer) ==
  IF s.place.up THEN answer
  ELSE IF Remote(s.place) THEN "RuntimeError"
  ELSE IF s.class = "HTTPFileSource" THEN "ConnectionError"
  ELSE answer

(* get_zip_file(): the archive is opened as a source of its own.            *)
Archive(s, answer) == IF s.place.there THEN answer ELSE "BinarySourceNotFoundError"

exists(s, content) ==
  LET answer == IF IsStored(s, content) THEN Yes ELSE No
  IN  Unreachable(s, IF s.class = "ZipFileSource" THEN Archive(s, answer) ELSE answer)

(* open(); over HTTP it returns the generator of the response's chunks.     *)
open(s, content) ==
  Unreachable(s, IF s.class = "ZipFileSource" /\ ~ s.place.there THEN Archive(s, Yes)
                 ELSE IF IsStored(s, content) THEN Yes ELSE "BinarySourceNotFoundError")

(* "with source.open() as stream": a generator is no context manager.       *)
with_open(s, content) ==
  IF open(s, content) = Yes /\ s.class = "HTTPFileSource" THEN "TypeError" ELSE open(s, content)

(* digest() reads the file, except over SFTP, where sha1sum runs on the     *)
(* server and prints nothing for a missing file.                            *)
digest(s, content) ==
  IF s.class # "RemoteFileSource" THEN with_open(s, content)
  ELSE Unreachable(s, IF IsStored(s, content) THEN Yes ELSE "IndexError")

(* mimetype() asks the server, if it is not guessed from the name.          *)
mimetype(s) ==
  IF s.class \in {"HTTPFileSource", "RemoteFileSource"} THEN Unreachable(s, Yes) ELSE Yes

(* create_file(): type, digest and content, in this order.                  *)
upload(s, content) ==
  IF mimetype(s) # Yes THEN mimetype(s)
  ELSE IF digest(s, content) # Yes THEN digest(s, content)
  ELSE with_open(s, content)

(* The exception among these answers, or Yes.  Sources of one place that    *)
(* raise do so for the place, and alike, when all of their files are there. *)
FirstRaised(answers) ==
  LET bad == {a \in answers : Raised(a)}
  IN  IF bad = {} THEN Yes ELSE CHOOSE a \in bad : TRUE

(* validate_files(): the answer of a source that raises is not caught here. *)
validate_files(place, names, content) ==
  LET answers == {exists(get_source(place, name), content) : name \in names}
  IN  IF FirstRaised(answers) # Yes THEN FirstRaised(answers)
      ELSE IF No \in answers THEN No ELSE Yes

(* All files have been found when they are uploaded.                        *)
upload_files(place, names, content) ==
  FirstRaised({upload(get_source(place, name), content) : name \in names})
=============================================================================
