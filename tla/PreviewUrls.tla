------------------------------ MODULE PreviewUrls ------------------------------
(***************************************************************************)
(* How the links of a Preview stay below its content URL: what the handler *)
(* of src/server/preview-api.ts does to the links of a page, the locations *)
(* of redirects and the path of a request.  Vite serves below that URL,    *)
(* its --base; a page under it may have been written for the root.         *)
(*                                                                         *)
(* A link has a form ("based" starts with the content URL, "rooted" with   *)
(* one slash, "host" with two, "absolute" with a scheme) and segments,     *)
(* where "client" is @vite/client.  How a browser resolves it is external. *)
(***************************************************************************)
EXTENDS Integers, SequencesExt, Selections

Link(form, path) == [form |-> form, path |-> path]
NoLink           == Link("none", <<>>)

\* The content URL as a path: "base" for its segments.
Base == <<"base">>

\* The URL standard: "." is dropped, and ".." takes a segment away while there is one.
Resolve(from, path) ==
    FoldLeft(LAMBDA at, s : CASE s = "." -> at
                              [] s = ".." -> IF at = <<>> THEN at ELSE Front(at)
                              [] OTHER -> Append(at, s),
             from, path)

\* The path that a browser asks this server for, with `from' as the base of the document;
\* "elsewhere" for another host.
Asked(link, from) ==
    CASE link.form = "based"    -> Resolve(Base, link.path)
      [] link.form = "rooted"   -> Resolve(<<>>, link.path)
      [] link.form = "relative" -> Resolve(from, link.path)
      [] OTHER                  -> <<"elsewhere">>

RewriteRootRelativeUrl(link) ==
    IF link.form = "rooted" THEN Link("based", link.path) ELSE link

\* Mutant: only a location that begins with a slash is rewritten.
RewriteRootedOnly(link) ==
    IF link.form \in {"none", "absolute", "host"} THEN NoLink ELSE RewriteRootRelativeUrl(link)

RewriteRedirectLocation(link) ==
    CASE link.form \in {"none", "absolute", "host"} -> NoLink
      [] link.form = "based" -> link
      [] OTHER -> Link("based", Resolve(<<>>, link.path))

IsViteClientResourcePath(link) == link.form # "absolute" /\ link.path = <<"client">>

\* What becomes of an element of a page; NoLink when it is removed.  The page itself gets the
\* content URL as its only <base>.
RewriteElement(element, link) ==
    IF element = "script" /\ IsViteClientResourcePath(link) THEN NoLink
    ELSE RewriteRootRelativeUrl(link)

\* preparePreviewResponse: what is sent of Vite's answer.
PreparePreviewResponse(answer) ==
    LET location == RewriteRedirectLocation(answer.link)
    IN  CASE answer.kind = "redirect" -> [kind |-> IF location = NoLink THEN "unavailable"
                                                   ELSE "redirect", link |-> location]
          [] answer.kind = "html" -> [kind |-> "html",
                                      link |-> RewriteElement(answer.element, answer.link)]
          [] OTHER -> [kind |-> answer.kind, link |-> NoLink]

\* The path that Vite is asked for, as a based link
ParseUpstreamPath(path) ==
    IF path # <<>> /\ Head(path) = "base" /\ ".." \notin ToSet(path)
    THEN Link("based", Tail(path)) ELSE NoLink

\* Who answers a request with a capability that is good
ContentHandler(path) ==
    LET upstream == ParseUpstreamPath(path)
    IN  IF upstream = NoLink THEN "not_found"
        ELSE IF IsViteClientResourcePath(upstream) THEN "stub" ELSE "vite"

-----------------------------------------------------------------------------
\* Whatever a page or a redirect leads to, on this server, is the file below the content URL
\* that it means, or nothing: a link that climbs out of it is not served.  No page loads Vite's
\* own client, which the Preview cannot connect.  To rewrite twice is to rewrite once, and no
\* redirect leads to another host.
UrlsAgree(answer) ==
    LET sent  == PreparePreviewResponse(answer)
        asked == Asked(sent.link, Base)
        plain == Selected(answer.link.path, ToSet(answer.link.path) \ {"."})
        twice == PreparePreviewResponse([answer EXCEPT !.link = sent.link])
        here  == sent.link.form \in {"based", "rooted", "relative"}
    IN  /\ sent.kind = "redirect" =>
              here /\ asked = Asked(sent.link, <<"redirect">>)
        /\ sent.kind = "unavailable" <=>
              answer.kind = "redirect" /\ answer.link.form \in {"none", "absolute", "host"}
        /\ here /\ ".." \notin ToSet(answer.link.path) =>
              /\ asked = Base \o plain
              /\ ContentHandler(asked) = IF plain = <<"client">> THEN "stub" ELSE "vite"
        /\ here /\ ContentHandler(asked) # "not_found" => IsPrefix(Base, asked)
        /\ answer.kind = "html" /\ sent.link = NoLink =>
              answer.element = "script" /\ answer.link.path = <<"client">>
        /\ sent.link # NoLink => twice = sent
=============================================================================
