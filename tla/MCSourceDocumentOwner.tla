----------------------- MODULE MCSourceDocumentOwner -----------------------
(* Two bundles, the second inside the resources of the first; a resource    *)
(* of the outer one as a target of other writers, and a file of nobody's.   *)
EXTENDS SourceDocumentOwner

CONSTANTS c1, c2, c3

MCCalls == {c1, c2, c3}
MCDirectories == {"outer", "nested"}
MCPaths == {"outer resource", "notes"}
MCOverlaps == {<<d, d>> : d \in MCDirectories}
                \cup {<<"outer", "nested">>, <<"nested", "outer">>}
MCCovers == {<<"outer", "outer resource">>}
=============================================================================
