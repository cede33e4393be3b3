----------------------------- MODULE MCSiteCrawl -----------------------------
\* Instances of SiteCrawl for TLC.
EXTENDS SiteCrawl, TLC

CONSTANTS stock, patchright, camoufox, cloak

\* The last one is not enabled; camoufox makes no PDFs; stock Chromium is not
\* in the order.
Order == <<patchright, camoufox, cloak>>
Able == [fetch |-> {stock} \cup Range(Order), pdf |-> {stock, patchright, cloak},
         workflow |-> {stock} \cup Range(Order)]

Want(op, strategy, backend, cacheable) ==
    [op |-> op, strategy |-> strategy, backend |-> backend, cacheable |-> cacheable]
ByMap == Want("fetch", "http", stock, FALSE)
Asked == {Want("fetch", "auto", patchright, TRUE), Want("fetch", "browser", cloak, FALSE),
          Want("pdf", "browser", stock, FALSE), Want("workflow", "browser", cloak, FALSE), ByMap}

\* Every link structure on three pages; the seed has a view.
AllSites ==
    {s \in [Pages -> [links : SUBSET Pages, tab : BOOLEAN]] :
        \A p \in Pages : p \notin s[p].links /\ s[p].tab = (p = Seed)}
AllMaps == [maximum : {2, 5}, maxDepth : {1, 2}, matched : {Pages, {1, 2}}]
=============================================================================
