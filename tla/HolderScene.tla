----------------------------- MODULE HolderScene -----------------------------
(***************************************************************************)
(* The holders as bodies in orbit: the stage of app/components/ecosystem/  *)
(* HolderEcosystem.tsx and the renderer behind it, scene.ts.  React keeps  *)
(* the holders, the selection and the appearance; the renderer, which      *)
(* loads later, keeps its own copy of all three and computes each body's   *)
(* orbit and size when it thinks they changed.                             *)
(***************************************************************************)
EXTENDS HolderEcosystem

CONSTANTS
    Frames,     \* snapshots that may reach the stage
    Limits, Masses,     \* safety limits and total masses read beside them
    Sizes       \* settings of the size slider

NoOne == "no one"

VARIABLES
    drawn,      \* what React draws: the holders, L and S; none yet: limit 0
    look,       \* React's appearance: hidden statuses and the size slider
    chosen,     \* selectedId
    hoverId,
    scene       \* the renderer; mounted once three.js has loaded

stageVars == <<drawn, look, chosen, hoverId, scene>>

Status  == {"safe", "near", "vaulted", "pool"}
NoScene == [mounted |-> FALSE, synced |-> FALSE, limit |-> 0, bodies |-> [i \in {} |-> 0],
            hidden |-> {}, size |-> 0, selected |-> NoOne, hovered |-> NoOne,
            ring |-> FALSE, pings |-> {}]

-----------------------------------------------------------------------------
\* The nodes handed to the renderer, and what a body is computed from.

\* A pool's share of S; accounts have none.
Node(h, mass) ==
    [status |-> h.status, held |-> h.balance,
     share |-> IF h.kind = "pool" /\ h.balance > 0 THEN mass ELSE 0]

Nodes(d) ==
    [i \in {h.id : h \in d.holders} |-> Node(CHOOSE h \in d.holders : h.id = i, d.mass)]

\* orbitR and sizeOf: of the balance and L, or of a pool's share alone.
OrbitOf(n, limit)      == IF n.status = "pool" THEN <<>> ELSE <<n.held, limit>>
SizeOf(n, limit, size) == <<n.held, IF n.status = "pool" THEN n.share ELSE limit, size>>

NewBody(n, sc) ==
    [node |-> n, orbit |-> OrbitOf(n, sc.limit), size |-> SizeOf(n, sc.limit, sc.size),
     hue |-> n.status, shown |-> n.status \notin sc.hidden]

\* Mutant: the limit alone does not move a body.
RefitOnMove(b, n, limitMoved) == b.node # n

\* A change of status, balance, share or L.
Refit(b, n, limitMoved) == b.node # n \/ limitMoved

Updated(b, n, sc, limitMoved) ==
    LET turned == b.node.status # n.status
    IN  [node |-> n,
         orbit |-> IF Refit(b, n, limitMoved) THEN OrbitOf(n, sc.limit) ELSE b.orbit,
         size  |-> IF Refit(b, n, limitMoved) THEN SizeOf(n, sc.limit, sc.size) ELSE b.size,
         hue   |-> IF turned THEN n.status ELSE b.hue,
         shown |-> IF turned THEN n.status \notin sc.hidden ELSE b.shown]

\* Bodies that left take their rings and pings along.
Selected(sc, i) == [sc EXCEPT !.selected = i, !.ring = i # NoOne /\ @]

Sync(old, d) ==
    LET nodes      == Nodes(d)
        limitMoved == d.limit # old.limit
        sc         == [old EXCEPT !.limit = d.limit, !.synced = TRUE]
        stays(i)   == i \in DOMAIN old.bodies
        flashes    == {i \in DOMAIN nodes :
                          IF stays(i) THEN old.bodies[i].node # nodes[i] ELSE old.synced}
        left       == [sc EXCEPT
                          !.bodies = [i \in DOMAIN nodes |->
                              IF stays(i) THEN Updated(old.bodies[i], nodes[i], sc, limitMoved)
                              ELSE NewBody(nodes[i], sc)],
                          !.pings = (@ \cup flashes) \cap DOMAIN nodes,
                          !.hovered = IF @ \in DOMAIN nodes THEN @ ELSE NoOne]
    IN  IF sc.selected \in DOMAIN nodes \cup {NoOne} THEN left ELSE Selected(left, NoOne)

Hide(sc, hidden) ==
    [sc EXCEPT !.hidden = hidden,
               !.bodies = [i \in DOMAIN @ |->
                   [@[i] EXCEPT !.shown = sc.bodies[i].node.status \notin hidden]]]

Resize(sc, size) ==
    [sc EXCEPT !.size = size,
               !.bodies = [i \in DOMAIN @ |->
                   [@[i] EXCEPT !.size = SizeOf(sc.bodies[i].node, sc.limit, size)]]]

-----------------------------------------------------------------------------
\* The stage's effects run with the change that calls for them.

Synced(sc, d) == IF sc.mounted /\ d.limit > 0 THEN Sync(sc, d) ELSE sc

\* A new snapshot, limit or mass; a body that left loses the selection.
Draw(d) ==
    /\ d # drawn /\ drawn' = d
    /\ scene' = Synced(scene, d)
    /\ chosen' = IF scene.selected # scene'.selected THEN NoOne ELSE chosen
    /\ UNCHANGED <<look, hoverId>>

\* three.js has loaded: every effect runs on the new renderer.
Mount ==
    /\ ~scene.mounted
    /\ LET fresh == Synced([NoScene EXCEPT !.mounted = TRUE, !.size = 1], drawn)
       IN  scene' = Resize(Hide(fresh, look.hidden), look.size)
    /\ UNCHANGED <<drawn, look, chosen, hoverId>>

ToggleStatus(st) ==
    /\ look' = [look EXCEPT !.hidden = IF st \in @ THEN @ \ {st} ELSE @ \cup {st}]
    /\ scene' = IF scene.mounted THEN Hide(scene, look'.hidden) ELSE scene
    /\ UNCHANGED <<drawn, chosen, hoverId>>

SetSize(size) ==
    /\ look.size # size /\ look' = [look EXCEPT !.size = size]
    /\ scene' = IF scene.mounted THEN Resize(scene, size) ELSE scene
    /\ UNCHANGED <<drawn, chosen, hoverId>>

-----------------------------------------------------------------------------
\* The pointer: only what is visible can be hit.

Hits == {i \in DOMAIN scene.bodies : scene.bodies[i].shown} \cup {NoOne}

PointerMove(i) ==
    /\ scene' = [scene EXCEPT !.hovered = i]
    /\ hoverId' = IF i # scene.selected THEN i ELSE NoOne
    /\ UNCHANGED <<drawn, look, chosen>>

\* setSelected tells React; the click that ends a drag does not come here.
Click(i) ==
    /\ scene' = Selected(scene, i) /\ chosen' = i
    /\ UNCHANGED <<drawn, look, hoverId>>

\* The panel's close button, and the reset of the view.
Close == chosen # NoOne /\ Click(NoOne)

\* One animation frame: the ring follows its body, a ping may end.
Animate ==
    /\ scene.mounted
    /\ \E ended \in SUBSET scene.pings :
          scene' = [scene EXCEPT
                       !.pings = @ \ ended,
                       !.ring = IF scene.selected = NoOne THEN @
                                ELSE scene.bodies[scene.selected].shown]
    /\ UNCHANGED <<drawn, look, chosen, hoverId>>

-----------------------------------------------------------------------------
StageInit ==
    /\ drawn = [holders |-> {}, limit |-> 0, mass |-> 0]
    /\ look = [hidden |-> {}, size |-> 1]
    /\ chosen = NoOne /\ hoverId = NoOne /\ scene = NoScene

StageNext ==
    \/ \E f \in Frames, l \in Limits, m \in Masses :
          Draw([holders |-> EcoHolders(f, l), limit |-> l, mass |-> m])
    \/ Mount \/ Close \/ Animate
    \/ \E st \in Status : ToggleStatus(st)
    \/ \E size \in Sizes : SetSize(size)
    \/ scene.mounted /\ \E i \in Hits : PointerMove(i) \/ Click(i)

StageSpec == StageInit /\ [][StageNext]_stageVars

StageTypeOK ==
    /\ chosen \in Address \cup {NoOne} /\ hoverId \in Address \cup {NoOne}
    /\ look.hidden \subseteq Status /\ look.size \in Sizes

\* scene.ts:299-304 and the class comments.  What the renderer shows is what
\* React holds, however data, limits, the legend, the sliders, the pointer and
\* the late load of the renderer follow each other: every body is the holder's,
\* with the orbit, size and visibility of now, and the body with the ring is the
\* one whose panel is open.
SceneMatchesPage ==
    scene.mounted =>
        /\ drawn.limit > 0 => scene.bodies =
              [i \in DOMAIN Nodes(drawn) |->
                  NewBody(Nodes(drawn)[i],
                          [limit |-> drawn.limit, size |-> look.size, hidden |-> look.hidden])]
        /\ scene.selected = chosen /\ chosen \in DOMAIN scene.bodies \cup {NoOne}
        /\ scene.ring => chosen # NoOne
        /\ scene.pings \cup {scene.hovered} \subseteq DOMAIN scene.bodies \cup {NoOne}
=============================================================================
