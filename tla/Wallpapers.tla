----------------------------- MODULE Wallpapers -----------------------------
(***************************************************************************)
(* The wallpaper pack of one delivered NFT (wallpapers.ts): its row in     *)
(* nft_wallpaper_assets and the image its metadata shows, which a reveal   *)
(* changes.  An asset's id is a digest of the render version, the NFT and  *)
(* the image; here it is the pair of version and image.                    *)
(***************************************************************************)
CONSTANTS Images,   \* what the NFT's metadata can show
          NoAsset   \* no row

VARIABLES image,     \* the image the metadata shows now
          asset,     \* the row
          reviewed   \* history: the assets an operator reviewed for the catalogue

AssetIds == [version : {"old", "new"}, image : Images]
Assets == [id : AssetIds, public : BOOLEAN]

ASSUME WallpapersAssumption == NoAsset \notin Assets

WallpapersTypeOK ==
  /\ image \in Images
  /\ asset \in Assets \cup {NoAsset}
  /\ reviewed \subseteq AssetIds

\* The row may be from a build with an older WALLPAPER_RENDER_VERSION.
WallpapersInit ==
  /\ image \in Images
  /\ asset \in {a \in Assets : a.id.version = "old"} \cup {NoAsset}
  /\ reviewed = IF asset # NoAsset /\ asset.public THEN {asset.id} ELSE {}

\* getPublic, and the test of purchase
Public(id) == asset # NoAsset /\ asset.id = id /\ asset.public

\* Mutant: every create renders.
NeverReplays == FALSE

\* create answers with the row it has.
Replays == asset # NoAsset /\ asset.id.version = "new"

\* Mutant: a new rendering of a public asset stays public.
RenderedInPlace(i) ==
  [id |-> [version |-> "new", image |-> i], public |-> asset # NoAsset /\ asset.public]

\* The upsert at the end of create; its rights are 'private-use'.
Rendered(i) == [id |-> [version |-> "new", image |-> i], public |-> FALSE]

Store(i) ==
  /\ asset' = Rendered(i)
  /\ UNCHANGED <<image, reviewed>>

\* promote, of the row that is there
Promote(row) ==
  /\ asset' = [row EXCEPT !.public = TRUE]
  /\ reviewed' = reviewed \cup {row.id}
  /\ UNCHANGED image

\* The project reveals or replaces the metadata.
Reveal ==
  /\ image' \in Images \ {image}
  /\ UNCHANGED <<asset, reviewed>>

\* What the catalogue offers was reviewed, as the very rendering that is offered.
PublicIsReviewed ==
  asset # NoAsset /\ asset.public => asset.id \in reviewed
=============================================================================
