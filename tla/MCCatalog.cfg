CONSTANTS
    AnimeIds = {a1, a2}
    Slugs = {x, y}
    LabelSlugs = {g}
    SeasonNumbers = {1, 2}
    EpisodeNumbers = {1, 2, 3}
    ExternalIds <- MCExternalIds
    StreamingSources <- MCSources
    NoAnime = NoAnime
    NoEpisode = NoEpisode
    FirstStatuses = {"announced"}
    RelationTypes = {"sequel", "spin_off", "side_story", "parent_story"}
    Listings <- MCListings
    MaxWrites = 5
SPECIFICATION Spec
SYMMETRY Symmetry
INVARIANTS
    RelationsMirrored
    NavigationFollowsList
PROPERTIES
    NothingLost
CHECK_DEADLOCK FALSE
