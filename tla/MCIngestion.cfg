CONSTANTS
    r1 = r1
    r2 = r2
    r3 = r3
    Requests = {r1, r2, r3}
    g = g
    h = h
    s1 = s1
    s2 = s2
    Slugs = {s1, s2}
    Genres = {g, h}
    SlugOf <- MCSlugOf
    GenresOf <- MCGenresOf
    KeywordsOf <- MCKeywordsOf
    Calls = {r1, r2, r3}
    Pages <- MCPages
    MaxFetches = 2
    NoPage = NoPage
    PoolSize = 2
    EpisodeNumbers = {1, 2}
    NoRequest = NoRequest
    NoAnime = NoAnime
    NoEpisode = NoEpisode
SPECIFICATION FairSpec
INVARIANTS
    AnswersComplete
    NothingLeftBehind
    AllOrNothing
    OneAnimePerSlug
PROPERTIES
    ImplementsCatalog
    IngestionsEnd
CHECK_DEADLOCK FALSE
