SPECIFICATION Spec
CONSTANTS
    Req = {r1, r2}
    Name = {n1}
    None = None
    Ttl <- ShortTtl
    NullTtl <- ShortNullTtl
    Timeout <- OneTick
    MaxLag = 2
    MaxEdits = 2
INVARIANTS TypeOK
PROPERTIES ServedIsRecent CacheConverges TitleAlwaysAnswers
