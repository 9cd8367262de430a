CONSTANTS
    None = None
    Ids = {1, 2}
    Objects <- MCObjects
    Queries <- MCQueries
    OldSchemas <- MCOldSchemas
    NewSchema <- MCNewSchema
    SearchPage = 1
    PageSize = 1
SPECIFICATION Spec
INVARIANTS SearchFinds SearchExact PagesAscend PagesComplete MasksHide TypoRefused
