SPECIFICATION Spec
CONSTANTS
    imageA = imageA
    imageB = imageB
    imageC = imageC
    file = file
    Uids = {imageA, imageB, imageC, file}
    Images = {imageA, imageB, imageC}
    Content <- ShareAndNest
    Budgets <- SomeOfEach
INVARIANTS
    RowsAreSound
    FilesMatchRows
CHECK_DEADLOCK FALSE
