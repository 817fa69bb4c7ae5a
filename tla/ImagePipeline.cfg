SPECIFICATION Spec
CONSTANTS
    Paths <- SomePaths
    Unseen <- SomeUnseen
    Others <- SomeOthers
    Separators <- SomeSeparators
    MaxElements = 2
    MaxWrites = 2
    NoPath = NoPath
    Image = Image
    Partial = Partial
INVARIANTS ElementsInOrder TakenPromptly FilesWhole ResultIsTrue
